------------------------------ MODULE IdleList ------------------------------
(***************************************************************************)
(* The per-key idle list of the connection pool (pool.rs, `Idle<T>`,      *)
(* `Expiration`, `IdlePopper::pop` and the retain closure of              *)
(* `PoolInner::clear_expired`), as pure operators over a sequence of      *)
(* entries.  An entry is a record [conn |-> c, at |-> t]: the pooled       *)
(* value and its `idle_at` instant.  Time is a natural number of ticks.   *)
(* The state the operators read (is_open of every connection, the set of  *)
(* multiplexable connections, the timeout and `Instant::now()`) is passed *)
(* in as arguments.                                                       *)
(***************************************************************************)
EXTENDS Naturals, Sequences, SequencesExt

CONSTANT NoTimeout   \* `idle_timeout: None`

\* `Instant::saturating_duration_since`: never negative, even when the
\* entry's instant is later than `now`.
SaturatingSince(now, at) == IF now >= at THEN now - at ELSE 0

\* Fault: an entry exactly `timeout` old already counts as expired.
ExpiresAtTimeout(timeout, at, now) ==
    timeout # NoTimeout /\ SaturatingSince(now, at) >= timeout

\* `Expiration::expires`: an entry expires when strictly more than the
\* timeout has elapsed since it became idle; without a timeout nothing does.
Expires(timeout, at, now) ==
    timeout # NoTimeout /\ SaturatingSince(now, at) > timeout

\* Fault: pop skips only expired entries, not closed ones.
UsableIgnoresClosed(entry, open, timeout, now) ==
    ~Expires(timeout, entry.at, now)

\* The test `IdlePopper::pop` applies before reserving an entry.
Usable(entry, open, timeout, now) ==
    open[entry.conn] /\ ~Expires(timeout, entry.at, now)

\* A fault of `pop`: the shared copy is pushed back without the original
\* having been popped.
RECURSIVE IdlePopKeepsOriginal(_, _, _, _, _)
IdlePopKeepsOriginal(list, open, shared, timeout, now) ==
    IF list = <<>>
    THEN [list |-> <<>>, got |-> <<>>]
    ELSE IF ~Usable(Last(list), open, timeout, now)
         THEN IdlePopKeepsOriginal(Front(list), open, shared, timeout, now)
         ELSE [list |-> IF Last(list).conn \in shared
                        THEN Append(list, [conn |-> Last(list).conn, at |-> now])
                        ELSE Front(list),
               got  |-> <<Last(list)>>]

\* A fault of `pop`: every entry is reserved as Unique, so a shared one
\* is handed out and not pushed back.
RECURSIVE IdlePopTakesShared(_, _, _, _, _)
IdlePopTakesShared(list, open, shared, timeout, now) ==
    IF list = <<>>
    THEN [list |-> <<>>, got |-> <<>>]
    ELSE IF ~Usable(Last(list), open, timeout, now)
         THEN IdlePopTakesShared(Front(list), open, shared, timeout, now)
         ELSE [list |-> Front(list), got |-> <<Last(list)>>]

(***************************************************************************)
(* `IdlePopper::pop`: pop entries from the tail, dropping closed and      *)
(* expired ones, until one survives.  A multiplexable survivor is         *)
(* reserved as `Shared`: a copy is pushed back with `idle_at = now`.  The *)
(* result is the remaining list and the popped entry as a sequence of     *)
(* length 0 or 1 (an `Option<Idle<T>>`).                                  *)
(***************************************************************************)
RECURSIVE IdlePop(_, _, _, _, _)
IdlePop(list, open, shared, timeout, now) ==
    IF list = <<>>
    THEN [list |-> <<>>, got |-> <<>>]
    ELSE LET entry == Last(list)
             rest  == Front(list)
         IN  IF ~Usable(entry, open, timeout, now)
             THEN IdlePop(rest, open, shared, timeout, now)
             ELSE [list |-> IF entry.conn \in shared
                            THEN Append(rest, [conn |-> entry.conn, at |-> now])
                            ELSE rest,
                   got  |-> <<entry>>]

\* The age rule of idle entries, stated apart from Expires: with a
\* timeout, an entry may be used until `timeout` ticks after its idle_at
\* (and an idle_at later than now means no time has passed).
WithinTimeout(entry, timeout, now) ==
    timeout = NoTimeout \/ now <= entry.at + timeout

\* What `pop` is meant to do, stated without the loop: the last usable
\* entry is taken, every entry after it is discarded, the ones before it
\* are left as they are.
IdlePopSpec(list, open, shared, timeout, now) ==
    LET i == SelectLastInSeq(list, LAMBDA e : open[e.conn] /\ WithinTimeout(e, timeout, now))
    IN  IF i = 0
        THEN [list |-> <<>>, got |-> <<>>]
        ELSE [list |-> SubSeq(list, 1, i - 1)
                       \o (IF list[i].conn \in shared
                           THEN <<[conn |-> list[i].conn, at |-> now]>>
                           ELSE <<>>),
              got  |-> <<list[i]>>]

\* Fault: the eviction test counts an entry exactly `dur` old as expired.
ClearExpiredInclusive(list, open, dur, now) ==
    SelectSeq(list, LAMBDA e : open[e.conn] /\ ~(SaturatingSince(now, e.at) >= dur))

\* The retain closure of `clear_expired`: keep an entry only if it is
\* open and not more than `dur` old.
ClearExpired(list, open, dur, now) ==
    SelectSeq(list, LAMBDA e : open[e.conn] /\ ~(SaturatingSince(now, e.at) > dur))

=============================================================================

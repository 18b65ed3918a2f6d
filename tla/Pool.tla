-------------------------------- MODULE Pool --------------------------------
(***************************************************************************)
(* The connection pool of src/src/client/legacy/pool.rs: the shared      *)
(* `PoolInner` behind its mutex, the `Pool` handle, `Checkout` futures,   *)
(* `Pooled` handles, `Connecting` tokens and the `IdleTask` eviction      *)
(* loop.  Every step that holds the mutex is one atomic action; steps     *)
(* that do not (a receiver being dropped, a oneshot being polled, a       *)
(* connection closing) are actions of their own, so they interleave with  *)
(* the critical sections the way threads on a multi-threaded executor do. *)
(*                                                                         *)
(* A connection is a model value.  Those in SharedConns are multiplexable *)
(* (HTTP/2): `can_share()` is TRUE and `reserve()` yields `Shared`; the   *)
(* others (HTTP/1) yield `Unique`.  Time is a tick counter `now`.         *)
(***************************************************************************)
EXTENDS Naturals, Sequences, FiniteSets, SequencesExt, Functions, TLC, IdleList

CONSTANTS
    Keys,         \* pool keys (scheme + authority)
    Conns,        \* connections the connector can establish
    SharedConns,  \* the multiplexable ones
    Checkouts,    \* Checkout futures
    Attempts,     \* connect attempts of the client, each with a Connecting token
    MaxIdle,      \* Config.max_idle_per_host; 0 disables the pool
    Timeout,      \* Config.idle_timeout in ticks, or NoTimeout
    HasTimer,     \* whether Pool::new was given a timer
    MinCheck,     \* MIN_CHECK in ticks
    MaxTime,      \* bound on the clock
    NoKey,        \* key of a Checkout or attempt not created yet
    NoConn        \* "no connection returned"

ASSUME
    /\ SharedConns \subseteq Conns
    /\ MaxIdle \in Nat /\ MinCheck \in Nat /\ MaxTime \in Nat
    /\ Timeout \in Nat \cup {NoTimeout}
    /\ HasTimer \in BOOLEAN

VARIABLES
    idle,         \* PoolInner.idle: key -> list of [conn, at] (keys present only)
    waiters,      \* PoolInner.waiters: key -> queue of Checkouts whose Sender is queued
    connecting,   \* PoolInner.connecting
    intervalRef,  \* PoolInner.idle_interval_ref is Some
    poolHandle,   \* the client's own `Pool` clone is alive
    chk,          \* Checkout c: [st, key, rx, got]
    att,          \* connect attempt a: [st, key, ver, ref]; ref = Connecting.pool is Some
    pooled,       \* live Pooled handles: [conn, key, ref]
    releasing,    \* Pooled handles being dropped: checked open, upgraded, not yet locked
    open,         \* Poolable::is_open of every connection
    fresh,        \* connections not established yet
    now,          \* Instant::now()
    task,         \* the IdleTask: "none", "sleeping" or "done"
    deadline,     \* its sleep deadline
    assertFailed  \* the debug_assert! of `connected` has failed

vars == <<idle, waiters, connecting, intervalRef, poolHandle, chk, att,
          pooled, releasing, open, fresh, now, task, deadline, assertFailed>>

-----------------------------------------------------------------------------
(* Checkout states.  "active": created, no waiter; "parked": a waiter is  *)
(* registered and `rx` is its Receiver: "pending", "canceled" (Sender     *)
(* dropped) or the connection sent on it; "dropping": the Checkout is     *)
(* being dropped, its Receiver is gone but `clean_waiters` has not run;   *)
(* "done": resolved or dropped.  `got` is the connection it yielded.     *)
LiveCheckout == {"active", "parked", "dropping"}

\* Fault: a zero max_idle_per_host still builds a PoolInner.
EnabledAtZero == MaxIdle >= 0

\* Config::is_enabled: Pool.inner is Some.
Enabled == MaxIdle > 0

\* Fault: the IdleTask keeps an Arc instead of a WeakOpt.
StrongRefFromTask ==
    \/ poolHandle
    \/ \E c \in Checkouts : chk[c].st \in LiveCheckout
    \/ \E a \in Attempts : att[a].st = "connecting"
    \/ releasing # {}
    \/ task = "sleeping"

\* Strong references to the Arc<Mutex<PoolInner>>: the client's Pool, and
\* the Pool clone held by every live Checkout and every connect attempt,
\* and the Arc a dropping Pooled upgraded to.  Pooled, Connecting and
\* IdleTask otherwise hold only a WeakOpt.
StrongRef ==
    \/ poolHandle
    \/ \E c \in Checkouts : chk[c].st \in LiveCheckout
    \/ \E a \in Attempts : att[a].st = "connecting"
    \/ releasing # {}

\* WeakOpt::upgrade succeeds.
InnerAlive == Enabled /\ StrongRef

\* The variants of `Ver`.
Versions == {"Auto", "Http2"}

\* Poolable::reserve: a multiplexable connection yields
\* Reservation::Shared (one half kept, one half given away), any other
\* Reservation::Unique.
Reserve(v) == IF v \in SharedConns THEN "Shared" ELSE "Unique"

\* Maps whose domain holds only the keys present.
ListOf(f, k) == IF k \in DOMAIN f THEN f[k] ELSE <<>>
Upsert(f, k, v) == k :> v @@ f
Without(f, k) == Restrict(f, DOMAIN f \ {k})

\* oneshot::Sender::is_canceled: the Checkout's Receiver is gone.
Canceled(ck, c) == ck[c].st # "parked"

\* Pool::reuse: a Pooled for a value taken from the pool keeps a WeakOpt
\* only when the value cannot be shared.
Reuse(k, v) == [conn |-> v, key |-> k, ref |-> Enabled /\ v \notin SharedConns]

-----------------------------------------------------------------------------
\* The waiter loop of PoolInner::put for value v and queue q: the Senders
\* are popped in FIFO order and canceled ones skipped (a failed `send` is
\* the same as a canceled Sender).  A unique value goes to the first live
\* waiter and the loop stops; a shared one goes to every live waiter and is
\* kept.  Result: who is served, what is left queued, whether v is kept.
\* Fault: a unique value is sent and kept, as if it were shared.
PutWaitersNoTake(v, q, ck) ==
    LET first == SelectInSeq(q, LAMBDA c : ~Canceled(ck, c))
    IN  [served |-> IF first = 0 THEN {} ELSE {q[first]},
         rest   |-> IF first = 0 THEN <<>> ELSE SubSeq(q, first + 1, Len(q)),
         kept   |-> TRUE]

\* Fault: the shared branch sends to every live waiter but leaves the
\* queue in place, as if the Senders were iterated instead of popped.
PutWaitersKeepQueue(v, q, ck) ==
    LET first == SelectInSeq(q, LAMBDA c : ~Canceled(ck, c))
    IN  IF v \in SharedConns
        THEN [served |-> {q[i] : i \in {j \in DOMAIN q : ~Canceled(ck, q[j])}},
              rest   |-> q,
              kept   |-> TRUE]
        ELSE [served |-> IF first = 0 THEN {} ELSE {q[first]},
              rest   |-> IF first = 0 THEN <<>> ELSE SubSeq(q, first + 1, Len(q)),
              kept   |-> first = 0]

\* Fault: the queue is popped from the back (the newest waiter first).
PutWaitersLifo(v, q, ck) ==
    LET last == SelectLastInSeq(q, LAMBDA c : ~Canceled(ck, c))
    IN  IF Reserve(v) = "Shared"
        THEN [served |-> {q[i] : i \in {j \in DOMAIN q : ~Canceled(ck, q[j])}},
              rest   |-> <<>>,
              kept   |-> TRUE]
        ELSE [served |-> IF last = 0 THEN {} ELSE {q[last]},
              rest   |-> IF last = 0 THEN <<>> ELSE SubSeq(q, 1, last - 1),
              kept   |-> last = 0]

\* Fault: the value is taken out of its Option before the Sender's
\* is_canceled check, so a queue of canceled Senders consumes it.
PutWaitersDropsOnCanceled(v, q, ck) ==
    LET first == SelectInSeq(q, LAMBDA c : ~Canceled(ck, c))
    IN  IF Reserve(v) = "Shared"
        THEN [served |-> {q[i] : i \in {j \in DOMAIN q : ~Canceled(ck, q[j])}},
              rest   |-> <<>>,
              kept   |-> TRUE]
        ELSE [served |-> IF first = 0 THEN {} ELSE {q[first]},
              rest   |-> IF first = 0 THEN <<>> ELSE SubSeq(q, first + 1, Len(q)),
              kept   |-> q = <<>>]

PutWaiters(v, q, ck) ==
    LET first == SelectInSeq(q, LAMBDA c : ~Canceled(ck, c))
    IN  IF Reserve(v) = "Shared"
        THEN [served |-> {q[i] : i \in {j \in DOMAIN q : ~Canceled(ck, q[j])}},
              rest   |-> <<>>,
              kept   |-> TRUE]
        ELSE [served |-> IF first = 0 THEN {} ELSE {q[first]},
              rest   |-> IF first = 0 THEN <<>> ELSE SubSeq(q, first + 1, Len(q)),
              kept   |-> first = 0]

\* Fault: the cap test lets a list grow to max_idle_per_host + 1.
HasRoomInclusive(list) == Len(list) <= MaxIdle

\* The cap test of put: `max_idle_per_host <= idle_list.len()` refuses.
HasRoom(list) == Len(list) < MaxIdle

\* Fault: put has no dedup gate, so a second shareable value for a key
\* is queued behind the first.
PutOpNoDedup(k, v, idl, wt, ck) ==
    LET w    == PutWaiters(v, ListOf(wt, k), ck)
        list == ListOf(idl, k)
        room == HasRoom(list)
    IN [idle    |-> IF w.kept /\ room THEN Upsert(idl, k, Append(list, [conn |-> v, at |-> now]))
                    ELSE idl,
        waiters |-> IF k \in DOMAIN wt
                    THEN IF w.rest = <<>> THEN Without(wt, k) ELSE [wt EXCEPT ![k] = w.rest]
                    ELSE wt,
        chk     |-> [c \in DOMAIN ck |->
                        IF c \in w.served THEN [ck[c] EXCEPT !.rx = v] ELSE ck[c]],
        inserted |-> w.kept /\ room]

(***************************************************************************)
(* PoolInner::put.  The state it starts from is passed in, so that        *)
(* `pooled` can follow it with `connected` under the same lock.  A shared *)
(* value for a key that already has idle entries is dropped.  Otherwise   *)
(* the waiters are served, an emptied queue is removed, and a value still *)
(* in hand goes into `entry(key).or_default()` if the list is below the   *)
(* cap; `inserted` tells whether `spawn_idle_interval` runs.              *)
(***************************************************************************)
PutOp(k, v, idl, wt, ck) ==
    IF v \in SharedConns /\ k \in DOMAIN idl
    THEN [idle |-> idl, waiters |-> wt, chk |-> ck, inserted |-> FALSE]
    ELSE
      LET w    == PutWaiters(v, ListOf(wt, k), ck)
          list == ListOf(idl, k)
          room == HasRoom(list)
      IN [idle    |-> IF w.kept
                      THEN Upsert(idl, k, IF room
                                          THEN Append(list, [conn |-> v, at |-> now])
                                          ELSE list)
                      ELSE idl,
          waiters |-> IF k \in DOMAIN wt
                      THEN IF w.rest = <<>> THEN Without(wt, k)
                           ELSE [wt EXCEPT ![k] = w.rest]
                      ELSE wt,
          chk     |-> [c \in DOMAIN ck |->
                          IF c \in w.served THEN [ck[c] EXCEPT !.rx = v] ELSE ck[c]],
          inserted |-> w.kept /\ room]

\* Fault: `connected` clears the waiters of every key.
ConnectedOpAllKeys(k, wt, ck) ==
    [waiters |-> <<>>,
     chk     |-> [c \in DOMAIN ck |->
                    IF \E j \in DOMAIN wt : c \in Range(wt[j]) /\ ck[c].st = "parked"
                    THEN [ck[c] EXCEPT !.rx = "canceled"] ELSE ck[c]]]

\* PoolInner::connected: the key leaves `connecting` and its waiter queue
\* is dropped, which cancels the Receiver of every waiter still in it.
ConnectedOp(k, wt, ck) ==
    [waiters |-> Without(wt, k),
     chk     |-> [c \in DOMAIN ck |->
                    IF c \in Range(ListOf(wt, k)) /\ ck[c].st = "parked"
                    THEN [ck[c] EXCEPT !.rx = "canceled"] ELSE ck[c]]]

\* The effect of `connected` on `connecting`, with its debug_assert!.
Connected(k) ==
    /\ connecting' = connecting \ {k}
    /\ assertFailed' = (assertFailed \/ k \notin connecting)

\* Fault: the period is the timeout itself, without the MIN_CHECK floor.
IdleDurationNoMin == Timeout

\* The IdleTask's period: max(idle_timeout, MIN_CHECK).
IdleDuration == IF Timeout >= MinCheck THEN Timeout ELSE MinCheck

\* PoolInner::spawn_idle_interval, run after a successful insertion: at
\* most once, and only with a non-zero timeout and a timer.  IdleTask::run
\* takes its first deadline when the executor first polls the task; the
\* model takes it at the spawn, which can only move the first sweep
\* earlier, never let an entry be swept younger than the timeout.
SpawnIdleInterval(inserted) ==
    IF /\ inserted /\ ~intervalRef
       /\ Timeout # NoTimeout /\ Timeout # 0 /\ HasTimer
    THEN /\ intervalRef' = TRUE
         /\ task' = "sleeping"
         /\ deadline' = now + IdleDuration
    ELSE UNCHANGED <<intervalRef, task, deadline>>

\* Apply the result of `put` to the state.
ApplyPut(r) ==
    /\ idle' = r.idle
    /\ waiters' = r.waiters
    /\ chk' = r.chk
    /\ SpawnIdleInterval(r.inserted)

-----------------------------------------------------------------------------
Init ==
    /\ idle = <<>>
    /\ waiters = <<>>
    /\ connecting = {}
    /\ intervalRef = FALSE
    /\ poolHandle = TRUE
    /\ chk = [c \in Checkouts |-> [st |-> "unborn", key |-> NoKey,
                                   rx |-> "none", got |-> NoConn]]
    /\ att = [a \in Attempts |-> [st |-> "unborn", key |-> NoKey,
                                  ver |-> "Auto", ref |-> FALSE]]
    /\ pooled = {}
    /\ releasing = {}
    /\ open = [v \in Conns |-> TRUE]
    /\ fresh = Conns
    /\ now = 0
    /\ task = "none"
    /\ deadline = 0
    /\ assertFailed = FALSE

-----------------------------------------------------------------------------
(* Connecting tokens.                                                      *)

\* Fault: the result of `connecting.insert` is ignored.
TakeConnectingNoCheck(a, k, ver) ==
    /\ connecting' = IF ver = "Http2" /\ Enabled
                     THEN connecting \cup {k} ELSE connecting
    /\ att' = [att EXCEPT ![a] = [st |-> "connecting", key |-> k, ver |-> ver,
                                  ref |-> ver = "Http2" /\ Enabled]]

\* Pool::connecting(key, ver) for attempt a: for HTTP/2 on an enabled pool
\* the key is inserted into `connecting` and the token keeps a WeakOpt;
\* if the key was already there the result is None and the attempt ends.
\* Any other version gets a token without a back-reference.
TakeConnecting(a, k, ver) ==
    IF ver = "Http2" /\ Enabled
    THEN IF k \notin connecting
         THEN /\ connecting' = connecting \cup {k}
              /\ att' = [att EXCEPT ![a] = [st |-> "connecting", key |-> k,
                                            ver |-> ver, ref |-> TRUE]]
         ELSE /\ UNCHANGED connecting
              /\ att' = [att EXCEPT ![a] = [st |-> "done", key |-> k,
                                            ver |-> ver, ref |-> FALSE]]
    ELSE /\ UNCHANGED connecting
         /\ att' = [att EXCEPT ![a] = [st |-> "connecting", key |-> k,
                                       ver |-> ver, ref |-> FALSE]]

\* A new connect attempt takes a Pool clone from the client and calls
\* Pool::connecting.
StartConnecting(a, k, ver) ==
    /\ poolHandle
    /\ att[a].st = "unborn"
    /\ TakeConnecting(a, k, ver)
    /\ UNCHANGED <<idle, waiters, intervalRef, poolHandle, chk, pooled, releasing,
                   open, fresh, now, task, deadline, assertFailed>>

\* Connecting::alpn_h2: ALPN chose HTTP/2 on an attempt started as Auto;
\* the old token (no back-reference) is dropped and Pool::connecting is
\* asked again for HTTP/2.
AlpnH2(a) ==
    /\ att[a].st = "connecting"
    /\ att[a].ver = "Auto"
    /\ TakeConnecting(a, att[a].key, "Http2")
    /\ UNCHANGED <<idle, waiters, intervalRef, poolHandle, chk, pooled, releasing,
                   open, fresh, now, task, deadline, assertFailed>>

\* The attempt fails and drops its token: Drop for Connecting calls
\* `connected` when the token has a back-reference (the attempt's own
\* Pool clone keeps the upgrade alive).
ConnectFailed(a) ==
    /\ att[a].st = "connecting"
    /\ att' = [att EXCEPT ![a].st = "done"]
    /\ IF att[a].ref
       THEN LET r == ConnectedOp(att[a].key, waiters, chk)
            IN  /\ waiters' = r.waiters
                /\ chk' = r.chk
                /\ Connected(att[a].key)
       ELSE UNCHANGED <<waiters, chk, connecting, assertFailed>>
    /\ UNCHANGED <<idle, intervalRef, poolHandle, pooled, releasing, open, fresh, now,
                   task, deadline>>

\* Pool::pooled(connecting, value): the attempt established connection v.
\* An HTTP/2 attempt yields a multiplexable connection, any other an
\* HTTP/1 one.  On a disabled pool the value is wrapped without a
\* back-reference.  A Shared reservation puts the kept half, calls
\* `connected` under the same lock, clears the token's back-reference and
\* returns a Pooled without one.  A Unique reservation returns a Pooled
\* with a back-reference; the token is then dropped.
Pooled(a, v) ==
    /\ att[a].st = "connecting"
    /\ v \in fresh
    /\ (v \in SharedConns) = (att[a].ver = "Http2")
    /\ att' = [att EXCEPT ![a].st = "done"]
    /\ fresh' = fresh \ {v}
    /\ LET k == att[a].key IN
       \/ /\ ~Enabled
          /\ pooled' = pooled \cup {[conn |-> v, key |-> k, ref |-> FALSE]}
          /\ UNCHANGED <<idle, waiters, connecting, chk, intervalRef, task,
                         deadline, assertFailed>>
       \/ /\ Enabled /\ Reserve(v) = "Shared"
          /\ LET p == PutOp(k, v, idle, waiters, chk)
                 c == ConnectedOp(k, p.waiters, p.chk)
             IN  /\ idle' = p.idle
                 /\ waiters' = c.waiters
                 /\ chk' = c.chk
                 /\ SpawnIdleInterval(p.inserted)
          /\ Connected(k)
          /\ pooled' = pooled \cup {[conn |-> v, key |-> k, ref |-> FALSE]}
       \/ /\ Enabled /\ Reserve(v) = "Unique"
          /\ pooled' = pooled \cup {[conn |-> v, key |-> k, ref |-> TRUE]}
          /\ IF att[a].ref
             THEN LET c == ConnectedOp(k, waiters, chk)
                  IN  /\ waiters' = c.waiters
                      /\ chk' = c.chk
                      /\ Connected(k)
             ELSE UNCHANGED <<waiters, chk, connecting, assertFailed>>
          /\ UNCHANGED <<idle, intervalRef, task, deadline>>
    /\ UNCHANGED <<poolHandle, releasing, open, now>>

-----------------------------------------------------------------------------
(* Pooled handles.                                                         *)

\* Drop for Pooled, before the lock: a closed value is discarded; for an
\* open one the back-reference is upgraded (the Arc it yields keeps
\* PoolInner alive until the put); if that fails the value is discarded.
DropPooled(h) ==
    /\ h \in pooled
    /\ pooled' = pooled \ {h}
    /\ releasing' = IF open[h.conn] /\ h.ref /\ InnerAlive
                    THEN releasing \cup {h} ELSE releasing
    /\ UNCHANGED <<idle, waiters, connecting, intervalRef, poolHandle, chk,
                   att, open, fresh, now, task, deadline, assertFailed>>

\* Drop for Pooled, under the lock: put.  The value may have closed since
\* its is_open check.
PutPooled(h) ==
    /\ h \in releasing
    /\ releasing' = releasing \ {h}
    /\ ApplyPut(PutOp(h.key, h.conn, idle, waiters, chk))
    /\ UNCHANGED <<connecting, poolHandle, att, pooled, open, fresh, now,
                   assertFailed>>

-----------------------------------------------------------------------------
(* Checkout futures.                                                       *)

\* Pool::checkout(key): a lazy future, nothing is locked.
NewCheckout(c, k) ==
    /\ poolHandle
    /\ chk[c].st = "unborn"
    /\ chk' = [chk EXCEPT ![c] = [st |-> "active", key |-> k,
                                  rx |-> "none", got |-> NoConn]]
    /\ UNCHANGED <<idle, waiters, connecting, intervalRef, poolHandle, att,
                   pooled, releasing, open, fresh, now, task, deadline, assertFailed>>

\* Fault: a waiter is registered even when an idle entry was found.
PollCheckoutAlwaysWaits(c) ==
    /\ chk[c].st = "active"
    /\ Enabled
    /\ LET k     == chk[c].key
           r     == IdlePop(ListOf(idle, k), open, SharedConns, Timeout, now)
           found == r.got # <<>>
       IN  /\ idle' = IF ~found \/ r.list = <<>>
                      THEN Without(idle, k) ELSE [idle EXCEPT ![k] = r.list]
           /\ waiters' = Upsert(waiters, k, Append(ListOf(waiters, k), c))
           /\ chk' = [chk EXCEPT ![c].st = "parked", ![c].rx = "pending"]
           /\ UNCHANGED pooled
    /\ UNCHANGED <<connecting, intervalRef, poolHandle, att, releasing, open, fresh, now,
                   task, deadline, assertFailed>>

\* Checkout::poll without a waiter: `poll_waiter` is Ready(None) and
\* Checkout::checkout runs under the lock.  IdlePopper::pop takes the last
\* usable entry; the key is removed when its list is left empty or nothing
\* usable was found.  With an entry the future resolves through
\* Pool::reuse; without one a Sender is queued in `waiters` (FIFO) and the
\* future is parked on its Receiver.
PollCheckout(c) ==
    /\ chk[c].st = "active"
    /\ Enabled
    /\ LET k     == chk[c].key
           r     == IdlePop(ListOf(idle, k), open, SharedConns, Timeout, now)
           found == r.got # <<>>
       IN  /\ idle' = IF ~found \/ r.list = <<>>
                      THEN Without(idle, k) ELSE [idle EXCEPT ![k] = r.list]
           /\ IF found
              THEN /\ chk' = [chk EXCEPT ![c].st = "done",
                                         ![c].got = r.got[1].conn]
                   /\ pooled' = pooled \cup {Reuse(k, r.got[1].conn)}
                   /\ UNCHANGED waiters
              ELSE /\ chk' = [chk EXCEPT ![c].st = "parked", ![c].rx = "pending"]
                   /\ waiters' = Upsert(waiters, k, Append(ListOf(waiters, k), c))
                   /\ UNCHANGED pooled
    /\ UNCHANGED <<connecting, intervalRef, poolHandle, att, releasing, open, fresh, now,
                   task, deadline, assertFailed>>

\* Checkout::poll on a disabled pool: Err(PoolDisabled).
PollDisabled(c) ==
    /\ chk[c].st = "active"
    /\ ~Enabled
    /\ chk' = [chk EXCEPT ![c].st = "done"]
    /\ UNCHANGED <<idle, waiters, connecting, intervalRef, poolHandle, att,
                   pooled, releasing, open, fresh, now, task, deadline, assertFailed>>

\* Fault: the value received is not checked with is_open.
PollWaiterNoOpenCheck(c) ==
    /\ chk[c].st = "parked"
    /\ chk[c].rx # "pending"
    /\ IF chk[c].rx \in Conns
       THEN /\ chk' = [chk EXCEPT ![c].st = "done", ![c].got = chk[c].rx]
            /\ pooled' = pooled \cup {Reuse(chk[c].key, chk[c].rx)}
       ELSE /\ chk' = [chk EXCEPT ![c].st = "done"]
            /\ UNCHANGED pooled
    /\ UNCHANGED <<idle, waiters, connecting, intervalRef, poolHandle, att,
                   releasing, open, fresh, now, task, deadline, assertFailed>>

\* Fault: a canceled Receiver is taken for a delivered value.
PollWaiterErrAsValue(c) ==
    /\ chk[c].st = "parked"
    /\ chk[c].rx # "pending"
    /\ chk' = [chk EXCEPT ![c].st = "done", ![c].got = chk[c].rx]
    /\ UNCHANGED <<idle, waiters, connecting, intervalRef, poolHandle, att,
                   pooled, releasing, open, fresh, now, task, deadline, assertFailed>>

\* Checkout::poll with a waiter whose Receiver is ready (poll_waiter):
\* an open value resolves through Pool::reuse, a closed one is
\* Err(CheckedOutClosedValue), a dropped Sender Err(CheckoutNoLongerWanted).
\* A pending Receiver makes `poll` return Pending without touching the pool.
PollWaiter(c) ==
    /\ chk[c].st = "parked"
    /\ chk[c].rx # "pending"
    /\ IF chk[c].rx \in Conns /\ open[chk[c].rx]
       THEN /\ chk' = [chk EXCEPT ![c].st = "done", ![c].got = chk[c].rx]
            /\ pooled' = pooled \cup {Reuse(chk[c].key, chk[c].rx)}
       ELSE /\ chk' = [chk EXCEPT ![c].st = "done"]
            /\ UNCHANGED pooled
    /\ UNCHANGED <<idle, waiters, connecting, intervalRef, poolHandle, att,
                   releasing, open, fresh, now, task, deadline, assertFailed>>

\* Drop for Checkout, first half: the Receiver is dropped (a value sent on
\* it is discarded with it), before the lock is taken.  Without a waiter
\* the drop only releases the Pool clone.
DropCheckout(c) ==
    /\ chk[c].st \in {"active", "parked"}
    /\ chk' = [chk EXCEPT ![c].st = IF chk[c].st = "parked"
                                    THEN "dropping" ELSE "done"]
    /\ UNCHANGED <<idle, waiters, connecting, intervalRef, poolHandle, att,
                   pooled, releasing, open, fresh, now, task, deadline, assertFailed>>

\* Fault: an emptied waiter queue is left in the map.
CleanWaitersKeepsEmpty(c) ==
    /\ chk[c].st = "dropping"
    /\ chk' = [chk EXCEPT ![c].st = "done"]
    /\ LET k == chk[c].key
       IN  waiters' = IF k \notin DOMAIN waiters THEN waiters
                      ELSE [waiters EXCEPT ![k] =
                              SelectSeq(waiters[k], LAMBDA x : ~Canceled(chk, x))]
    /\ UNCHANGED <<idle, connecting, intervalRef, poolHandle, att, pooled, releasing,
                   open, fresh, now, task, deadline, assertFailed>>

\* Drop for Checkout, second half: PoolInner::clean_waiters under the lock
\* keeps only the Senders that are not canceled and removes an emptied
\* queue; then the Pool clone is released.
CleanWaiters(c) ==
    /\ chk[c].st = "dropping"
    /\ chk' = [chk EXCEPT ![c].st = "done"]
    /\ LET k == chk[c].key
           q == SelectSeq(ListOf(waiters, k), LAMBDA x : ~Canceled(chk, x))
       IN  waiters' = IF k \notin DOMAIN waiters THEN waiters
                      ELSE IF q = <<>> THEN Without(waiters, k)
                      ELSE [waiters EXCEPT ![k] = q]
    /\ UNCHANGED <<idle, connecting, intervalRef, poolHandle, att, pooled, releasing,
                   open, fresh, now, task, deadline, assertFailed>>

-----------------------------------------------------------------------------
(* The client's Pool, the connections and the clock.                       *)

\* The client drops its Pool.
DropPool ==
    /\ poolHandle
    /\ poolHandle' = FALSE
    /\ UNCHANGED <<idle, waiters, connecting, intervalRef, chk, att, pooled, releasing,
                   open, fresh, now, task, deadline, assertFailed>>

\* The peer closes an established connection: is_open turns FALSE.
CloseConn(v) ==
    /\ v \notin fresh
    /\ open[v]
    /\ open' = [open EXCEPT ![v] = FALSE]
    /\ UNCHANGED <<idle, waiters, connecting, intervalRef, poolHandle, chk, att,
                   pooled, releasing, fresh, now, task, deadline, assertFailed>>

Tick ==
    /\ now < MaxTime
    /\ now' = now + 1
    /\ UNCHANGED <<idle, waiters, connecting, intervalRef, poolHandle, chk, att,
                   pooled, releasing, open, fresh, task, deadline, assertFailed>>

-----------------------------------------------------------------------------
(* The IdleTask.  `select` polls the drop beacon before the sleep.         *)

\* The sleep fires while the pool lives: clear_expired under the lock on
\* every list, keys whose list empties are removed, and the sleep is reset.
IdleTaskTick ==
    /\ task = "sleeping"
    /\ now >= deadline
    /\ InnerAlive
    /\ LET kept == [k \in DOMAIN idle |-> ClearExpired(idle[k], open, Timeout, now)]
       IN  idle' = Restrict(kept, {k \in DOMAIN kept : kept[k] # <<>>})
    /\ deadline' = now + IdleDuration
    /\ UNCHANGED <<waiters, connecting, intervalRef, poolHandle, chk, att,
                   pooled, releasing, open, fresh, now, task, assertFailed>>

\* The last strong reference is gone, so PoolInner and its
\* idle_interval_ref Sender are dropped: the beacon fires and the loop ends.
IdleTaskStop ==
    /\ task = "sleeping"
    /\ ~InnerAlive
    /\ task' = "done"
    /\ UNCHANGED <<idle, waiters, connecting, intervalRef, poolHandle, chk, att,
                   pooled, releasing, open, fresh, now, deadline, assertFailed>>

-----------------------------------------------------------------------------
Next ==
    \/ \E a \in Attempts, k \in Keys, ver \in Versions :
          StartConnecting(a, k, ver)
    \/ \E a \in Attempts : AlpnH2(a) \/ ConnectFailed(a)
    \/ \E a \in Attempts, v \in Conns : Pooled(a, v)
    \/ \E h \in pooled : DropPooled(h)
    \/ \E h \in releasing : PutPooled(h)
    \/ \E c \in Checkouts, k \in Keys : NewCheckout(c, k)
    \/ \E c \in Checkouts :
          \/ PollCheckout(c) \/ PollDisabled(c) \/ PollWaiter(c)
          \/ DropCheckout(c) \/ CleanWaiters(c)
    \/ DropPool
    \/ \E v \in Conns : CloseConn(v)
    \/ Tick
    \/ IdleTaskTick
    \/ IdleTaskStop

\* The executor runs a spawned IdleTask whose beacon has fired; a oneshot
\* send or Sender drop wakes the Checkout's task, which the executor then
\* polls; and the Drop of a Checkout runs clean_waiters on the same thread
\* right after its Receiver is gone, as the Drop of a Pooled runs its put
\* right after the upgrade.
Fairness ==
    /\ WF_vars(IdleTaskStop)
    /\ \A c \in Checkouts : WF_vars(PollWaiter(c)) /\ WF_vars(CleanWaiters(c))
    /\ \A h \in [conn : Conns, key : Keys, ref : {TRUE}] : WF_vars(PutPooled(h))

Spec == Init /\ [][Next]_vars /\ Fairness

-----------------------------------------------------------------------------
(* Properties.                                                             *)

Entry == [conn : Conns, at : 0..MaxTime]
RxValues == {"none", "pending", "canceled"} \cup Conns

TypeOK ==
    /\ DOMAIN idle \subseteq Keys /\ \A k \in DOMAIN idle : idle[k] \in Seq(Entry)
    /\ DOMAIN waiters \subseteq Keys
    /\ \A k \in DOMAIN waiters : waiters[k] \in Seq(Checkouts)
    /\ connecting \subseteq Keys
    /\ chk \in [Checkouts -> [st : LiveCheckout \cup {"unborn", "done"},
                              key : Keys \cup {NoKey}, rx : RxValues,
                              got : Conns \cup {NoConn}]]
    /\ att \in [Attempts -> [st : {"unborn", "connecting", "done"},
                             key : Keys \cup {NoKey}, ver : Versions,
                             ref : BOOLEAN]]
    /\ pooled \subseteq [conn : Conns, key : Keys, ref : BOOLEAN]
    /\ releasing \subseteq [conn : Conns, key : Keys, ref : {TRUE}]
    /\ open \in [Conns -> BOOLEAN] /\ fresh \subseteq Conns
    /\ task \in {"none", "sleeping", "done"} /\ deadline \in Nat
    /\ {intervalRef, poolHandle, assertFailed} \subseteq BOOLEAN

\* The shape of PoolInner that `put`, `checkout`, `clean_waiters`,
\* `connected` and `clear_expired` must keep together: no key maps to an
\* empty idle list or an empty waiter queue, and no idle list is longer
\* than max_idle_per_host.
MapsWellFormed ==
    /\ \A k \in DOMAIN idle : idle[k] # <<>> /\ Len(idle[k]) <= MaxIdle
    /\ \A k \in DOMAIN waiters : waiters[k] # <<>>

\* Where an HTTP/1 connection can be: an idle entry, a Pooled handle (live
\* or being dropped), or a Receiver it was sent on and that still waits to
\* be polled.
Holders(v) ==
    Cardinality({s \in UNION {{k} \X DOMAIN idle[k] : k \in DOMAIN idle} :
                    idle[s[1]][s[2]].conn = v})
    + Cardinality({h \in pooled \cup releasing : h.conn = v})
    + Cardinality({c \in Checkouts : chk[c].st = "parked" /\ chk[c].rx = v})

\* A Unique reservation is exclusive: across put's waiter hand-off, the
\* idle pop of concurrent Checkouts, Pooled drops and attempts completing,
\* an HTTP/1 connection is never in two places at once.
UniqueExclusive == \A v \in Conns \ SharedConns : Holders(v) <= 1

\* put offers a value to the waiters before the idle list, and a Checkout
\* only parks after finding nothing usable: so while a key has idle
\* entries, every Sender queued for it belongs to a Checkout that is gone.
NoIdleWhileWaiting ==
    \A k \in DOMAIN idle \cap DOMAIN waiters :
        \A i \in DOMAIN waiters[k] : Canceled(chk, waiters[k][i])

\* Single flight of HTTP/2 connects: `connecting` holds exactly the keys of
\* the live tokens with a back-reference, no two such tokens share a key,
\* and `connected` never runs for a key that is not there (its
\* debug_assert!), whether it is reached from Pool::pooled or from Drop.
SingleFlight ==
    LET holders == {a \in Attempts : att[a].st = "connecting" /\ att[a].ref}
    IN  /\ ~assertFailed
        /\ connecting = {att[a].key : a \in holders}
        /\ \A a, b \in holders : a # b => att[a].key # att[b].key

\* put's dedup gate and pop's Shared re-push keep at most one entry of a
\* multiplexable connection in any idle list.
SharedIdleOnce ==
    \A k \in DOMAIN idle :
        Cardinality({i \in DOMAIN idle[k] : idle[k][i].conn \in SharedConns}) <= 1

\* spec.md section 8: "for all shareable values inserted for key k, at
\* most one Idle entry for k exists".  put's dedup gate only stops a second
\* shareable value; an HTTP/1 value for the same key is appended after it.
SharedKeyHoldsOneIdle ==
    \A k \in DOMAIN idle :
        (\E i \in DOMAIN idle[k] : idle[k][i].conn \in SharedConns)
            => Len(idle[k]) = 1

\* What a Checkout yields is open at the moment it resolves, and when it
\* comes from the idle list its entry had not expired.
CheckoutYieldsUsable ==
    [][\A c \in Checkouts :
         (chk[c].got = NoConn /\ chk'[c].got # NoConn) =>
            /\ open[chk'[c].got]
            /\ chk[c].st = "active" =>
                 \E i \in DOMAIN ListOf(idle, chk[c].key) :
                    /\ idle[chk[c].key][i].conn = chk'[c].got
                    /\ WithinTimeout(idle[chk[c].key][i], Timeout, now)]_vars

\* A pool built with max_idle_per_host = 0 is disabled (Pool.inner is
\* None): whatever Checkouts, attempts and drops do, nothing is ever kept,
\* no waiter is registered, no HTTP/2 connect is single-flighted, no Pooled
\* carries a back-reference and no IdleTask is spawned.
DisabledKeepsNothing ==
    MaxIdle = 0 =>
        /\ idle = <<>> /\ waiters = <<>> /\ connecting = {}
        /\ \A h \in pooled : ~h.ref
        /\ \A c \in Checkouts : chk[c].st # "parked" /\ chk[c].got = NoConn
        /\ task = "none"

\* Once the client's Pool, every Checkout and every connect attempt are
\* gone, a spawned IdleTask ends: it holds only a WeakOpt, so PoolInner is
\* dropped and the beacon fires even while the task sleeps on the timer.
IdleTaskStops ==
    (/\ ~poolHandle
     /\ \A c \in Checkouts : chk[c].st \notin LiveCheckout
     /\ \A a \in Attempts : att[a].st # "connecting")
    ~> task # "sleeping"


\* A parked Checkout's pending Receiver is canceled only by `connected`,
\* in the step in which its key leaves `connecting` (a single-flight token
\* ended through the Drop of Connecting), never in the step of
\* Pool::pooled that establishes a connection for its key (put serves the
\* waiters before connected drops the queue, under the same lock); and a
\* value once sent on it is never taken back.
WaiterOutcomeStable ==
    [][\A c \in Checkouts :
         chk[c].st = "parked" =>
            /\ (chk[c].rx = "pending" /\ chk'[c].rx = "canceled")
                  => /\ chk[c].key \in connecting \ connecting'
                     /\ ~\E h \in pooled' \ pooled : h.key = chk[c].key
            /\ chk[c].rx \in Conns => chk'[c].rx = chk[c].rx]_vars

\* An idle entry that is open and not expired leaves its list only by
\* being handed to a Checkout: neither IdlePopper::pop (which discards the
\* entries it skips) nor the IdleTask's clear_expired (whose age test must
\* agree with Expiration::expires) throws away a usable connection.
UsableIdleKept ==
    [][\A k \in DOMAIN idle : \A i \in DOMAIN idle[k] :
         LET e == idle[k][i] IN
            (/\ open[e.conn] /\ WithinTimeout(e, Timeout, now)
             /\ ~\E j \in DOMAIN ListOf(idle', k) : idle'[k][j].conn = e.conn)
               => \E c \in Checkouts : chk[c].st = "active" /\ chk'[c].got = e.conn]_vars

\* c is the oldest Sender of its key's queue whose Checkout is still parked.
FirstLiveWaiter(c) ==
    LET q == ListOf(waiters, chk[c].key)
    IN  \E j \in DOMAIN q : q[j] = c /\ \A i \in 1..(j - 1) : Canceled(chk, q[i])

\* A parked Checkout is woken only by a put, a `connected` or the pool's
\* end; nothing wakes it if none comes.  But once the Drop of a Pooled of
\* its key has passed its is_open check and upgrade, the Checkout at the
\* head of the live queue is not left behind: put sends it the value (it
\* cannot be skipped by a newer waiter, a later put or the closing of the
\* value) and the Checkout then resolves, or is dropped and cleans up.
WaiterServedByPut ==
    \A c \in Checkouts :
        (/\ chk[c].st = "parked" /\ chk[c].rx = "pending"
         /\ FirstLiveWaiter(c)
         /\ \E h \in releasing : h.key = chk[c].key)
        ~> chk[c].st = "done"

\* spec.md, table of section 3: PoolInner is "destroyed when all strong
\* Pool clones and Pooled-with-unique reservations drop".  Pooled holds
\* only a WeakOpt: a Pooled with a back-reference does not keep the pool
\* alive, and its Drop then discards the connection.
PooledKeepsInnerAlive == \A h \in pooled : h.ref => InnerAlive

-----------------------------------------------------------------------------
(* Refinement: for exclusive connections the pool implements PoolLease.   *)

\* Where an exclusive connection is, as PoolLease sees it.
InIdle(v) == \E k \in DOMAIN idle : \E i \in DOMAIN idle[k] : idle[k][i].conn = v
InHand(v) ==
    \/ \E h \in pooled \cup releasing : h.conn = v
    \/ \E c \in Checkouts : chk[c].st = "parked" /\ chk[c].rx = v
LeaseOf(v) ==
    CASE v \in fresh -> "fresh"
      [] InIdle(v)   -> "idle"
      [] InHand(v)   -> "busy"
      [] OTHER       -> "gone"

Lease == INSTANCE PoolLease
            WITH Conns <- Conns \ SharedConns,
                 lease <- [v \in Conns \ SharedConns |-> LeaseOf(v)],
                 open  <- [v \in Conns \ SharedConns |-> open[v]]

\* The pool implements the lease discipline for HTTP/1 connections: a
\* connection is established once, moves between the caller and the idle
\* list, is handed out of the idle list only while open (pop), and once
\* discarded (cap, expiry, pool gone, a closed value, a Receiver dropped
\* with a value in it) never comes back, whatever Checkouts, Pooled drops,
\* the IdleTask and the peers do in between.
LeaseRefinement == Lease!Spec

\* For a multiplexable connection: "kept" while it is in an idle list,
\* and lent to every Checkout it was sent to or popped for.
ShareOf(v) == CASE v \in fresh -> "fresh" [] InIdle(v) -> "kept" [] OTHER -> "gone"
LentOf(v) == {c \in Checkouts : chk[c].rx = v \/ chk[c].got = v}

Share == INSTANCE PoolShare
            WITH Conns <- SharedConns, Clients <- Checkouts,
                 share <- [v \in SharedConns |-> ShareOf(v)],
                 lent  <- [v \in SharedConns |-> LentOf(v)],
                 open  <- [v \in SharedConns |-> open[v]]

\* The pool implements the sharing discipline for HTTP/2 connections:
\* pooled keeps the connection and serves the waiters under one lock, pop
\* pushes a shared entry back as it hands it out, and once the entry is
\* gone (dedup in put, expiry, a closed value, the IdleTask) no Checkout
\* is handed the connection again.
ShareRefinement == Share!Spec

-----------------------------------------------------------------------------
(* Properties over several steps of Checkouts, Pooled drops and put.       *)

\* put pops the waiter queue from the front: an exclusive value goes to the
\* oldest Checkout still waiting, never past one queued ahead of it.
WaitersServedFifo ==
    [][\A c \in Checkouts :
         (chk[c].rx = "pending" /\ chk'[c].rx \in Conns \ SharedConns) =>
            LET q == ListOf(waiters, chk[c].key)
            IN  \A i, j \in DOMAIN q : (i < j /\ q[j] = c) => Canceled(chk, q[i])]_vars

\* The reasons the code has for discarding an open HTTP/1 connection in a
\* step: it had expired in an idle list (pop, clear_expired); put found
\* the list at max_idle_per_host; its Pooled has no back-reference or the
\* pool is gone; or the Checkout it was sent to drops its Receiver.
DiscardCause(v) ==
    \/ \E k \in DOMAIN idle : \E i \in DOMAIN idle[k] :
          idle[k][i].conn = v /\ Expires(Timeout, idle[k][i].at, now)
    \/ \E h \in releasing : h.conn = v /\ ~HasRoom(ListOf(idle, h.key))
    \/ \E h \in pooled : h.conn = v /\ ~(h.ref /\ InnerAlive)
    \/ \E c \in Checkouts :
          chk[c].st = "parked" /\ chk[c].rx = v /\ chk'[c].st = "dropping"

\* No open HTTP/1 connection is thrown away except for one of those
\* reasons: put's waiter loop, the idle pop, the IdleTask and the two-step
\* drops never lose one by the way.
ConnLostOnlyForCause ==
    [][\A v \in Conns \ SharedConns :
         (/\ open[v]
          /\ LeaseOf(v) \in {"busy", "idle"}
          /\ LeaseOf(v)' = "gone") => DiscardCause(v)]_vars

\* spec.md section 8, round-trip law: `drop(pool.pooled(c(k), v))`
\* followed by `pool.checkout(k)` yields v when v is open.  Stated on the
\* step of the drop that puts v: with no live waiter to take it, the pop a
\* Checkout would run next returns v.
RoundTrip ==
    [][\A h \in releasing \ releasing' :
         (/\ open[h.conn]
          /\ \A i \in DOMAIN ListOf(waiters, h.key) : Canceled(chk, waiters[h.key][i]))
            => LET r == IdlePop(ListOf(idle', h.key), open, SharedConns, Timeout, now)
               IN  r.got # <<>> /\ r.got[1].conn = h.conn]_vars

=============================================================================

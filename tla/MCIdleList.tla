----------------------------- MODULE MCIdleList -----------------------------
(***************************************************************************)
(* Checks the translation of `IdlePopper::pop` against its declarative    *)
(* statement over every idle list of up to MaxLen entries built from a    *)
(* few connections and instants, for every open/closed pattern, every     *)
(* `now` and every timeout (none, zero, one tick).                        *)
(***************************************************************************)
EXTENDS IdleList, FiniteSets

CONSTANTS Conns, Shared, MaxLen, MaxTime

Entries == [conn : Conns, at : 0..MaxTime]

VARIABLES list, open, now, timeout
vars == <<list, open, now, timeout>>

Init ==
    /\ list = <<>>
    /\ open \in [Conns -> BOOLEAN]
    /\ now \in 0..MaxTime
    /\ timeout \in {NoTimeout, 0, 1}

\* Grow the list by one entry at the tail, as `put` does.
Grow ==
    /\ Len(list) < MaxLen
    /\ \E e \in Entries : list' = Append(list, e)
    /\ UNCHANGED <<open, now, timeout>>

Spec == Init /\ [][Grow]_vars

TypeOK ==
    /\ list \in Seq(Entries)
    /\ open \in [Conns -> BOOLEAN]
    /\ timeout \in {NoTimeout} \cup Nat

\* The loop of `IdlePopper::pop` takes the last open, unexpired entry,
\* drops everything behind it and keeps everything before it; a shared
\* copy goes back with a fresh `idle_at`.
PopMatchesSpec ==
    IdlePop(list, open, Shared, timeout, now)
        = IdlePopSpec(list, open, Shared, timeout, now)
=============================================================================

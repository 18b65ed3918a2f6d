------------------------------ MODULE PoolLease ------------------------------
(***************************************************************************)
(* What the pool promises about an exclusive (HTTP/1) connection, without *)
(* keys, waiters, tokens or time.  A connection is "fresh" until the      *)
(* connector establishes it, then "busy" (in the hands of a caller: a     *)
(* Pooled handle, or a value sent to a Checkout and not yet taken), "idle"*)
(* (kept by the pool), or "gone" (discarded for good).  The pool only     *)
(* hands an idle connection out while it is open (it may keep one that    *)
(* closed after its holder let it go), and whatever it discards never    *)
(* comes back.  A step may move several connections at once, as one    *)
(* critical section of the pool can (a pop that discards stale entries   *)
(* and returns a usable one).                                            *)
(***************************************************************************)
CONSTANT Conns

VARIABLES lease, open

LeaseStates == {"fresh", "busy", "idle", "gone"}

\* The moves a connection may make in one step, and the one that needs it
\* to be open.
Moves == {<<"fresh", "busy">>, <<"busy", "idle">>, <<"idle", "busy">>,
          <<"busy", "gone">>, <<"idle", "gone">>}
NeedsOpen == {<<"idle", "busy">>}

Init ==
    /\ lease = [v \in Conns |-> "fresh"]
    /\ open = [v \in Conns |-> TRUE]

\* Some connections change hands; the others stay where they are.
Transfer ==
    /\ lease' \in [Conns -> LeaseStates]
    /\ lease' # lease
    /\ \A v \in Conns :
          \/ lease'[v] = lease[v]
          \/ /\ <<lease[v], lease'[v]>> \in Moves
             /\ <<lease[v], lease'[v]>> \in NeedsOpen => open[v]
    /\ UNCHANGED open

\* The peer closes an established connection, wherever it is.
Close ==
    /\ \E v \in Conns :
          /\ lease[v] # "fresh" /\ open[v]
          /\ open' = [open EXCEPT ![v] = FALSE]
    /\ UNCHANGED lease

Next == Transfer \/ Close

Spec == Init /\ [][Next]_<<lease, open>>

=============================================================================

------------------------------ MODULE PoolShare ------------------------------
(***************************************************************************)
(* What the pool promises about a multiplexable (HTTP/2) connection.  One *)
(* connection serves many callers at once, so unlike PoolLease it is not  *)
(* passed from hand to hand: the pool "kept" it from the moment it is     *)
(* established until it lets it go for good ("gone"), and `lent` records  *)
(* every client it was handed to.  A client gets the connection only      *)
(* while the pool keeps it and it is open, or in the step that first      *)
(* keeps it; the pool never lets go of a connection in the step that      *)
(* lends it, and what it let go of is never kept or lent again.  A client *)
(* keeps what it was lent: nothing is taken back.                         *)
(***************************************************************************)
CONSTANTS Conns, Clients

VARIABLES share, lent, open

ShareStates == {"fresh", "kept", "gone"}

Init ==
    /\ share = [v \in Conns |-> "fresh"]
    /\ lent = [v \in Conns |-> {}]
    /\ open = [v \in Conns |-> TRUE]

\* The moves of one connection in one step.
Moved(v) ==
    \/ share'[v] = share[v] /\ lent'[v] = lent[v]
    \* established and kept, perhaps handed at once to waiting clients
    \/ share[v] = "fresh" /\ share'[v] = "kept" /\ lent[v] = {}
    \* established and let go at once
    \/ share[v] = "fresh" /\ share'[v] = "gone" /\ lent'[v] = {}
    \* lent to more clients while kept and open
    \/ /\ share[v] = "kept" /\ share'[v] = "kept" /\ open[v]
       /\ lent[v] \subseteq lent'[v]
    \* let go for good
    \/ share[v] = "kept" /\ share'[v] = "gone" /\ lent'[v] = lent[v]

\* Some connections are established, lent or let go; the others stay.
Change ==
    /\ share' \in [Conns -> ShareStates]
    /\ lent' \in [Conns -> SUBSET Clients]
    /\ <<share', lent'>> # <<share, lent>>
    /\ \A v \in Conns : Moved(v)
    /\ UNCHANGED open

\* The peer closes an established connection.
Close ==
    /\ \E v \in Conns :
          /\ share[v] # "fresh" /\ open[v]
          /\ open' = [open EXCEPT ![v] = FALSE]
    /\ UNCHANGED <<share, lent>>

Next == Change \/ Close

Spec == Init /\ [][Next]_<<share, lent, open>>

=============================================================================

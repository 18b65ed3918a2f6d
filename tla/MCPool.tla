------------------------------- MODULE MCPool -------------------------------
(***************************************************************************)
(* Instantiates Pool for TLC: model values for keys, connections,         *)
(* Checkouts and attempts, and the symmetry of each set of interchangeable *)
(* model values.                                                          *)
(***************************************************************************)
EXTENDS Pool

CONSTANTS h1a, h1b, h2a, h2b, c1, c2, a1, a2, a3

\* Checkouts, attempts, and connections of the same kind are
\* interchangeable; keys are not permuted (NoKey stands apart).
Symmetry ==
    Permutations({c1, c2}) \cup Permutations({a1, a2, a3})
    \cup Permutations({h1a, h1b})

\* With two keys, the keys are interchangeable as well.
TwoKeySymmetry == Symmetry \cup Permutations(Keys)

\* Two multiplexable connections and one HTTP/1 connection.
SharingSymmetry ==
    Permutations({c1, c2}) \cup Permutations({a1, a2, a3})
    \cup Permutations({h2a, h2b})
ConnsShared == {h1a, h2a, h2b}
SharedShared == {h2a, h2b}

ConnsMC == {h1a, h1b, h2a}
SharedMC == {h2a}
CheckoutsMC == {c1, c2}
AttemptsMC == {a1, a2, a3}
=============================================================================

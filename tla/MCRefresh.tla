----------------------------- MODULE MCRefresh -----------------------------
(* Instances of Refresh for TLC.                                           *)
EXTENDS Refresh, TLC, Functions

CONSTANTS p1, p2, k1, k2, v1, v2

OneOfEach == (p1 :> "self") @@ (p2 :> "pool")
OwnOnly == [t \in Pollers |-> "self"]

AllFirst == [k \in Keys |-> v1]

\* Maps that agree as long as there is at most one instance in all.
UpToOne(sizes) == FoldFunction(+, 0, sizes) <= 1
=============================================================================

---------------------------- MODULE MCConnection ----------------------------
(* Instances of Connection for TLC.                                        *)
EXTENDS Connection

CONSTANTS r1, r2, u1, u2

\* Two requests of two units, or two of one unit.
OneUnitEach == [t \in Requests |-> IF t = r1 THEN u1 ELSE u2]
SameUnit    == [t \in Requests |-> u1]

\* Client identities are interchangeable.
ClientSymmetry == Permutations(Clients)
=============================================================================

------------------------------ MODULE MCDevice ------------------------------
(* An instance of Device for TLC: two polled tuples, the second optional in    *)
(* part, as in the example of docs/src/content/docs/patterns/library.md.       *)
EXTENDS Device, TLC

CONSTANTS sensors, circuits, water, p1, p2

Readings == {<<sensors, circuits, water>>, <<water>>, <<sensors, circuits>>}
Callers == Permutations(Polls)
=============================================================================

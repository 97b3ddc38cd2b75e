--------------------------- MODULE MCRequestGate ----------------------------
(* Finite instances of RequestGate for TLC.                                *)
EXTENDS RequestGate, TLC

\* The requests in flight are interchangeable.
CallSymmetry == Permutations(Calls)
=============================================================================

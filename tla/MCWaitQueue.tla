---------------------------- MODULE MCWaitQueue ----------------------------
(* Small instances of WaitQueue. *)
EXTENDS WaitQueue, TLC

CONSTANTS a, b, c
ThreeProcs == {a, b, c}
TwoProcs   == {a, b}
Symmetry2  == Permutations(TwoProcs)
=============================================================================

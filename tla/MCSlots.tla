------------------------------ MODULE MCSlots ------------------------------
(* Instances of SlotsHistory for TLC: the processes are interchangeable. *)
EXTENDS SlotsHistory, TLC
CONSTANTS a, b, c
ThreeProcs == {a, b, c}
TwoProcs == {a, b}
Symmetry3 == Permutations(ThreeProcs)
Symmetry2 == Permutations(TwoProcs)
=============================================================================

----------------------------- MODULE MCPlanets -----------------------------
(* A small instance of Planets: two teams, two parts of the galaxy. *)
EXTENDS Planets, TLC

CONSTANTS f, o, f1, f2, o1, p, q
Teams        == {f, o}
ThreePlanets == {f1, f2, o1}
Parts        == f1 :> f @@ f2 :> f @@ o1 :> o
Home         == f :> f1 @@ o :> o1
TwoPlayers   == {p, q}
OneMinute    == {1}
Symmetry     == Permutations(TwoPlayers)
=============================================================================

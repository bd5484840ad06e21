----------------------------- MODULE MCPlanets -----------------------------
(* Planets for TLC: a team with two planets, and one with its home only.    *)
EXTENDS Planets, TLC

CONSTANTS f1, f2, o1, s1, s2

MCSystem == [l \in Planet |-> IF l \in {f1, f2} THEN "FED" ELSE "ORI"]
MCHome == [t \in Team |-> IF t = "FED" THEN f1 ELSE o1]
ShipSymmetry == Permutations(Ship)
=============================================================================

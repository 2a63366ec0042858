---------------------------- MODULE MCPlanCache ----------------------------
(***************************************************************************)
(* A small instance of PlanCache for TLC.                                  *)
(***************************************************************************)
EXTENDS PlanCache, TLC

CONSTANTS p1, p2, p3, bin, conf, v1, v2

ThreeProcs == {p1, p2, p3}
TwoFiles   == {bin, conf}
TwoTexts   == {v1, v2}

Symmetry == Permutations(ThreeProcs) \cup Permutations(TwoFiles)
              \cup Permutations(TwoTexts)
=============================================================================

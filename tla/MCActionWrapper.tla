-------------------------- MODULE MCActionWrapper --------------------------
(***************************************************************************)
(* A small instance of ActionWrapper for TLC: two versions of one major,   *)
(* one of another, and a commit.                                           *)
(***************************************************************************)
EXTENDS ActionWrapper, TLC

CONSTANTS m1, m2, v100, v101, v200, v1, v2, sha

TwoMachines  == {m1, m2}
ThreeTags    == {v100, v101, v200}
TwoMajors    == {v1, v2}
OneSha       == {sha}
MajorOfThree == [t \in ThreeTags |-> IF t = v200 THEN v2 ELSE v1]

Symmetry == Permutations(TwoMachines) \cup Permutations({v100, v101})
=============================================================================

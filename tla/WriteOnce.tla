----------------------------- MODULE WriteOnce -----------------------------
(***************************************************************************)
(* What a cache entry is meant to be: published at most once, as a whole,  *)
(* and the same tree for whoever uses it afterwards.                       *)
(***************************************************************************)
CONSTANTS
  Trees,    \* the trees that may be published
  Nothing   \* not published

VARIABLE published

Init == published = Nothing

Publish ==
  /\ published = Nothing
  /\ published' \in Trees

Spec == Init /\ [][Publish]_published
=============================================================================

---------------------------- MODULE NewestBuilds ----------------------------
(***************************************************************************)
(* What the bundles of a layout are meant to be to those who install from  *)
(* it: for each key its newest build.  Every build that is published       *)
(* replaces the one of its key and no other, none gets lost, and none is   *)
(* ever older than what was there.  Digests are numbered in the order of   *)
(* their builds.  Nothing is promised from a disturbance on.               *)
(***************************************************************************)
EXTENDS Integers

VARIABLES
    newest,      \* key -> its build, a record with a digest
    published,   \* how many builds were published
    disturbed

Init == DOMAIN newest = {} /\ published = 0 /\ disturbed = FALSE

Publish(key) ==
    /\ published' = published + 1
    /\ newest' = [k \in DOMAIN newest \union {key} |->
                    IF k = key THEN newest'[key] ELSE newest[k]]
    /\ \A k \in DOMAIN newest : newest[k].digest < newest'[key].digest

Next ==
    \/ ~disturbed /\ UNCHANGED disturbed /\ \E key \in DOMAIN newest' : Publish(key)
    \/ disturbed' = TRUE

Spec == Init /\ [][Next]_<<newest, published, disturbed>>
=============================================================================

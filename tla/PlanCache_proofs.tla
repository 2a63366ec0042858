-------------------------- MODULE PlanCache_proofs --------------------------
(***************************************************************************)
(* Proofs about PlanCache for every set of runs, files and versions.       *)
(***************************************************************************)
EXTENDS PlanCache, TLAPS

USE AbsentAssumption, TornAssumption, NobodyAssumption DEF entry, run

\* The type invariant is inductive by itself.
LEMMA TypeStep == TypeOK /\ [Next]_vars => TypeOK'
<1> SUFFICES ASSUME TypeOK, [Next]_vars PROVE TypeOK'
  OBVIOUS
<1>1. CASE UNCHANGED vars
  BY <1>1 DEF TypeOK, vars
<1>2. ASSUME NEW p \in Procs, Begin(p) \/ Step(p) \/ Kill(p) \/ End(p)
      PROVE  TypeOK'
  <2>1. CASE Begin(p)
    BY <2>1 DEF Begin, TypeOK
  <2>2. CASE Check(p)
    BY <2>2 DEF Check, TypeOK
  <2>3. CASE BeginSeed(p)
    BY <2>3 DEF BeginSeed, TypeOK
  <2>4. ASSUME NEW f \in Files, OpenFile(p, f) PROVE TypeOK'
    BY <2>4 DEF OpenFile, TypeOK
  <2>5. CASE WriteFile(p)
    BY <2>5 DEF WriteFile, TypeOK
  <2>6. CASE WriteMarker(p)
    BY <2>6 DEF WriteMarker, TypeOK
  <2>7. CASE SeedFails(p)
    BY <2>7 DEF SeedFails, TypeOK
  <2>8. CASE Kill(p)
    BY <2>8 DEF Kill, TypeOK
  <2>9. CASE End(p)
    BY <2>9 DEF End, TypeOK
  <2> QED
    BY <1>2, <2>1, <2>2, <2>3, <2>4, <2>5, <2>6, <2>7, <2>8, <2>9 DEF Step
<1> QED
  BY <1>1, <1>2 DEF Next

(***************************************************************************)
(* Every variable keeps its type, whatever the number of runs and files.   *)
(***************************************************************************)
THEOREM TypeCorrect == Spec => []TypeOK
<1>1. Init => TypeOK
  BY DEF Init, TypeOK
<1> QED
  BY <1>1, TypeStep, PTL DEF Spec

-----------------------------------------------------------------------------
LEMMA PresenceStep == PresenceInv /\ [Next]_vars => PresenceInv'
<1> SUFFICES ASSUME PresenceInv, [Next]_vars PROVE PresenceInv'
  OBVIOUS
<1>0. TypeOK /\ TypeOK'
  BY TypeStep DEF PresenceInv
<1> DEFINE Rest == /\ WalkedIsPresent
                   /\ \A q \in Procs : pc[q] = "hit" => complete
                   /\ complete => \A g \in Files : file[g] # Absent
<1>1. CASE UNCHANGED vars
  BY <1>0, <1>1 DEF PresenceInv, WalkedIsPresent, vars
<1>2. ASSUME NEW p \in Procs, Begin(p) \/ Step(p) \/ Kill(p) \/ End(p)
      PROVE  Rest'
  <2> USE <1>0 DEF TypeOK, PresenceInv, WalkedIsPresent
  <2>1. CASE Begin(p)
    BY <2>1 DEF Begin
  <2>2. CASE Check(p)
    BY <2>2 DEF Check
  <2>3. CASE BeginSeed(p)
    BY <2>3 DEF BeginSeed
  <2>4. ASSUME NEW f \in Files, OpenFile(p, f) PROVE Rest'
    BY <2>4 DEF OpenFile
  <2>5. CASE WriteFile(p)
    \* The file it closes is the only one it adds to those walked.
    <3>1. PICK t \in {source[p], Torn} : file' = [file EXCEPT ![open[p]] = t]
      BY <2>5 DEF WriteFile
    <3>2. t # Absent /\ open[p] \in Files
      BY <2>5, <3>1 DEF WriteFile
    <3> QED
      BY <2>5, <3>1, <3>2 DEF WriteFile
  <2>6. CASE WriteMarker(p)
    BY <2>6 DEF WriteMarker
  <2>7. CASE SeedFails(p)
    BY <2>7 DEF SeedFails
  <2>8. CASE Kill(p)
    BY <2>8 DEF Kill
  <2>9. CASE End(p)
    BY <2>9 DEF End
  <2> QED
    BY <1>2, <2>1, <2>2, <2>3, <2>4, <2>5, <2>6, <2>7, <2>8, <2>9 DEF Step
<1> QED
  BY <1>0, <1>1, <1>2 DEF Next, PresenceInv

(***************************************************************************)
(* Any number of concurrent runs, killed anywhere: a marked entry lacks no *)
(* file.                                                                   *)
(***************************************************************************)
THEOREM NeverMissing == Spec => []NothingMissing
<1>1. Init => PresenceInv
  BY DEF Init, PresenceInv, TypeOK, WalkedIsPresent
<1>2. PresenceInv => NothingMissing
  BY DEF PresenceInv, NothingMissing
<1> QED
  BY <1>1, <1>2, PresenceStep, PTL DEF Spec

-----------------------------------------------------------------------------
\* Whether runs may overlap does not change.
LEMMA ModeStep == [Next]_vars => overlap' = overlap
  BY DEF Next, Step, Begin, Check, BeginSeed, OpenFile, WriteFile, WriteMarker,
         SeedFails, Kill, End, vars

LEMMA SerialStep == SerialInv /\ [Next]_vars => SerialInv'
<1> SUFFICES ASSUME SerialInv, [Next]_vars PROVE SerialInv'
  OBVIOUS
<1>0. TypeOK /\ TypeOK' /\ overlap' = overlap
  BY TypeStep, ModeStep DEF SerialInv
<1> DEFINE NoMarker == \A q \in Procs : pc[q] \in {"install", "seed"} => ~complete
           OneTree == complete => \E t \in Texts : \A f \in Files : file[f] = t
           Rest == OneAtATime /\ NoMarker /\ WalkedIsOwn /\ OneTree
<1>1. CASE UNCHANGED vars
  BY <1>0, <1>1 DEF SerialInv, OneAtATime, WalkedIsOwn, MarkedIsOneTree, vars
<1>2. CASE overlap
  BY <1>0, <1>2 DEF SerialInv, MarkedIsOneTree
<1>3. ASSUME ~overlap,
             NEW p \in Procs, Begin(p) \/ Step(p) \/ Kill(p) \/ End(p)
      PROVE  Rest'
  <2> USE <1>0, <1>3 DEF TypeOK, SerialInv, OneAtATime, WalkedIsOwn,
                         MarkedIsOneTree
  <2>1. CASE Begin(p)
    BY <2>1 DEF Begin
  <2>2. CASE Check(p)
    BY <2>2 DEF Check
  <2>3. CASE BeginSeed(p)
    BY <2>3 DEF BeginSeed
  <2>4. ASSUME NEW f \in Files, OpenFile(p, f) PROVE Rest'
    <3>1. \A q \in Procs \ {p} : pc[q] = "idle"
      BY <2>4 DEF OpenFile
    <3>2. ~complete /\ ~complete'
      BY <2>4 DEF OpenFile
    <3> QED
      BY <2>4, <3>1, <3>2 DEF OpenFile
  <2>5. CASE WriteFile(p)
    \* Nobody else writes, so the file is still torn and takes its own text.
    <3>1. open[p] \in Files /\ file[open[p]] = Torn
      BY <2>5 DEF WriteFile
    <3>2. file' = [file EXCEPT ![open[p]] = source[p]]
      BY <2>5, <3>1 DEF WriteFile
    <3>3. \A q \in Procs \ {p} : pc[q] = "idle"
      BY <2>5 DEF WriteFile
    <3>4. ~complete /\ ~complete'
      BY <2>5 DEF WriteFile
    <3> QED
      BY <2>5, <3>1, <3>2, <3>3, <3>4 DEF WriteFile
  <2>6. CASE WriteMarker(p)
    <3>1. \A f \in Files : file[f] = source[p]
      BY <2>6 DEF WriteMarker
    <3>2. \A q \in Procs \ {p} : pc[q] = "idle"
      BY <2>6 DEF WriteMarker
    <3> QED
      BY <2>6, <3>1, <3>2 DEF WriteMarker
  <2>7. CASE SeedFails(p)
    BY <2>7 DEF SeedFails
  <2>8. CASE Kill(p)
    BY <2>8 DEF Kill
  <2>9. CASE End(p)
    BY <2>9 DEF End
  <2> QED
    BY <1>3, <2>1, <2>2, <2>3, <2>4, <2>5, <2>6, <2>7, <2>8, <2>9 DEF Step
<1> QED
  BY <1>0, <1>1, <1>2, <1>3 DEF Next, SerialInv, MarkedIsOneTree

LEMMA SerialInit == Init => SerialInv
  BY DEF Init, SerialInv, TypeOK, OneAtATime, WalkedIsOwn, MarkedIsOneTree

(***************************************************************************)
(* Where runs do not overlap, what is marked is the whole tree of one run. *)
(***************************************************************************)
THEOREM OneTreePerMarker == Spec => []MarkedIsOneTree
<1>1. SerialInv => MarkedIsOneTree
  BY DEF SerialInv
<1> QED
  BY <1>1, SerialStep, SerialInit, PTL DEF Spec

(***************************************************************************)
(* Where runs do not overlap, the entry is published once, as a whole: the *)
(* store implements WriteOnce.                                             *)
(***************************************************************************)
THEOREM Publishes == Spec => PublishedOnce
<1> DEFINE tree == IF complete /\ ~overlap THEN file ELSE Absent
<1>1. Init => Publication!Init
  BY DEF Init, Publication!Init
<1>2. ASSUME SerialInv, [Next]_vars
      PROVE  [Publication!Publish]_tree
  <2>0. overlap' = overlap
    BY <1>2, ModeStep
  <2> USE <1>2, <2>0 DEF SerialInv, TypeOK, OneAtATime, WalkedIsOwn
  <2>1. CASE UNCHANGED vars \/ overlap
    BY <2>1 DEF vars
  <2>2. ASSUME ~overlap,
               NEW p \in Procs, Begin(p) \/ Step(p) \/ Kill(p) \/ End(p)
        PROVE  [Publication!Publish]_tree
    <3>1. CASE UNCHANGED entry
      BY <3>1
    <3>2. CASE (\E f \in Files : OpenFile(p, f)) \/ WriteFile(p)
      \* The walk finds no marker.
      BY <2>2, <3>2 DEF OpenFile, WriteFile
    <3>3. CASE WriteMarker(p)
      <4>1. tree = Absent /\ tree' = file
        BY <2>2, <3>3 DEF WriteMarker
      <4>2. \A f \in Files : file[f] \in Texts
        BY <2>2, <3>3 DEF WriteMarker
      <4>3. file \in [Files -> Texts]
        BY <4>2
      <4> QED
        BY <4>1, <4>3 DEF Publication!Publish
    <3>4. Begin(p) \/ Check(p) \/ BeginSeed(p) \/ SeedFails(p) \/ Kill(p)
            \/ End(p) => UNCHANGED entry
      BY DEF Begin, Check, BeginSeed, SeedFails, Kill, End
    <3> QED
      BY <2>2, <3>1, <3>2, <3>3, <3>4 DEF Step
  <2> QED
    BY <2>1, <2>2 DEF Next
<1> QED
  BY <1>1, <1>2, SerialStep, SerialInit, PTL
  DEF Spec, PublishedOnce, Publication!Spec
=============================================================================

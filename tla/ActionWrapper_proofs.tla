------------------------ MODULE ActionWrapper_proofs ------------------------
(***************************************************************************)
(* Proofs about ActionWrapper for every set of machines, versions and refs *)
(* and whatever else the project releases.                                 *)
(***************************************************************************)
EXTENDS ActionWrapper, TLAPS

USE MajorOfAssumption, RefsAssumption, FileAssumption DEF github, disk, Goto

\* A finished file has a type because its job has resolved a release.
LEMMA TypeStep == WrapperInv /\ [Next]_vars => TypeOK'
<1> SUFFICES ASSUME WrapperInv, [Next]_vars PROVE TypeOK'
  OBVIOUS
<1> USE DEF WrapperInv, TypeOK
<1>1. CASE UNCHANGED vars
  BY <1>1 DEF vars
<1>2. ASSUME NEW t \in Tags, CreateRelease(t) \/ UploadBinaries(t)
      PROVE  TypeOK'
  BY <1>2 DEF CreateRelease, UploadBinaries
<1>3. ASSUME NEW m \in Machines, Run(m) \/ Stop(m) PROVE TypeOK'
  <2>1. CASE Begin(m)
    BY <2>1 DEF Begin, Refs
  <2>2. CASE LookUpByTag(m)
    BY <2>2 DEF LookUpByTag
  <2>3. CASE LookUpLatest(m)
    BY <2>3 DEF LookUpLatest
  <2>4. CASE Fetch(m)
    BY <2>4 DEF Fetch
  <2>5. CASE OpenFile(m)
    BY <2>5 DEF OpenFile
  <2>6. CASE FinishFile(m)
    <3>1. tag[m] \in Tags
      BY <2>6 DEF FinishFile, JobInv, FollowsRef
    <3> QED
      BY <2>6, <3>1 DEF FinishFile
  <2>7. CASE MakeExecutable(m)
    BY <2>7 DEF MakeExecutable
  <2>8. CASE Execute(m)
    BY <2>8 DEF Execute
  <2>9. CASE RequestFails(m)
    BY <2>9 DEF RequestFails
  <2>10. CASE DownloadFails(m)
    BY <2>10 DEF DownloadFails
  <2>11. CASE OpenLate(m)
    BY <2>11 DEF OpenLate
  <2>12. CASE Stop(m)
    BY <2>12 DEF Stop
  <2> QED
    BY <1>3, <2>1, <2>2, <2>3, <2>4, <2>5, <2>6, <2>7, <2>8, <2>9, <2>10, <2>11, <2>12 DEF Run
<1> QED
  BY <1>1, <1>2, <1>3 DEF Next

-----------------------------------------------------------------------------
(***************************************************************************)
(* A step that touches nothing of a machine keeps its invariant: a release *)
(* that has its binaries keeps them.                                       *)
(***************************************************************************)
LEMMA Frame ==
  ASSUME TypeOK, NEW n \in Machines, DiskInv(n), JobInv(n),
         \A t \in Tags : release[t] = "built" => release'[t] = "built",
         UNCHANGED <<pc[n], ref[n], tag[n], file[n], executable[n], ran[n]>>
  PROVE  DiskInv(n)' /\ JobInv(n)'
  BY DEF TypeOK, DiskInv, JobInv, FollowsRef

\* The steps of other machines, and those of the project.
LEMMA OthersKeep ==
  ASSUME WrapperInv, NEW n \in Machines,
         \/ UNCHANGED vars
         \/ \E t \in Tags : CreateRelease(t) \/ UploadBinaries(t)
         \/ \E m \in Machines \ {n} : Run(m) \/ Stop(m)
  PROVE  DiskInv(n)' /\ JobInv(n)'
<1> USE DEF WrapperInv
<1>1. CASE UNCHANGED vars
  BY <1>1, Frame DEF vars
<1>2. ASSUME NEW t \in Tags, CreateRelease(t) \/ UploadBinaries(t)
      PROVE  DiskInv(n)' /\ JobInv(n)'
  <2>1. \A u \in Tags : release[u] = "built" => release'[u] = "built"
    BY <1>2 DEF CreateRelease, UploadBinaries, TypeOK
  <2> QED
    BY <1>2, <2>1, Frame DEF CreateRelease, UploadBinaries
<1>3. ASSUME NEW m \in Machines \ {n}, Run(m) \/ Stop(m)
      PROVE  DiskInv(n)' /\ JobInv(n)'
  <2> DEFINE Untouched == /\ UNCHANGED release
                          /\ UNCHANGED <<pc[n], ref[n], tag[n], file[n],
                                         executable[n], ran[n]>>
  <2>0. Untouched
    <3> USE DEF TypeOK
    <3>1. CASE Begin(m)
      BY <3>1 DEF Begin
    <3>2. CASE LookUpByTag(m)
      BY <3>2 DEF LookUpByTag
    <3>3. CASE LookUpLatest(m)
      BY <3>3 DEF LookUpLatest
    <3>4. CASE Fetch(m)
      BY <3>4 DEF Fetch
    <3>5. CASE OpenFile(m)
      BY <3>5 DEF OpenFile
    <3>6. CASE FinishFile(m)
      BY <3>6 DEF FinishFile
    <3>7. CASE MakeExecutable(m)
      BY <3>7 DEF MakeExecutable
    <3>8. CASE Execute(m)
      BY <3>8 DEF Execute
    <3>9. CASE RequestFails(m)
      BY <3>9 DEF RequestFails
    <3>10. CASE DownloadFails(m)
      BY <3>10 DEF DownloadFails
    <3>11. CASE OpenLate(m)
      BY <3>11 DEF OpenLate
    <3>12. CASE Stop(m)
      BY <3>12 DEF Stop
    <3> QED
      BY <1>3, <3>1, <3>2, <3>3, <3>4, <3>5, <3>6, <3>7, <3>8, <3>9, <3>10, <3>11, <3>12 DEF Run
  <2> QED
    BY <2>0, Frame
<1> QED
  BY <1>1, <1>2, <1>3

\* A machine's own steps.
LEMMA OwnStep ==
  ASSUME WrapperInv, NEW m \in Machines, Run(m) \/ Stop(m)
  PROVE  DiskInv(m)' /\ JobInv(m)'
<1> USE DEF WrapperInv, TypeOK, DiskInv, JobInv, FollowsRef
<1>1. CASE Begin(m)
  BY <1>1 DEF Begin, Refs
<1>2. CASE LookUpByTag(m)
  BY <1>2 DEF LookUpByTag
<1>3. CASE LookUpLatest(m)
  BY <1>3 DEF LookUpLatest
<1>4. CASE Fetch(m)
  BY <1>4 DEF Fetch
<1>5. CASE OpenFile(m)
  BY <1>5 DEF OpenFile
<1>6. CASE FinishFile(m)
  BY <1>6 DEF FinishFile
<1>7. CASE MakeExecutable(m)
  BY <1>7 DEF MakeExecutable
<1>8. CASE Execute(m)
  BY <1>8 DEF Execute
<1>9. CASE RequestFails(m)
  BY <1>9 DEF RequestFails
<1>10. CASE DownloadFails(m)
  BY <1>10 DEF DownloadFails
<1>11. CASE OpenLate(m)
  BY <1>11 DEF OpenLate
<1>12. CASE Stop(m)
  BY <1>12 DEF Stop
<1> QED
  BY <1>1, <1>2, <1>3, <1>4, <1>5, <1>6, <1>7, <1>8, <1>9, <1>10, <1>11, <1>12 DEF Run

LEMMA WrapperInvariant == Spec => []WrapperInv
<1>1. Init => WrapperInv
  BY DEF Init, WrapperInv, TypeOK, DiskInv, JobInv, FollowsRef
<1>2. WrapperInv /\ [Next]_vars => WrapperInv'
  <2> SUFFICES ASSUME WrapperInv, [Next]_vars PROVE WrapperInv'
    OBVIOUS
  <2>1. TypeOK'
    BY TypeStep
  <2>2. ASSUME NEW n \in Machines PROVE DiskInv(n)' /\ JobInv(n)'
    <3>1. CASE Run(n) \/ Stop(n)
      BY <3>1, OwnStep
    <3>2. CASE ~(Run(n) \/ Stop(n))
      BY <3>2, OthersKeep DEF Next
    <3> QED
      BY <3>1, <3>2
  <2> QED
    BY <2>1, <2>2 DEF WrapperInv
<1> QED
  BY <1>1, <1>2, PTL DEF Spec

(***************************************************************************)
(* Every variable keeps its type.                                          *)
(***************************************************************************)
THEOREM TypeCorrect == Spec => []TypeOK
<1>1. WrapperInv => TypeOK
  BY DEF WrapperInv
<1> QED
  BY <1>1, WrapperInvariant, PTL

(***************************************************************************)
(* Kills and failures leave what they leave: what is executed is whole.    *)
(***************************************************************************)
THEOREM ExecutesWhole == Spec => []RunsWholeBinary
<1>1. WrapperInv => RunsWholeBinary
  BY DEF WrapperInv, JobInv, RunsWholeBinary
<1> QED
  BY <1>1, WrapperInvariant, PTL

(***************************************************************************)
(* A job that downloads runs what its ref stands for, whatever is released *)
(* meanwhile.                                                              *)
(***************************************************************************)
THEOREM DownloadsFollowRef == Spec => []OwnDownloadFollowsRef
<1>1. WrapperInv => OwnDownloadFollowsRef
  BY DEF WrapperInv, TypeOK, JobInv, FollowsRef, OwnDownloadFollowsRef
<1> QED
  BY <1>1, WrapperInvariant, PTL

(***************************************************************************)
(* The first executable binary of a machine is its last.                   *)
(***************************************************************************)
THEOREM BinaryIsFinal == Spec => FirstBinaryStays
<1>1. WrapperInv /\ [Next]_vars =>
        [\A m \in Machines :
           executable[m] => UNCHANGED <<file[m], executable[m]>>]_vars
  <2> SUFFICES ASSUME WrapperInv, Next, NEW n \in Machines, executable[n]
               PROVE  UNCHANGED <<file[n], executable[n]>>
    OBVIOUS
  <2> USE DEF WrapperInv, TypeOK, DiskInv
  <2>1. ASSUME NEW t \in Tags, CreateRelease(t) \/ UploadBinaries(t)
        PROVE  UNCHANGED <<file[n], executable[n]>>
    BY <2>1 DEF CreateRelease, UploadBinaries
  <2>2. ASSUME NEW m \in Machines, Run(m) \/ Stop(m)
        PROVE  UNCHANGED <<file[n], executable[n]>>
    <3>1. CASE Begin(m)
      BY <3>1 DEF Begin
    <3>2. CASE LookUpByTag(m)
      BY <3>2 DEF LookUpByTag
    <3>3. CASE LookUpLatest(m)
      BY <3>3 DEF LookUpLatest
    <3>4. CASE Fetch(m)
      BY <3>4 DEF Fetch
    <3>5. CASE OpenFile(m)
      BY <3>5 DEF OpenFile
    <3>6. CASE FinishFile(m)
      BY <3>6 DEF FinishFile
    <3>7. CASE MakeExecutable(m)
      BY <3>7 DEF MakeExecutable
    <3>8. CASE Execute(m)
      BY <3>8 DEF Execute
    <3>9. CASE RequestFails(m)
      BY <3>9 DEF RequestFails
    <3>10. CASE DownloadFails(m)
      BY <3>10 DEF DownloadFails
    <3>11. CASE OpenLate(m)
      BY <3>11 DEF OpenLate
    <3>12. CASE Stop(m)
      BY <3>12 DEF Stop
    <3> QED
      BY <2>2, <3>1, <3>2, <3>3, <3>4, <3>5, <3>6, <3>7, <3>8, <3>9, <3>10, <3>11, <3>12 DEF Run
  <2> QED
    BY <2>1, <2>2 DEF Next
<1> QED
  BY <1>1, WrapperInvariant, PTL DEF Spec, FirstBinaryStays
=============================================================================

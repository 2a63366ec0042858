--------------------------- MODULE ActionWrapper ---------------------------
(***************************************************************************)
(* The JavaScript wrapper (src/src/index.js) on machines that each keep    *)
(* one phpup binary in their tool cache, while the project goes on         *)
(* publishing releases.  A job that finds a file in the binary's place     *)
(* runs it; any other resolves the action's ref to a release, with one or  *)
(* two requests, downloads its binary and makes it executable.             *)
(*                                                                         *)
(* A machine runs one job at a time; jobs of different machines and the    *)
(* release workflow interleave.  A job may be killed at any step and every *)
(* request may fail.  Redirects and platforms are abstracted.              *)
(***************************************************************************)
CONSTANTS
  Machines,
  Tags,       \* versions, v1.2.3: the refs with a release of the same name
  Majors,     \* floating refs, v1
  Shas,       \* commits; branches and an unknown ref are looked up like them
  MajorOf,    \* MajorOf[t]: the major of version t
  NoTag,      \* no release
  Absent,     \* no such file
  Torn        \* an empty or half-written file

ASSUME MajorOfAssumption == MajorOf \in [Tags -> Majors]
ASSUME RefsAssumption ==
  /\ Tags \cap Majors = {} /\ Tags \cap Shas = {} /\ Majors \cap Shas = {}
  /\ NoTag \notin Tags
ASSUME FileAssumption == Absent \notin Tags /\ Torn \notin Tags /\ Absent # Torn

VARIABLES
  release,    \* release[t]: not created, created, or with its binaries
  latest,     \* the release GitHub calls latest
  pc,         \* pc[m]: the phase of the job of machine m
  ref,        \* ref[m]: GITHUB_ACTION_REF of the job
  tag,        \* tag[m]: the release the job itself has resolved
  file,       \* file[m]: what is in the binary's place
  executable, \* executable[m]: its permission
  ran         \* ran[m]: what the job executes

vars == <<release, latest, pc, ref, tag, file, executable, ran>>
github == <<release, latest>>
disk == <<file, executable>>

Refs == Tags \cup Majors \cup Shas

Init ==
  /\ release = [t \in Tags |-> "none"]
  /\ latest = NoTag
  /\ pc = [m \in Machines |-> "idle"]
  /\ ref \in [Machines -> Refs]
  /\ tag = [m \in Machines |-> NoTag]
  /\ file = [m \in Machines |-> Absent]
  /\ executable = [m \in Machines |-> FALSE]
  /\ ran = [m \in Machines |-> NoTag]

-----------------------------------------------------------------------------
\* release-please.yml: the release first, its binaries when they are built.
CreateRelease(t) ==
  /\ release[t] = "none"
  /\ release' = [release EXCEPT ![t] = "created"]
  /\ latest' \in {latest, t}
  /\ UNCHANGED <<pc, ref, tag, disk, ran>>

UploadBinaries(t) ==
  /\ release[t] = "created"
  /\ release' = [release EXCEPT ![t] = "built"]
  /\ UNCHANGED <<latest, pc, ref, tag, disk, ran>>

-----------------------------------------------------------------------------
Goto(m, phase) == pc' = [pc EXCEPT ![m] = phase]

\* Mutant: a binary that is there is not reused.
BeginAlwaysDownloading(m) ==
  /\ pc[m] = "idle"
  /\ \E r \in Refs :
       /\ ref' = [ref EXCEPT ![m] = r]
       /\ Goto(m, IF r \in Majors THEN "latest" ELSE "bytag")
  /\ tag' = [tag EXCEPT ![m] = NoTag]
  /\ ran' = [ran EXCEPT ![m] = NoTag]
  /\ UNCHANGED <<github, disk>>

\* existsSync decides; the file's content, version and mode do not.
Begin(m) ==
  /\ pc[m] = "idle"
  /\ \E r \in Refs :
       /\ ref' = [ref EXCEPT ![m] = r]
       /\ Goto(m, IF file[m] # Absent THEN "exec"
                  ELSE IF r \in Majors THEN "latest" ELSE "bytag")
  /\ tag' = [tag EXCEPT ![m] = NoTag]
  /\ ran' = [ran EXCEPT ![m] = NoTag]
  /\ UNCHANGED <<github, disk>>

\* Mutant: a pinned version without a release takes the latest, too.
LookUpByTagElseLatest(m) ==
  /\ pc[m] = "bytag"
  /\ IF ref[m] \in Tags /\ release[ref[m]] # "none"
     THEN tag' = [tag EXCEPT ![m] = ref[m]] /\ Goto(m, "fetch")
     ELSE UNCHANGED tag /\ Goto(m, "latest")
  /\ UNCHANGED <<github, ref, disk, ran>>

\* releases/tags/<ref>: on 404 a version is an error, another ref goes on.
LookUpByTag(m) ==
  /\ pc[m] = "bytag"
  /\ IF ref[m] \in Tags /\ release[ref[m]] # "none"
     THEN tag' = [tag EXCEPT ![m] = ref[m]] /\ Goto(m, "fetch")
     ELSE UNCHANGED tag /\ Goto(m, IF ref[m] \in Tags THEN "idle" ELSE "latest")
  /\ UNCHANGED <<github, ref, disk, ran>>

\* Mutant: the latest release is not looked at for a floating major.
LookUpLatestUnlessMajor(m) ==
  /\ pc[m] = "latest"
  /\ tag' = [tag EXCEPT ![m] = IF ref[m] \in Majors THEN ref[m] ELSE latest]
  /\ Goto(m, IF latest = NoTag THEN "idle" ELSE "fetch")
  /\ UNCHANGED <<github, ref, disk, ran>>

\* releases/latest: a floating major takes it only if it is of that major.
LookUpLatest(m) ==
  /\ pc[m] = "latest"
  /\ IF latest # NoTag /\ (ref[m] \in Majors => MajorOf[latest] = ref[m])
     THEN tag' = [tag EXCEPT ![m] = latest] /\ Goto(m, "fetch")
     ELSE UNCHANGED tag /\ Goto(m, "idle")
  /\ UNCHANGED <<github, ref, disk, ran>>

\* The response to the download has arrived: the stream is created, which
\* opens the file in the background.
Fetch(m) ==
  /\ pc[m] = "fetch"
  /\ Goto(m, IF release[tag[m]] = "built" THEN "opening" ELSE "idle")
  /\ UNCHANGED <<github, ref, tag, disk, ran>>

\* Mutant: the file is created with the permission it is to have.
OpenFileExecutable(m) ==
  /\ pc[m] = "opening"
  /\ Goto(m, "writing")
  /\ file' = [file EXCEPT ![m] = Torn]
  /\ executable' = [executable EXCEPT ![m] = TRUE]
  /\ UNCHANGED <<github, ref, tag, ran>>

OpenFile(m) ==
  /\ pc[m] = "opening"
  /\ Goto(m, "writing")
  /\ file' = [file EXCEPT ![m] = Torn]
  /\ UNCHANGED <<github, ref, tag, executable, ran>>

FinishFile(m) ==
  /\ pc[m] = "writing"
  /\ Goto(m, "chmod")
  /\ file' = [file EXCEPT ![m] = tag[m]]
  /\ UNCHANGED <<github, ref, tag, executable, ran>>

MakeExecutable(m) ==
  /\ pc[m] = "chmod"
  /\ Goto(m, "exec")
  /\ executable' = [executable EXCEPT ![m] = TRUE]
  /\ UNCHANGED <<github, ref, tag, file, ran>>

Execute(m) ==
  /\ pc[m] = "exec"
  /\ IF executable[m]
     THEN Goto(m, "running") /\ ran' = [ran EXCEPT ![m] = file[m]]
     ELSE Goto(m, "idle") /\ UNCHANGED ran
  /\ UNCHANGED <<github, ref, tag, disk>>

\* An error of a request before there is a stream.
RequestFails(m) ==
  /\ pc[m] \in {"bytag", "latest", "fetch"}
  /\ Goto(m, "idle")
  /\ UNCHANGED <<github, ref, tag, disk, ran>>

\* An error of the response or the stream removes the file.  Nothing waits
\* for an open that is still in the background: it creates the file later.
DownloadFails(m) ==
  /\ \/ pc[m] = "opening" /\ Goto(m, "late")
     \/ pc[m] = "writing" /\ Goto(m, "idle")
  /\ file' = [file EXCEPT ![m] = Absent]
  /\ executable' = [executable EXCEPT ![m] = FALSE]
  /\ UNCHANGED <<github, ref, tag, ran>>

OpenLate(m) ==
  /\ pc[m] = "late"
  /\ Goto(m, "idle")
  /\ file' = [file EXCEPT ![m] = Torn]
  /\ UNCHANGED <<github, ref, tag, executable, ran>>

\* The job is killed, or phpup has ended.
Stop(m) ==
  /\ pc[m] # "idle"
  /\ Goto(m, "idle")
  /\ UNCHANGED <<github, ref, tag, disk, ran>>

Run(m) ==
  \/ Begin(m) \/ LookUpByTag(m) \/ LookUpLatest(m)
  \/ Fetch(m) \/ OpenFile(m) \/ FinishFile(m)
  \/ MakeExecutable(m) \/ Execute(m)
  \/ RequestFails(m) \/ DownloadFails(m) \/ OpenLate(m)

Next ==
  \/ \E t \in Tags : CreateRelease(t) \/ UploadBinaries(t)
  \/ \E m \in Machines : Run(m) \/ Stop(m)

Spec == Init /\ [][Next]_vars

-----------------------------------------------------------------------------
TypeOK ==
  /\ release \in [Tags -> {"none", "created", "built"}]
  /\ latest \in Tags \cup {NoTag}
  /\ pc \in [Machines -> {"idle", "bytag", "latest", "fetch", "opening", "late",
                          "writing", "chmod", "exec", "running"}]
  /\ ref \in [Machines -> Refs]
  /\ tag \in [Machines -> Tags \cup {NoTag}]
  /\ file \in [Machines -> Tags \cup {Absent, Torn}]
  /\ executable \in [Machines -> BOOLEAN]
  /\ ran \in [Machines -> Tags \cup {Absent, Torn, NoTag}]

(***************************************************************************)
(* What a job executes is the whole binary of a release that has one,      *)
(* although a killed download, and one that failed while its file was      *)
(* being opened, leave a file for later jobs to find: the permission is    *)
(* given last (index.js 176-177), and so is the mark of a whole file.      *)
(***************************************************************************)
RunsWholeBinary ==
  \A m \in Machines :
    pc[m] = "running" => ran[m] \in Tags /\ release[ran[m]] = "built"

(***************************************************************************)
(* A job that did its own download executes what its ref stands for: a     *)
(* version itself, a floating major a version of that major, whatever is   *)
(* released between its two requests, the download and the execution.      *)
(***************************************************************************)
OwnDownloadFollowsRef ==
  \A m \in Machines :
    pc[m] = "running" /\ tag[m] # NoTag =>
      /\ ref[m] \in Tags => ran[m] = ref[m]
      /\ ref[m] \in Majors => MajorOf[ran[m]] = ref[m]

(***************************************************************************)
(* A machine's executable binary is written once and never changes: the    *)
(* job that is first to make one decides for all later ones.               *)
(***************************************************************************)
FirstBinaryStays ==
  [][\A m \in Machines :
       executable[m] => UNCHANGED <<file[m], executable[m]>>]_vars

-----------------------------------------------------------------------------
(***************************************************************************)
(* The inductive invariant, machine by machine.  What is executable is the *)
(* whole binary of a release; nothing is in its place while the job is on  *)
(* its way to a download.                                                  *)
(***************************************************************************)
DiskInv(m) ==
  /\ executable[m] => file[m] \in Tags /\ release[file[m]] = "built"
  /\ pc[m] \in {"bytag", "latest", "fetch", "opening", "late"} => file[m] = Absent
  /\ pc[m] \in {"writing", "chmod"} => ~executable[m]

(***************************************************************************)
(* The release a job has resolved is one its ref stands for, and the file  *)
(* it has finished is that release's.                                      *)
(***************************************************************************)
FollowsRef(m) ==
  /\ tag[m] \in Tags
  /\ ref[m] \in Tags => tag[m] = ref[m]
  /\ ref[m] \in Majors => MajorOf[tag[m]] = ref[m]

JobInv(m) ==
  /\ pc[m] \in {"bytag", "latest"} => tag[m] = NoTag
  /\ pc[m] = "bytag" => ref[m] \notin Majors
  /\ pc[m] = "latest" => ref[m] \notin Tags
  /\ pc[m] \in {"fetch", "opening", "writing", "chmod"} => FollowsRef(m)
  /\ pc[m] \in {"opening", "writing", "chmod"} => release[tag[m]] = "built"
  /\ pc[m] \in {"chmod", "exec"} /\ tag[m] # NoTag => FollowsRef(m) /\ file[m] = tag[m]
  /\ pc[m] = "running" => ran[m] \in Tags /\ release[ran[m]] = "built"
  /\ pc[m] = "running" /\ tag[m] # NoTag => FollowsRef(m) /\ ran[m] = tag[m]

WrapperInv == TypeOK /\ \A m \in Machines : DiskInv(m) /\ JobInv(m)
=============================================================================

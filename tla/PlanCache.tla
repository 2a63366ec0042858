----------------------------- MODULE PlanCache -----------------------------
(***************************************************************************)
(* One entry of the tool cache (internal/cache) and the runs that use it:  *)
(* Check looks for the marker, Seed copies a tree into the entry file by   *)
(* file and writes the marker last.  Nothing locks the entry.  A run may   *)
(* be killed between any two system calls; Seed may fail at any of them,   *)
(* which its caller only reports (main.go 442-445).                        *)
(*                                                                         *)
(* Every run of a machine installs a tree of the same files; the tree of   *)
(* another action version holds other texts in them.                       *)
(***************************************************************************)
CONSTANTS
  Procs,      \* the runs that may be under way at the same time
  Files,      \* the regular files of an installed tree
  Texts,      \* versions of a tree: the text they give to each file
  Absent,     \* no such file
  Torn,       \* an empty or half-written file, or parts of two texts
  Nobody      \* no file is open

ASSUME AbsentAssumption == Absent \notin Texts /\ Absent # Torn
ASSUME TornAssumption   == Torn \notin Texts
ASSUME NobodyAssumption == Nobody \notin Files

VARIABLES
  pc,         \* pc[p]: the phase of run p
  source,     \* source[p]: the version of the tree it installs
  todo,       \* todo[p]: files its walk has not finished
  open,       \* open[p]: the file it has truncated and not yet written
  file,       \* file[f]: what the entry holds
  complete,   \* the marker exists
  overlap     \* may a run start while another is under way?  It stays so.

vars == <<pc, source, todo, open, file, complete, overlap>>
entry == <<file, complete>>
run   == <<source, overlap>>

Init ==
  /\ pc = [p \in Procs |-> "idle"]
  /\ source \in [Procs -> Texts]
  /\ todo = [p \in Procs |-> {}]
  /\ open = [p \in Procs |-> Nobody]
  /\ file = [f \in Files |-> Absent]
  /\ complete = FALSE
  /\ overlap \in BOOLEAN

Begin(p) ==
  /\ pc[p] = "idle"
  /\ ~overlap => \A q \in Procs : pc[q] = "idle"
  /\ pc' = [pc EXCEPT ![p] = "check"]
  /\ \E t \in Texts : source' = [source EXCEPT ![p] = t]
  /\ UNCHANGED <<todo, open, entry, overlap>>

\* Mutant: the directory is looked for instead of the marker in it.
CheckDirectory(p) ==
  /\ pc[p] = "check"
  /\ pc' = [pc EXCEPT ![p] = IF \E f \in Files : file[f] # Absent
                             THEN "hit" ELSE "install"]
  /\ UNCHANGED <<run, todo, open, entry>>

\* Mutant: nothing is looked at.
CheckNever(p) ==
  /\ pc[p] = "check"
  /\ pc' = [pc EXCEPT ![p] = "install"]
  /\ UNCHANGED <<run, todo, open, entry>>

Check(p) ==
  /\ pc[p] = "check"
  /\ pc' = [pc EXCEPT ![p] = IF complete THEN "hit" ELSE "install"]
  /\ UNCHANGED <<run, todo, open, entry>>

\* The installation, of which the store sees nothing, and the walk's start.
BeginSeed(p) ==
  /\ pc[p] = "install"
  /\ pc' = [pc EXCEPT ![p] = "seed"]
  /\ todo' = [todo EXCEPT ![p] = Files]
  /\ UNCHANGED <<run, open, entry>>

\* os.WriteFile opens with O_TRUNC ...
OpenFile(p, f) ==
  /\ pc[p] = "seed"
  /\ open[p] = Nobody
  /\ f \in todo[p]
  /\ open' = [open EXCEPT ![p] = f]
  /\ file' = [file EXCEPT ![f] = Torn]
  /\ UNCHANGED <<pc, run, todo, complete>>

\* Mutant: the text is appended to what is there.
WriteFileAppending(p) ==
  /\ pc[p] = "seed"
  /\ open[p] # Nobody
  /\ file' = [file EXCEPT ![open[p]] = IF @ = Torn THEN source[p]
                                      ELSE <<@, source[p]>>]
  /\ todo' = [todo EXCEPT ![p] = @ \ {open[p]}]
  /\ open' = [open EXCEPT ![p] = Nobody]
  /\ UNCHANGED <<pc, run, complete>>

\* ... and writes from offset 0.  If another run has written another text
\* since, what is longer of that text remains behind this one.
WriteFile(p) ==
  /\ pc[p] = "seed"
  /\ open[p] # Nobody
  /\ \E t \in {source[p], Torn} :
       /\ t = Torn => file[open[p]] \notin {Torn, source[p]}
       /\ file' = [file EXCEPT ![open[p]] = t]
  /\ todo' = [todo EXCEPT ![p] = @ \ {open[p]}]
  /\ open' = [open EXCEPT ![p] = Nobody]
  /\ UNCHANGED <<pc, run, complete>>

\* Mutant: the marker does not wait for the walk.
WriteMarkerFirst(p) ==
  /\ pc[p] = "seed"
  /\ open[p] = Nobody
  /\ complete' = TRUE
  /\ pc' = [pc EXCEPT ![p] = IF todo[p] = {} THEN "done" ELSE @]
  /\ UNCHANGED <<run, todo, open, file>>

WriteMarker(p) ==
  /\ pc[p] = "seed"
  /\ open[p] = Nobody
  /\ todo[p] = {}
  /\ complete' = TRUE
  /\ pc' = [pc EXCEPT ![p] = "done"]
  /\ UNCHANGED <<run, todo, open, file>>

\* An error ends the walk: no marker, a warning.  The open file is closed.
SeedFails(p) ==
  /\ pc[p] = "seed"
  /\ pc' = [pc EXCEPT ![p] = "done"]
  /\ todo' = [todo EXCEPT ![p] = {}]
  /\ open' = [open EXCEPT ![p] = Nobody]
  /\ UNCHANGED <<run, entry>>

Kill(p) ==
  /\ pc[p] \in {"check", "install", "seed"}
  /\ pc' = [pc EXCEPT ![p] = "idle"]
  /\ todo' = [todo EXCEPT ![p] = {}]
  /\ open' = [open EXCEPT ![p] = Nobody]
  /\ UNCHANGED <<run, entry>>

\* The job that used the environment ends.
End(p) ==
  /\ pc[p] \in {"hit", "done"}
  /\ pc' = [pc EXCEPT ![p] = "idle"]
  /\ UNCHANGED <<run, todo, open, entry>>

Step(p) ==
  \/ Check(p) \/ BeginSeed(p)
  \/ \E f \in Files : OpenFile(p, f)
  \/ WriteFile(p) \/ WriteMarker(p) \/ SeedFails(p)

Next == \E p \in Procs : Begin(p) \/ Step(p) \/ Kill(p) \/ End(p)

Spec == Init /\ [][Next]_vars

-----------------------------------------------------------------------------
TypeOK ==
  /\ pc \in [Procs -> {"idle", "check", "install", "seed", "hit", "done"}]
  /\ source \in [Procs -> Texts]
  /\ todo \in [Procs -> SUBSET Files]
  /\ open \in [Procs -> Files \cup {Nobody}]
  /\ file \in [Files -> Texts \cup {Absent, Torn}]
  /\ complete \in BOOLEAN
  /\ overlap \in BOOLEAN

(***************************************************************************)
(* However many runs seed the entry at once, and wherever they are killed: *)
(* no file of a marked entry is missing, and no user of the entry sees one *)
(* disappear (cache.go 55-85: the marker is written after a walk over all  *)
(* files, and nothing removes one).                                        *)
(***************************************************************************)
NothingMissing ==
  complete \/ (\E p \in Procs : pc[p] = "hit") =>
    \A f \in Files : file[f] # Absent

(***************************************************************************)
(* Runs that do not overlap: a marked entry is one whole tree, the tree of *)
(* a single run, although runs were killed in the middle of a copy and     *)
(* other versions copied over their remains.                               *)
(***************************************************************************)
MarkedIsOneTree ==
  complete /\ ~overlap => \E t \in Texts : \A f \in Files : file[f] = t

(***************************************************************************)
(* Without overlap the entry is published once, as a whole (WriteOnce).    *)
(***************************************************************************)
Publication ==
  INSTANCE WriteOnce WITH
    Trees     <- [Files -> Texts],
    Nothing   <- Absent,
    published <- IF complete /\ ~overlap THEN file ELSE Absent

PublishedOnce == Publication!Spec

-----------------------------------------------------------------------------
(***************************************************************************)
(* Inductive invariants.  For NothingMissing: a walk leaves no file absent *)
(* behind it, and a hit implies the marker.                                *)
(***************************************************************************)
WalkedIsPresent ==
  \A p \in Procs : pc[p] = "seed" =>
    \A f \in Files \ todo[p] : file[f] # Absent

PresenceInv ==
  /\ TypeOK
  /\ WalkedIsPresent
  /\ \A p \in Procs : pc[p] = "hit" => complete
  /\ complete => \A f \in Files : file[f] # Absent

(***************************************************************************)
(* For MarkedIsOneTree: one run at a time, which found no marker if it     *)
(* installs; behind its walk all texts are its own, and the file it has    *)
(* open is still as truncated.                                             *)
(***************************************************************************)
OneAtATime ==
  \A p, q \in Procs : pc[p] # "idle" /\ pc[q] # "idle" => p = q

WalkedIsOwn ==
  \A p \in Procs :
    /\ pc[p] = "seed" => \A f \in Files \ todo[p] : file[f] = source[p]
    /\ open[p] # Nobody =>
         pc[p] = "seed" /\ open[p] \in todo[p] /\ file[open[p]] = Torn

SerialInv ==
  /\ TypeOK
  /\ ~overlap =>
       /\ OneAtATime
       /\ \A p \in Procs : pc[p] \in {"install", "seed"} => ~complete
       /\ WalkedIsOwn
  /\ MarkedIsOneTree
=============================================================================

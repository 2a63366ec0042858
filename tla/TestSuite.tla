----------------------------- MODULE TestSuite -----------------------------
(***************************************************************************)
(* `phpup test` (testsuite/runner.go) and `phpup internal test-cell`       *)
(* (testsuite/testcell.go): every cell of OS x ARCH x PHP is a container   *)
(* of its own, in which the fixtures of the cell are installed, probed and *)
(* judged one after the other.  The cells share the OCI layout, which      *)
(* builds go on extending, and the one lockfile in the work directory that *)
(* every cell of every `phpup test` overwrites with what it read from the  *)
(* layout a moment before.                                                 *)
(*                                                                         *)
(* A call chooses its cells by the fixtures file it is given; a container  *)
(* always judges the fixtures of the repository's own file.                *)
(*                                                                         *)
(* A fixture is a record [name, php, arch, os, tokens, iniFile, ini,       *)
(* coverage]; `arch`, `os` and `iniFile` may be Unset.  A bundle's key is  *)
(* the pair of its BundleKeys member and its architecture.                 *)
(***************************************************************************)
EXTENDS PhpPlan, BundleLayout, SequencesExt

CONSTANTS
  Testers,       \* processes of `phpup test`
  Fixtures,      \* test/compat/fixtures.yaml of the repository, a sequence
  Requests,      \* the --os, --arch and --php of a call and its fixtures file
  FirstImages,   \* the index of the layout at first
  Builds,        \* manifests that builds append to it
  Unset,
  SharedOpcache, \* versions whose opcache is a module of its own
  MaxImages,     \* bound: manifests appended
  MaxFaults      \* bound: containers, installs and probes that fail

ASSUME BoundsAssumption == {MaxImages, MaxFaults} \subseteq Nat
ASSUME SharedAssumption == SharedOpcache \subseteq Versions
IsList(s) == s \in Seq({s[i] : i \in DOMAIN s})
ASSUME FixturesAssumption ==
  /\ IsList(Fixtures)
  /\ \A i \in DOMAIN Fixtures : Fixtures[i].coverage \in Coverage
  /\ Unset \notin {"amd64", "x86_64", "arm64", "aarch64"}
ASSUME RequestsAssumption == \A r \in Requests :
  /\ {r.os, r.arch} \subseteq Seq(STRING \ {Unset})
  /\ r.php \in Seq(Nat)
  /\ IsList(r.fixtures)
ASSUME ImagesAssumption ==
  /\ IsList(FirstImages)
  /\ \A m \in {FirstImages[i] : i \in DOMAIN FirstImages} \cup Builds : m.digest \in Digests

VARIABLES
  layout,  \* the index of the OCI layout
  lock,    \* .cache/phpup-test/bundles-override.lock
  suite,   \* tester -> its state
  faults

vars == <<layout, lock, suite, faults>>

----------------------------------------------------------------------------
(* Cells and the fixtures that apply to them. *)

NormalizeArch(a) ==
  CASE a \in {"amd64", "x86_64"} -> "x86_64"
    [] a \in {"arm64", "aarch64"} -> "aarch64"
    [] OTHER -> a

NormalizeOS(o) ==
  CASE o = "jammy" -> "ubuntu-22.04"
    [] o = "noble" -> "ubuntu-24.04"
    [] OTHER -> o

Codename(o) ==
  CASE o = "ubuntu-22.04" -> "jammy"
    [] o = "ubuntu-24.04" -> "noble"
    [] OTHER -> o

\* Without what was seen before, in the order given.
FirstSeen(s) == At(s, {i \in DOMAIN s : \A j \in DOMAIN s : s[j] = s[i] => i <= j})

SplitNormalizedOS(s) == FirstSeen([i \in DOMAIN s |-> Codename(s[i])])
SplitNormalizedArch(s) == FirstSeen([i \in DOMAIN s |-> NormalizeArch(s[i])])

\* The fixtures of a file for a cell.
Filter(file, o, a, v) ==
  At(file, {i \in DOMAIN file :
    LET f == file[i] IN
    /\ f.php = v
    /\ NormalizeArch(IF f.arch = Unset THEN "x86_64" ELSE f.arch) = NormalizeArch(a)
    /\ f.os = Unset \/ NormalizeOS(f.os) = NormalizeOS(o)})

\* The cells of a call in the order of the three loops.
CellsOf(r) ==
  LET os == SplitNormalizedOS(r.os)
      arch == SplitNormalizedArch(r.arch)
      n == Len(arch) * Len(r.php)
  IN  [i \in 1 .. Len(os) * n |->
         [os   |-> os[1 + ((i - 1) \div n)],
          arch |-> arch[1 + (((i - 1) % n) \div Len(r.php))],
          php  |-> r.php[1 + ((i - 1) % Len(r.php))]]]

\* UbuntuImage and DockerPlatform.
HasImage(cell) ==
  cell.os \in {"jammy", "noble", "linux"} /\ cell.arch \in {"x86_64", "aarch64"}

----------------------------------------------------------------------------
(* One install in a container: what PhpupSetup has step by step. *)

ParseExtensions(tokens) ==
  FoldLeft(Parsed, [ext |-> {}, excl |-> {}, reset |-> FALSE], tokens)

\* FromEnv on the INPUT_ variables of a fixture.
FixturePlan(f) ==
  LET list == ParseExtensions(f.tokens)
  IN  ApplyCoverage(
        [php |-> f.php, ts |-> "nts", coverage |-> f.coverage, ext |-> list.ext,
         excl |-> list.excl, reset |-> list.reset,
         iniFile |-> IF f.iniFile = Unset THEN "production" ELSE f.iniFile, ini |-> f.ini,
         failFast |-> FALSE, tools |-> FALSE])

\* The keys that RUNNER_ARCH selects.
LockFor(arch) ==
  [k \in {k \in BundleKeys : <<k, arch>> \in DOMAIN lock} |-> lock[<<k, arch>>].digest]

\* What the bundles in the install directory are, the fragments in conf.d,
\* and the values of 99-user.ini; `entries` is the tool cache.
Bare ==
  [got |-> [n \in Names \cup {"php"} |-> NoDigest], on |-> {}, ini |-> Unset]
Fresh == [base |-> Bare, entries |-> [h \in {} |-> Bare]]

Hit(box, p) == Hash(p) \in DOMAIN box.entries

Needed(p, arch) ==
  LET res == Resolve(p, LockFor(arch))
  IN  [n \in Separate(p) \cup {"php"} |-> IF n = "php" THEN res.core ELSE res.exts[n]]

\* A plan resolves against the lockfile before the tool cache is looked at.
Installable(box, p, arch) ==
  /\ Resolvable(p, LockFor(arch))
  /\ Hit(box, p) \/ \A n \in Separate(p) \cup {"php"} :
       Fetch(layout, n, Needed(p, arch)[n]) # NoDigest

Composed(tree, p, need) ==
  [got |-> [n \in Names \cup {"php"} |-> IF n \in DOMAIN need THEN need[n] ELSE tree.got[n]],
   on  |-> tree.on \cup Separate(p) \cup
           (IF OpcacheWanted(p) /\ p.php \in SharedOpcache THEN {"opcache"} ELSE {}),
   ini |-> p.ini]

Installed(box, p, arch) ==
  IF Hit(box, p) THEN box
  ELSE LET tree == Composed(box.base, p, Needed(p, arch))
       IN  [base |-> tree,
            entries |-> [h \in DOMAIN box.entries \cup {Hash(p)} |->
                           IF h = Hash(p) THEN tree ELSE box.entries[h]]]

\* What the exported variables lead to: the core and the conf.d of the entry,
\* whose fragments load the modules of the install directory.
InUse(box, p) ==
  IF Hit(box, p)
  THEN [box.entries[Hash(p)] EXCEPT
          !.got = [box.base.got EXCEPT !["php"] = box.entries[Hash(p)].got["php"]]]
  ELSE box.base

----------------------------------------------------------------------------
(* probe.sh and the judgement on what it prints. *)

\* `php -m` prints opcache under another name.
Reported(n) == IF n = "opcache" THEN "zend opcache" ELSE n

Loaded(tree, v) ==
  tree.on \cup (Bundled[v] \ (IF v \in SharedOpcache THEN {"opcache"} ELSE {}))

\* Every name of the list, also those that a later "none" took back.
WantedNames(f) == {t.name : t \in {t \in Range(f.tokens) : t.kind = "include"}}
ExcludedNames(f) == {t.name : t \in {t \in Range(f.tokens) : t.kind = "exclude"}}

\* The version that `php -v` prints is that of the plan as long as a core is
\* what its key says, so its check is left out.
AssertFixtureInvariants(f, tree) ==
  LET shown == {Reported(n) : n \in Loaded(tree, f.php)}
  IN  /\ WantedNames(f) \subseteq shown
      /\ ExcludedNames(f) \cap shown = {}
      /\ f.ini \in {"default", tree.ini}

----------------------------------------------------------------------------
(* The two processes. *)

Idle == [phase |-> "idle", cells |-> <<>>, fixtures |-> <<>>, box |-> Fresh, failed |-> FALSE,
         since |-> 0, errs |-> FALSE, request |-> Unset, passed |-> {}]

Init ==
  /\ layout = FirstImages
  /\ lock = SynthesizedLockfile(<<>>)
  /\ suite = [t \in Testers |-> Idle]
  /\ faults = 0

Cell(t) == suite[t].cells[1]
Become(t, state) == suite' = [suite EXCEPT ![t] = state]

Fault == faults < MaxFaults /\ faults' = faults + 1

\* A build in another shell pushes to the layout.
PushImage(m) ==
  /\ Len(layout) < Len(FirstImages) + MaxImages
  /\ layout' = AppendImage(layout, m)
  /\ UNCHANGED <<lock, suite, faults>>

ParseTestFlags(t, r) ==
  /\ suite[t].phase = "idle"
  /\ Become(t, [Idle EXCEPT !.phase = "cells", !.request = r, !.cells = CellsOf(r)])
  /\ UNCHANGED <<layout, lock, faults>>

\* What the call counts for a cell, and what its container finds.
Selected(t) == Filter(suite[t].request.fixtures, Cell(t).os, Cell(t).arch, Cell(t).php)
Mounted(t) == Filter(Fixtures, Cell(t).os, Cell(t).arch, Cell(t).php)

\* Mutant: the loop over the cells goes on inside the container.
CellOverInside(t, err) ==
  Become(t, [suite[t] EXCEPT !.cells = Tail(@), !.fixtures = <<>>, !.errs = @ \/ err])

CellOver(t, err) ==
  Become(t, [suite[t] EXCEPT !.phase = "cells", !.cells = Tail(@), !.fixtures = <<>>,
                             !.box = Fresh, !.failed = FALSE, !.since = 0,
                             !.errs = @ \/ err])

\* A cell without fixtures, or that has no image or no platform.
SkipCell(t) ==
  /\ suite[t].phase = "cells" /\ suite[t].cells # <<>>
  /\ Selected(t) = <<>>
  /\ CellOver(t, FALSE)
  /\ UNCHANGED <<layout, lock, faults>>

RefuseCell(t) ==
  /\ suite[t].phase = "cells" /\ suite[t].cells # <<>>
  /\ Selected(t) # <<>> /\ ~HasImage(Cell(t))
  /\ CellOver(t, TRUE)
  /\ UNCHANGED <<layout, lock, faults>>

\* buildCellMounts reads the index of the layout; `since` has how much of it
\* there was, and what was there stays.
ListLayout(t) ==
  /\ suite[t].phase = "cells" /\ suite[t].cells # <<>>
  /\ Selected(t) # <<>> /\ HasImage(Cell(t))
  /\ Become(t, [suite[t] EXCEPT !.phase = "listed", !.since = Len(layout)])
  /\ UNCHANGED <<layout, lock, faults>>

Listed(t) == SubSeq(layout, 1, suite[t].since)

\* How much of the layout the oldest listing has that is still to be written.
OldestListing == FirstOf({suite[u].since : u \in {u \in Testers : suite[u].phase = "listed"}})

\* Mutant: a lockfile that an earlier cell wrote will do.
StartCellOnce(t) ==
  /\ suite[t].phase = "listed"
  /\ lock' = IF DOMAIN lock = {} THEN SynthesizedLockfile(Listed(t)) ELSE lock
  /\ Become(t, [suite[t] EXCEPT !.phase = "fixtures", !.fixtures = Mounted(t),
                                !.since = OldestListing])
  /\ UNCHANGED <<layout, faults>>

\* What was read is written over the lockfile that all cells share, and the
\* container selects fixtures of its own.  `since` goes back to the oldest
\* listing that another call may yet write.
StartCell(t) ==
  /\ suite[t].phase = "listed"
  /\ lock' = SynthesizedLockfile(Listed(t))
  /\ Become(t, [suite[t] EXCEPT !.phase = "fixtures", !.fixtures = Mounted(t),
                                !.since = OldestListing])
  /\ UNCHANGED <<layout, faults>>

\* A missing mount, a lockfile that is not written or is cut short, or a
\* container that does not start or is killed.
CellFails(t) ==
  /\ Fault
  /\ \/ suite[t].phase = "cells" /\ suite[t].cells # <<>>
        /\ Selected(t) # <<>> /\ HasImage(Cell(t)) /\ UNCHANGED lock
     \/ /\ suite[t].phase = "listed"
        /\ lock' \in {lock, SynthesizedLockfile(<<>>), SynthesizedLockfile(Listed(t))}
     \/ suite[t].phase = "fixtures" /\ UNCHANGED lock
  /\ CellOver(t, TRUE)
  /\ UNCHANGED layout

\* Mutant: the last outcome decides.
JudgedByLast(t, f, box, ok) ==
  LET tree == InUse(box, FixturePlan(f))
      run == [cell |-> Cell(t), fixture |-> f.name,
              got |-> [n \in Separate(FixturePlan(f)) \cup {"php"} |-> tree.got[n]],
              since |-> suite[t].since]
  IN  Become(t, [suite[t] EXCEPT !.fixtures = Tail(@), !.box = box, !.failed = ~ok,
                                 !.passed = IF ok THEN @ \cup {run} ELSE @])

\* `passed` remembers what the outcome stands for.
Judged(t, f, box, ok) ==
  LET tree == InUse(box, FixturePlan(f))
      run == [cell |-> Cell(t), fixture |-> f.name,
              got |-> [n \in Separate(FixturePlan(f)) \cup {"php"} |-> tree.got[n]],
              since |-> suite[t].since]
  IN  Become(t, [suite[t] EXCEPT !.fixtures = Tail(@), !.box = box, !.failed = @ \/ ~ok,
                                 !.passed = IF ok THEN @ \cup {run} ELSE @])

RunFixture(t) ==
  /\ suite[t].phase = "fixtures" /\ suite[t].fixtures # <<>>
  /\ LET f == suite[t].fixtures[1]
         p == FixturePlan(f)
         arch == Cell(t).arch
     IN  IF Installable(suite[t].box, p, arch)
         THEN LET box == Installed(suite[t].box, p, arch)
              IN  Judged(t, f, box, AssertFixtureInvariants(f, InUse(box, p)))
         ELSE Judged(t, f, suite[t].box, FALSE)
  /\ UNCHANGED <<layout, lock, faults>>

\* The install fails before it changed anything, as when the lockfile is being
\* written, or after some fragments; or the probe does once the install has
\* seeded its entry.
FixtureFails(t) ==
  /\ suite[t].phase = "fixtures" /\ suite[t].fixtures # <<>>
  /\ Fault
  /\ LET f == suite[t].fixtures[1]
         p == FixturePlan(f)
         box == suite[t].box
         done == Installed(box, p, Cell(t).arch)
     IN  \/ Judged(t, f, box, FALSE)
         \/ /\ Installable(box, p, Cell(t).arch)
            /\ \/ Judged(t, f, done, FALSE)
               \/ \E es \in SUBSET Separate(p) :
                    Judged(t, f, [box EXCEPT !.base.got = done.base.got,
                                             !.base.on = @ \cup es], FALSE)
  /\ UNCHANGED <<layout, lock>>

\* The exit code of test-cell is that of the container.
EndCell(t) ==
  /\ suite[t].phase = "fixtures" /\ suite[t].fixtures = <<>>
  /\ CellOver(t, suite[t].failed)
  /\ UNCHANGED <<layout, lock, faults>>

Report(t) ==
  /\ suite[t].phase = "cells" /\ suite[t].cells = <<>>
  /\ Become(t, [suite[t] EXCEPT !.phase = IF suite[t].errs THEN "failed" ELSE "ok"])
  /\ UNCHANGED <<layout, lock, faults>>

Next ==
  \/ \E m \in Builds : PushImage(m)
  \/ \E t \in Testers :
       \/ \E r \in Requests : ParseTestFlags(t, r)
       \/ SkipCell(t) \/ RefuseCell(t) \/ ListLayout(t) \/ StartCell(t) \/ CellFails(t)
       \/ RunFixture(t) \/ FixtureFails(t) \/ EndCell(t)
       \/ Report(t)

Spec == Init /\ [][Next]_vars

----------------------------------------------------------------------------
Machines == {{"jammy", "ubuntu-22.04"}, {"noble", "ubuntu-24.04"}}
Processors == {{"x86_64", "amd64", Unset}, {"aarch64", "arm64"}}

Same(x, y, groups) == x = y \/ \E g \in groups : {x, y} \subseteq g

\* What the file means by a fixture for that machine, however it is spelled.
IsFor(f, o, a, v) ==
  f.php = v /\ Same(f.arch, a, Processors) /\ (f.os = Unset \/ Same(f.os, o, Machines))

LockedAt(n, k, arch) == SynthesizedLockfile(SubSeq(layout, 1, n))[<<k, arch>>].digest

KeyOf(n, v) ==
  IF n = "php" THEN PHPBundleKey(v, "nts") ELSE ExtBundleKey(n, v, "nts")

----------------------------------------------------------------------------
\* Types.
TypeOK ==
  /\ faults \in 0 .. MaxFaults
  /\ \A k \in DOMAIN lock : lock[k].digest \in Digests
  /\ \A t \in Testers :
       /\ suite[t].phase \in {"idle", "cells", "listed", "fixtures", "ok", "failed"}
       /\ suite[t].phase \in {"listed", "fixtures"} => suite[t].cells # <<>>
       /\ suite[t].since \in 0 .. Len(layout)
       /\ \A run \in suite[t].passed : \A n \in DOMAIN run.got : run.got[n] \in Digests

\* A call that ends well has installed and judged every fixture of the
\* repository's file that is for one of the machines and versions it was asked
\* for, by whatever name, on that machine, unless its own file has nothing for
\* that machine (runAllCells, Filter on both sides, RunTestCell).  What only its
\* own file has is not judged: the container never sees that file.
NothingWasSkipped ==
  \A t \in Testers : suite[t].phase = "ok" =>
    LET r == suite[t].request
    IN  \A o \in Range(r.os), a \in Range(r.arch), v \in Range(r.php) :
        (\E g \in Range(r.fixtures) : IsFor(g, o, a, v)) =>
        \A f \in Range(Fixtures) : IsFor(f, o, a, v) =>
          \E run \in suite[t].passed :
            /\ run.fixture = f.name /\ run.cell.php = v
            /\ Same(run.cell.os, o, Machines) /\ Same(run.cell.arch, a, Processors)

\* No fixture passes on a bundle older than the one the layout had for its key
\* when its call listed the layout for the cell, or when another call did whose
\* lockfile was still to be written then; whatever calls share the lockfile and
\* whatever the tool cache holds (buildCellMounts, WriteSynthesized).
TestedAreCurrent ==
  \A t \in Testers : \A run \in suite[t].passed : \A n \in DOMAIN run.got :
    \E i \in run.since .. Len(layout) :
      run.got[n] = LockedAt(i, KeyOf(n, run.cell.php), run.cell.arch)
=============================================================================

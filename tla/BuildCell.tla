------------------------------ MODULE BuildCell ------------------------------
(***************************************************************************)
(* `phpup build cell` (build/build.go): a core and then every extension of *)
(* its cell, built in containers and pushed to one OCI layout.  Several    *)
(* processes share the checked out tree, the layout, the output            *)
(* directories and the docker daemon; any of them is killed, fails, or is  *)
(* overtaken by another between two steps.                                 *)
(*                                                                         *)
(* A digest is the number of the container run that made the bundle, and   *)
(* the negated number for what is read while the container still writes.   *)
(***************************************************************************)
EXTENDS Planner, BundleLayout

CONSTANTS
    Builders,    \* processes
    Trees,       \* the tree of the work directory over time, a sequence
    Cells,       \* the cores of the cells that are built
    Flavours,    \* the --os of the container, which no hash and no key names
    Forces,      \* the values of --force
    MaxCells,    \* bound on the cells begun
    MaxBreaks    \* bound on killed processes and on steps that docker, the registry
                 \* or the file system fails

ASSUME BoundsAssumption == {MaxCells, MaxBreaks} \subseteq Nat
ASSUME TreesAssumption ==
    /\ Trees # <<>>
    /\ Trees \in Seq({Trees[t] : t \in DOMAIN Trees})
    /\ Forces \subseteq BOOLEAN
ASSUME CatalogAssumption == \A t \in DOMAIN Trees :
    IsCatalog(Trees[t].catalog) /\ Cells \subseteq ExpandPHPMatrix(Trees[t].catalog)

VARIABLES
    tree,      \* the index of the tree in the work directory
    layout,    \* the index of the OCI layout, as far as it can be read
    torn,      \* its index.json was cut short: no operation on it but a later write
               \* of a process that read it before succeeds
    bundles,   \* what the containers made, by digest
    outDir,    \* output directory -> digest in its bundle.tar.zst, 0 if none
    sidecars,  \* the registries that run, [owner, core]
    orphans,   \* output directories a killed process's container still writes to
    build,     \* process -> its state
    past       \* what has happened: see Past

vars == <<tree, layout, torn, bundles, outDir, sidecars, orphans, build, past>>

Phases == {"idle", "probe", "sweep", "start", "seed", "prepare", "mount",
           "pack", "exit", "read", "append", "stop", "resolve"}

\* The owners of sidecars left running: by processes that died, and by docker, which
\* was asked to remove them and did not.
Nobody == "nobody"
Lost == "lost"
ASSUME NobodyAssumption == {Nobody, Lost} \intersect Builders = {}

Idle == [phase |-> "idle", cell |-> <<>>, todo |-> <<>>, flavour |-> "", force |-> FALSE,
         spec |-> <<>>, core |-> NoDigest, mounted |-> FALSE, digest |-> NoDigest,
         read |-> <<>>, warm |-> FALSE, ok |-> FALSE]

Past == [cells: 0..MaxCells, kills: 0..MaxBreaks, faults: 0..MaxBreaks,
         overlap: BOOLEAN, clash: BOOLEAN, edited: BOOLEAN]

\* The output directory of a sub-build.
Slug(cell, flavour) == <<BundleKey(cell), flavour>>

Slugs == UNION {{Slug(c, f) : c \in AllCells(Trees[t].catalog), f \in Flavours} :
                t \in DOMAIN Trees}

Init ==
    /\ tree = 1
    /\ layout = <<>> /\ torn = FALSE
    /\ bundles = <<>>
    /\ outDir = [s \in Slugs |-> NoDigest]
    /\ sidecars = {}
    /\ orphans = {}
    /\ build = [b \in Builders |-> Idle]
    /\ past = [cells |-> 0, kills |-> 0, faults |-> 0,
               overlap |-> FALSE, clash |-> FALSE, edited |-> FALSE]

----------------------------------------------------------------------------
Live == {b \in Builders : build[b].phase # "idle"}
Item(b) == build[b].todo[1]
SlugOf(b) == Slug(Item(b), build[b].flavour)
Own(b) == {s \in sidecars : s.owner = b}
Left(S, owner) == {[owner |-> owner, core |-> s.core] : s \in S}

Abs(d) == IF d < 0 THEN -d ELSE d

Become(b, state) == build' = [build EXCEPT ![b] = state]
Goto(b, phase) == Become(b, [build[b] EXCEPT !.phase = phase])

\* The state in which the next sub-build begins.
NextItem(b) ==
    [build[b] EXCEPT !.phase = "probe", !.todo = Tail(@), !.ok = FALSE, !.spec = <<>>]

Published(item, t) ==
    \E i \in DOMAIN layout : /\ layout[i].name = ImageName(item)
                             /\ layout[i].spec = ComputeSpecHash(item, Trees[t])

Begin(b, core, flavour, force) ==
    LET items == ItemsOf(core, Trees[tree].catalog) IN
    /\ build[b].phase = "idle"
    /\ past.cells < MaxCells
    /\ Become(b, [Idle EXCEPT !.phase = "probe", !.cell = core, !.todo = items,
                    !.flavour = flavour, !.force = force,
                    !.warm = ~force /\ \A i \in DOMAIN items : Published(items[i], tree)])
    /\ past' = [past EXCEPT !.cells = @ + 1,
                            !.overlap = @ \/ Live # {},
                            !.clash = @ \/ \E c \in Live : build[c].flavour = flavour]
    /\ UNCHANGED <<tree, layout, torn, bundles, outDir, sidecars, orphans>>

\* The spec hash, and unless forced the lookup, which ends the sub-build with a hit
\* or with an index that cannot be read.
Probe(b) ==
    LET spec == ComputeSpecHash(Item(b), Trees[tree])
        hit  == ~build[b].force /\ LookupBySpec(layout, ImageName(Item(b)), spec) # NoDigest
        ends == hit \/ (~build[b].force /\ torn)
    IN
    /\ build[b].phase = "probe"
    /\ Become(b, [build[b] EXCEPT !.spec = spec, !.ok = hit,
                    !.phase = CASE ends -> "stop"
                                [] ~ends /\ IsExt(Item(b)) -> "sweep"
                                [] OTHER -> "prepare"])
    /\ UNCHANGED <<tree, layout, torn, bundles, outDir, sidecars, orphans, past>>

\* Mutant: what an earlier run left behind is kept.
SweepStaleSidecarsKept(b) ==
    /\ build[b].phase = "sweep"
    /\ Goto(b, "start")
    /\ UNCHANGED <<tree, layout, torn, bundles, outDir, sidecars, orphans, past>>

\* Every sidecar of this daemon is taken for one an earlier run left behind.  Docker
\* may fail to list or to remove any of them, and the build goes on.
SweepStaleSidecars(b) ==
    /\ build[b].phase = "sweep"
    /\ \E kept \in SUBSET sidecars :
          LET stale == {s \in kept : s.owner = Nobody}
          IN  sidecars' = (kept \ stale) \union Left(stale, Lost)
    /\ Goto(b, "start")
    /\ UNCHANGED <<tree, layout, torn, bundles, outDir, orphans, past>>

StartSidecar(b) ==
    /\ build[b].phase = "start"
    /\ sidecars' = sidecars \union {[owner |-> b, core |-> NoDigest]}
    /\ Goto(b, "seed")
    /\ UNCHANGED <<tree, layout, torn, bundles, outDir, orphans, past>>

\* The core is copied from the layout to the sidecar, unless one of them has
\* lost it meanwhile.
SeedCore(b) ==
    LET found == Fetch(layout, <<"php-core">>, build[b].core) IN
    /\ build[b].phase = "seed"
    /\ \/ /\ found # NoDigest
          /\ Own(b) # {}
          /\ sidecars' = (sidecars \ Own(b)) \union {[owner |-> b, core |-> found]}
          /\ Goto(b, "prepare")
       \/ /\ found = NoDigest \/ Own(b) = {}
          /\ Goto(b, "stop")
          /\ UNCHANGED sidecars
    /\ UNCHANGED <<tree, layout, torn, bundles, outDir, orphans, past>>

\* Mutant: the directory is not emptied.
PrepareOutDirKept(b) ==
    /\ build[b].phase = "prepare"
    /\ Goto(b, "mount")
    /\ UNCHANGED <<tree, layout, torn, bundles, outDir, sidecars, orphans, past>>

\* The directory is removed and made anew: containers that have it mounted go
\* on writing to the removed one.
PrepareOutDir(b) ==
    /\ build[b].phase = "prepare"
    /\ outDir' = [outDir EXCEPT ![SlugOf(b)] = NoDigest]
    /\ orphans' = {o \in orphans : o.slug # SlugOf(b)}
    /\ build' = [c \in Builders |->
                    IF c = b THEN [build[b] EXCEPT !.phase = "mount"]
                    ELSE IF build[c].mounted /\ SlugOf(c) = SlugOf(b)
                    THEN [build[c] EXCEPT !.mounted = FALSE]
                    ELSE build[c]]
    /\ UNCHANGED <<tree, layout, torn, bundles, sidecars, past>>

DockerRun(b) ==
    /\ build[b].phase = "mount"
    /\ Become(b, [build[b] EXCEPT !.phase = "pack", !.mounted = TRUE])
    /\ UNCHANGED <<tree, layout, torn, bundles, outDir, sidecars, orphans, past>>

\* The container has built from the mounted tree, an extension against the core
\* its sidecar serves, and begins to write the bundle.
Pack(b) ==
    LET against == {s.core : s \in Own(b)} \ {NoDigest}
        made    == Len(bundles) + 1
    IN
    /\ build[b].phase = "pack"
    /\ \/ /\ IsExt(Item(b)) => against # {}
          /\ bundles' = Append(bundles,
                [spec |-> ComputeSpecHash(Item(b), Trees[tree]),
                 flavour |-> build[b].flavour,
                 against |-> IF IsExt(Item(b)) THEN CHOOSE d \in against : TRUE
                             ELSE NoDigest])
          /\ outDir' = IF build[b].mounted THEN [outDir EXCEPT ![SlugOf(b)] = -made] ELSE outDir
          /\ Become(b, [build[b] EXCEPT !.phase = "exit", !.digest = made])
       \/ /\ IsExt(Item(b)) /\ against = {}
          /\ Become(b, [build[b] EXCEPT !.phase = "stop", !.mounted = FALSE])
          /\ UNCHANGED <<bundles, outDir>>
    /\ UNCHANGED <<tree, layout, torn, sidecars, orphans, past>>

ContainerExits(b) ==
    /\ build[b].phase = "exit"
    /\ outDir' = IF build[b].mounted THEN [outDir EXCEPT ![SlugOf(b)] = build[b].digest] ELSE outDir
    /\ Become(b, [build[b] EXCEPT !.phase = "read", !.mounted = FALSE, !.digest = NoDigest])
    /\ UNCHANGED <<tree, layout, torn, bundles, sidecars, orphans, past>>

\* The bundle at the path, whoever wrote it, and the index it is appended to.
ReadBundle(b) ==
    /\ build[b].phase = "read"
    /\ IF outDir[SlugOf(b)] = NoDigest \/ torn
       THEN Goto(b, "stop")
       ELSE Become(b, [build[b] EXCEPT !.phase = "append", !.read = layout,
                              !.digest = outDir[SlugOf(b)]])
    /\ UNCHANGED <<tree, layout, torn, bundles, outDir, sidecars, orphans, past>>

\* The index with the new manifest is written over the one that was read.
Push(b) ==
    /\ build[b].phase = "append"
    /\ torn' = FALSE
    /\ layout' = AppendImage(build[b].read,
                    [name |-> ImageName(Item(b)), key |-> BundleKey(Item(b)),
                     spec |-> build[b].spec, digest |-> build[b].digest])
    /\ Become(b, [build[b] EXCEPT !.phase = "stop", !.ok = TRUE, !.read = <<>>,
                    !.digest = NoDigest])
    /\ UNCHANGED <<tree, bundles, outDir, sidecars, orphans, past>>

\* Mutant: the end of the list is not noticed.
EndItemNeverLast(b) ==
    /\ build[b].phase = "stop"
    /\ sidecars' = sidecars \ Own(b)
    /\ Become(b, IF ~build[b].ok THEN Idle
                 ELSE IF ~IsExt(Item(b)) THEN [build[b] EXCEPT !.phase = "resolve"]
                 ELSE NextItem(b))
    /\ UNCHANGED <<tree, layout, torn, bundles, outDir, orphans, past>>

\* The end of a sub-build: the deferred stop of its sidecar, whose error nobody
\* looks at, then the next one, or the end of the cell with the first error.
EndItem(b) ==
    /\ build[b].phase = "stop"
    /\ sidecars' \in {sidecars \ Own(b), (sidecars \ Own(b)) \union Left(Own(b), Lost)}
    /\ Become(b, IF ~build[b].ok THEN Idle
                 ELSE IF ~IsExt(Item(b)) THEN [build[b] EXCEPT !.phase = "resolve"]
                 ELSE IF Len(build[b].todo) = 1 THEN Idle
                 ELSE NextItem(b))
    /\ UNCHANGED <<tree, layout, torn, bundles, outDir, orphans, past>>

\* Mutant: any core of the layout will do.
ResolveCoreOfAnySpec(b) ==
    LET cores == {i \in DOMAIN layout : layout[i].name = <<"php-core">>} IN
    /\ build[b].phase = "resolve"
    /\ Become(b, IF cores = {} \/ Len(build[b].todo) = 1 THEN Idle
                 ELSE [NextItem(b) EXCEPT !.core = layout[FirstOf(cores)].digest])
    /\ UNCHANGED <<tree, layout, torn, bundles, outDir, sidecars, orphans, past>>

\* The core the extensions are built against is looked up by a spec hash that
\* is computed again.
ResolveCore(b) ==
    LET core == LookupBySpec(layout, <<"php-core">>, ComputeSpecHash(Item(b), Trees[tree])) IN
    /\ build[b].phase = "resolve"
    /\ Become(b, IF core = NoDigest \/ Len(build[b].todo) = 1 THEN Idle
                 ELSE [NextItem(b) EXCEPT !.core = core])
    /\ UNCHANGED <<tree, layout, torn, bundles, outDir, sidecars, orphans, past>>

----------------------------------------------------------------------------
\* Docker, the registry or a file fails a step; what was started is stopped.
Fail(b) ==
    /\ build[b].phase \notin {"idle", "stop"}
    /\ past.kills + past.faults < MaxBreaks
    /\ Become(b, [build[b] EXCEPT !.phase = "stop", !.ok = FALSE, !.mounted = FALSE,
                    !.read = <<>>, !.digest = NoDigest])
    /\ past' = [past EXCEPT !.faults = @ + 1]
    /\ UNCHANGED <<tree, layout, torn, bundles, outDir, sidecars, orphans>>

\* A killed process leaves its sidecar, and a container that goes on writing.  Killed
\* in its write of the index, it leaves an emptied index.json.
Kill(b) ==
    /\ build[b].phase # "idle"
    /\ past.kills + past.faults < MaxBreaks
    /\ sidecars' = (sidecars \ Own(b)) \union Left(Own(b), Nobody)
    /\ \/ UNCHANGED <<layout, torn>>
       \/ build[b].phase = "append" /\ layout' = <<>> /\ torn' = TRUE
    /\ orphans' = IF build[b].phase = "exit" /\ build[b].mounted
                  THEN orphans \union {[slug |-> SlugOf(b), digest |-> build[b].digest]}
                  ELSE orphans
    /\ build' = [build EXCEPT ![b] = Idle]
    /\ past' = [past EXCEPT !.kills = @ + 1]
    /\ UNCHANGED <<tree, bundles, outDir>>

OrphanExits ==
    \E o \in orphans :
       /\ outDir' = [outDir EXCEPT ![o.slug] = o.digest]
       /\ orphans' = orphans \ {o}
       /\ UNCHANGED <<tree, layout, torn, bundles, sidecars, build, past>>

\* The work directory moves on to its next tree.
EditTree ==
    /\ tree < Len(Trees)
    /\ tree' = tree + 1
    /\ past' = [past EXCEPT !.edited = @ \/ Live # {}]
    /\ UNCHANGED <<layout, torn, bundles, outDir, sidecars, orphans, build>>

----------------------------------------------------------------------------
Work(b) ==
    \/ Probe(b) \/ SweepStaleSidecars(b) \/ StartSidecar(b) \/ SeedCore(b)
    \/ PrepareOutDir(b) \/ DockerRun(b) \/ Pack(b) \/ ContainerExits(b)
    \/ ReadBundle(b) \/ Push(b) \/ EndItem(b) \/ ResolveCore(b)

Next ==
    \/ \E b \in Builders :
          \/ \E c \in Cells, f \in Flavours, force \in Forces : Begin(b, c, f, force)
          \/ Work(b) \/ Fail(b) \/ Kill(b)
    \/ OrphanExits
    \/ EditTree

Spec == Init /\ [][Next]_vars

----------------------------------------------------------------------------
(* Properties. *)

\* Builds of a cell follow the steps of the code, on values of their types.
TypeOK ==
    /\ tree \in DOMAIN Trees
    /\ torn \in BOOLEAN /\ (torn => layout = <<>>)
    /\ \A i \in DOMAIN layout : Abs(layout[i].digest) \in DOMAIN bundles
    /\ \A s \in Slugs : Abs(outDir[s]) \in {NoDigest} \union DOMAIN bundles
    /\ \A s \in sidecars : /\ s.owner \in Builders \union {Nobody, Lost}
                           /\ Abs(s.core) \in {NoDigest} \union DOMAIN bundles
    /\ \A o \in orphans : o.slug \in Slugs /\ o.digest \in DOMAIN bundles
    /\ past \in Past
    /\ \A b \in Builders :
          /\ build[b].phase \in Phases
          /\ build[b].phase # "idle" => build[b].todo # <<>>
          /\ Abs(build[b].core) \in {NoDigest} \union DOMAIN bundles

\* Whatever was killed, failed or left behind in the output directories, and
\* whatever else is pushed to the layout meanwhile, a manifest's bundle is
\* whole and of the spec hash it is annotated with, as long as no two builds of
\* one --os overlap and the tree stays put during a build (prepareOutDir, Push).
PushedAsAnnotated ==
    ~past.clash /\ ~past.edited =>
        \A i \in DOMAIN layout : /\ layout[i].digest \in DOMAIN bundles
                                 /\ bundles[layout[i].digest].spec = layout[i].spec

\* However builds overlap, and whichever sidecars they sweep from under each
\* other, an extension is linked against a core of the very tree it was built
\* from (BuildCell step 3, SeedCore, fetch-core.sh).
LinkedAgainstOwnTree ==
    ~past.edited =>
        \A e \in {d \in DOMAIN bundles : IsExt(bundles[d].spec.cell)} :
            \E t \in DOMAIN Trees, core \in Cells :
                /\ core.version = bundles[e].spec.cell.php
                /\ bundles[e].spec \in {ComputeSpecHash(c, Trees[t]) :
                                        c \in AllCells(Trees[t].catalog)}
                /\ bundles[Abs(bundles[e].against)].spec = ComputeSpecHash(core, Trees[t])

\* The last sub-build ends well.
Ends(b, core) ==
           /\ build[b].cell = core
           /\ build[b].phase \in {"stop", "resolve"} /\ build[b].ok
           /\ build'[b].phase = "idle" /\ past' = past

LockfileNow == SynthesizedLockfile(layout)

\* The lockfile synthesized from the layout names a bundle of the current spec.
Current(item) ==
    /\ BundleKey(item) \in DOMAIN LockfileNow
    /\ LockfileNow[BundleKey(item)].spec = ComputeSpecHash(item, Trees[tree])

\* The spec hash of a cell went back to what it was before another tree.
CameBack(item) ==
    \E t, u \in 1..tree :
        /\ t < u /\ item \in AllCells(Trees[t].catalog) \intersect AllCells(Trees[u].catalog)
        /\ ComputeSpecHash(item, Trees[t]) = ComputeSpecHash(item, Trees[tree])
        /\ ComputeSpecHash(item, Trees[u]) # ComputeSpecHash(item, Trees[tree])

ItemsNow(core) == Elements(ItemsOf(core, Trees[tree].catalog))

\* When a cell that was not overlapped ends well, the lockfile made of the layout
\* is current for each of its bundles, whatever earlier builds the layout still
\* holds, unless the spec hash of that bundle came back to an earlier one.
LockfileFollowsTree ==
    [][\A b \in Builders, core \in Cells :
          Ends(b, core) /\ ~past.overlap /\ ~past.edited =>
             (\A item \in ItemsNow(core) : CameBack(item) \/ Current(item))']_vars

\* The same without the exception: what is tested and published are "the bundles
\* this PR's pipeline actually built" (ci.yml), or what it found still current.
LockfileIsCurrent ==
    [][\A b \in Builders, core \in Cells :
          Ends(b, core) /\ ~past.overlap /\ ~past.edited =>
             (\A item \in ItemsNow(core) : Current(item))']_vars

\* The core has more than one build of the present tree, which takes --force.
BuiltAgain(core) ==
    \E i, j \in DOMAIN layout :
        /\ i # j
        /\ \A n \in {i, j} : /\ layout[n].name = ImageName(core)
                            /\ layout[n].spec = ComputeSpecHash(core, Trees[tree])

\* Where builds do not overlap, what a container has linked an extension against
\* is the very core that the lockfile made of the layout names beside it: the
\* lookup finds the first manifest of a spec hash and the lockfile the last of a
\* key, so unless the core was built again, or its spec hash came back (BuildCell
\* step 3, LookupBySpec, Synthesize).
LinkedAgainstLocked ==
    \A b \in Builders :
        build[b].phase = "exit" /\ IsExt(Item(b)) /\ ~past.overlap /\ ~past.edited =>
            LET core == build[b].cell IN
            \/ BuiltAgain(core) \/ CameBack(core)
            \/ /\ BundleKey(core) \in DOMAIN LockfileNow
               /\ bundles[build[b].digest].against = LockfileNow[BundleKey(core)].digest

\* A cell whose bundles are all in the layout is built again without a
\* container being started, unless forced.
WarmCellIsFree ==
    \A b \in Builders :
        build[b].warm /\ ~past.overlap /\ ~past.edited =>
            build[b].phase \in {"idle", "probe", "stop", "resolve"}

\* Builds that do not overlap never lose what the layout held, but by a kill in the
\* very write of its index; and on that index no later build writes another one, which
\* would hold its own bundle alone (Push, AppendImage, openOrInit).
IndexGrows ==
    [][~past'.overlap =>
          \/ UNCHANGED <<layout, torn>>
          \/ /\ ~torn /\ ~torn'
             /\ Len(layout') = Len(layout) + 1 /\ SubSeq(layout', 1, Len(layout)) = layout
          \/ ~torn /\ torn' /\ past'.kills > past.kills]_vars

\* As long as builds do not overlap and none is killed in the write of the index, the
\* lockfile of the layout holds the newest build of each key: whatever else is killed
\* and fails, whatever half written bundles and late writers are left, and however the
\* tree is edited, a push adds to it a bundle that is newer than all there are, and
\* takes nothing away (PrepareOutDir, ReadBundle, Push).
Newest == INSTANCE NewestBuilds WITH
    newest <- LockfileNow, published <- Len(layout), disturbed <- past.overlap \/ torn

KeepsNewestBuilds == Newest!Spec

\* While one process builds an extension alone it has one sidecar, which serves the
\* resolved core, and whatever killed processes left is gone; there is another one
\* only if docker did not remove it when it was asked to.  Where nothing was killed,
\* none but such is left when nothing is built (sweepStaleSidecars, stop, SeedCore).
SidecarsAreOwn ==
    /\ \A b \in Builders :
          /\ ~past.overlap
          /\ build[b].phase \in {"prepare", "mount", "pack", "exit", "read", "append"}
          /\ IsExt(Item(b))
          => /\ Own(b) = {[owner |-> b, core |-> build[b].core]}
             /\ \A s \in sidecars \ Own(b) : s.owner = Lost
    /\ Live = {} /\ past.kills = 0 => \A s \in sidecars : s.owner = Lost
=============================================================================

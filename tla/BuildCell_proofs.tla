-------------------------- MODULE BuildCell_proofs --------------------------
(***************************************************************************)
(* Proofs about BuildCell for any processes, trees, cells and flavours,    *)
(* and whatever the bounds are.                                            *)
(***************************************************************************)
EXTENDS BuildCell, SharedFacts

(* The invariant. *)

HasFields(x, F) == DOMAIN x = F /\ x = [f \in F |-> x[f]]

BuildFields == {"phase", "cell", "todo", "flavour", "force", "spec", "core",
                "mounted", "digest", "read", "warm", "ok"}
PastFields == {"cells", "kills", "faults", "overlap", "clash", "edited"}

IsBuild(x) == HasFields(x, BuildFields)

Shape ==
    /\ build = [b \in Builders |-> build[b]]
    /\ \A b \in Builders : IsBuild(build[b])
    /\ HasFields(past, PastFields)
    /\ past.kills \in Nat
    /\ {past.overlap, past.clash, past.edited} \subseteq BOOLEAN

\* A process has the rest of a cell to build, whose cells are of a catalog.
HasTodo(b) ==
    build[b].phase # "idle" =>
        /\ build[b].flavour \in Flavours
        /\ \E t \in DOMAIN Trees : build[b].todo \in Seq(AllCells(Trees[t].catalog))
        /\ build[b].todo # <<>>
        /\ build[b].phase \in {"sweep", "start", "seed"} => IsExt(Item(b))
        /\ IsExt(Item(b)) => build[b].core # NoDigest

TodoInv ==
    /\ tree \in DOMAIN Trees
    /\ \A b \in Builders : HasTodo(b)

\* Where builds do not overlap there is one at most, and it appends to the index
\* that is there.
AloneInv ==
    /\ \E S : layout \in Seq(S)
    /\ torn \in BOOLEAN /\ (torn => layout = <<>>)
    /\ \A b \in Builders : build[b].phase = "append" => \E S : build[b].read \in Seq(S)
    /\ ~past.overlap =>
          /\ \A b, c \in Live : b = c
          /\ \A b \in Builders :
                build[b].phase = "append" => build[b].read = layout /\ ~torn

Linking == {"prepare", "mount", "pack", "exit", "read", "append"}

\* A sidecar belongs to a sub-build under way, unless its process was killed or docker
\* did not remove it.
Busy == Linking \union {"seed", "stop"}
SidecarsOwned ==
    \A s \in sidecars :
        \/ s.owner = Lost
        \/ s.owner = Nobody /\ past.kills > 0
        \/ s.owner \in Builders /\ build[s.owner].phase \in Busy

\* The sidecars a process has, beside which there are lost ones only.
HasJust(b, S) == Own(b) = S /\ \A s \in sidecars : s.owner \in {b, Lost}

\* Where builds do not overlap, what a sub-build finds is its own.
IsServed(b) ==
    /\ build[b].phase = "start" => HasJust(b, {})
    /\ build[b].phase = "seed" => HasJust(b, {[owner |-> b, core |-> NoDigest]})
    /\ build[b].phase \in Linking /\ IsExt(Item(b)) =>
          HasJust(b, {[owner |-> b, core |-> build[b].core]})

SidecarInv ==
    /\ SidecarsOwned
    /\ ~past.overlap => \A b \in Builders : IsServed(b)

\* Every manifest of an index is of a bundle made under its spec hash.
AsAnnotated(index) ==
    \A i \in DOMAIN index : /\ index[i].digest \in DOMAIN bundles
                            /\ bundles[index[i].digest].spec = index[i].spec

IsOf(d, spec) == d \in DOMAIN bundles /\ bundles[d].spec = spec

\* A sub-build has its output directory for itself, from its removal to the
\* reading of the bundle.
OwnDir(b) ==
    /\ build[b].phase = "append" => /\ AsAnnotated(build[b].read)
                                    /\ IsOf(build[b].digest, build[b].spec)
    /\ build[b].phase \in Linking \union {"sweep", "start", "seed"} =>
          build[b].spec = ComputeSpecHash(Item(b), Trees[tree])
    /\ build[b].phase \in {"pack", "exit"} => build[b].mounted
    /\ build[b].phase = "exit" => IsOf(build[b].digest, build[b].spec)
    /\ build[b].phase = "read" => IsOf(outDir[SlugOf(b)], build[b].spec)
    /\ build[b].phase \in {"mount", "pack", "exit", "read"} =>
          \A o \in orphans : o.slug # SlugOf(b)

\* Where the builds of one flavour do not overlap, each has its directory.
OutDirInv ==
    /\ \E S : bundles \in Seq(S)
    /\ DOMAIN outDir = Slugs
    /\ ~past.clash /\ ~past.edited =>
          /\ \A b, c \in Live : b # c => build[b].flavour # build[c].flavour
          /\ AsAnnotated(layout)
          /\ \A b \in Builders : OwnDir(b)

-----------------------------------------------------------------------------
(* What each step does to the process that takes it. *)

\* One process moves, the others stay.
Moves(b) ==
    /\ build' = [c \in Builders |-> build'[c]]
    /\ \A c \in Builders \ {b} : build'[c] = build[c]
    /\ IsBuild(build'[b])

Keeps(b, F) == \A f \in F : build'[b][f] = build[b][f]

LEMMA Moving ==
  ASSUME Shape, NEW b \in Builders, NEW st, IsBuild(st), Become(b, st)
  PROVE  Moves(b) /\ build'[b] = st
<1>1. DOMAIN build = Builders
  BY DEF Shape
<1> QED
  BY <1>1 DEF Become, Moves

LEMMA IdleIsBuild == IsBuild(Idle) /\ Idle.phase = "idle" /\ Idle.core = NoDigest
  BY DEF Idle, IsBuild, HasFields, BuildFields

LEMMA BeginEffect ==
  ASSUME Shape, NEW b \in Builders, NEW core, NEW flavour, NEW force,
         Begin(b, core, flavour, force)
  PROVE  /\ Moves(b)
         /\ build'[b].phase = "probe" /\ build'[b].flavour = flavour
         /\ build'[b].todo = ItemsOf(core, Trees[tree].catalog)
         /\ build'[b].cell = core /\ build'[b].core = NoDigest
         /\ build'[b].force = force
         /\ build'[b].warm = (~force /\ \A i \in DOMAIN build'[b].todo :
                                            Published(build'[b].todo[i], tree))
         /\ HasFields(past', PastFields)
         /\ past'.kills = past.kills /\ past'.edited = past.edited
         /\ past'.overlap = (past.overlap \/ Live # {})
         /\ past'.clash = (past.clash \/ \E c \in Live : build[c].flavour = flavour)
<1> DEFINE items == ItemsOf(core, Trees[tree].catalog)
           warm == ~force /\ \A i \in DOMAIN items : Published(items[i], tree)
           x == [Idle EXCEPT !.phase = "probe", !.cell = core, !.todo = items,
                   !.flavour = flavour, !.force = force, !.warm = warm]
<1>1. Become(b, x)
  BY DEF Begin
<1>2. /\ IsBuild(x) /\ x.phase = "probe" /\ x.flavour = flavour /\ x.todo = items
      /\ x.cell = core /\ x.core = NoDigest /\ x.force = force /\ x.warm = warm
  <2> HIDE DEF items, warm
  <2> QED
    BY DEF IsBuild, HasFields, BuildFields, Idle
<1>3. Moves(b) /\ build'[b] = x
  BY <1>1, <1>2, Moving
<1>4. past' = [past EXCEPT !.cells = @ + 1, !.overlap = @ \/ Live # {},
                           !.clash = @ \/ \E c \in Live : build[c].flavour = flavour]
  BY DEF Begin
<1>5. HasFields(past, PastFields)
  BY DEF Shape
<1>6. /\ HasFields(past', PastFields)
      /\ past'.kills = past.kills /\ past'.edited = past.edited
  BY <1>4, <1>5 DEF HasFields, PastFields
<1>7. /\ past'.overlap = (past.overlap \/ Live # {})
      /\ past'.clash = (past.clash \/ \E c \in Live : build[c].flavour = flavour)
  BY <1>4, <1>5, Zenon DEF HasFields, PastFields
<1> QED
  BY <1>2, <1>3, <1>6, <1>7

LEMMA ProbeEffect ==
  ASSUME Shape, NEW b \in Builders, Probe(b)
  PROVE  /\ Moves(b)
         /\ Keeps(b, {"todo", "cell", "warm", "force", "flavour", "core", "digest", "mounted"})
         /\ build[b].phase = "probe"
         /\ build'[b].spec = ComputeSpecHash(Item(b), Trees[tree])
         /\ build'[b].phase \in {"stop", "sweep", "prepare"}
         /\ build'[b].phase = "sweep" => IsExt(Item(b))
         /\ build'[b].phase = "prepare" => ~IsExt(Item(b))
<1> DEFINE spec == ComputeSpecHash(Item(b), Trees[tree])
           hit == ~build[b].force /\ LookupBySpec(layout, ImageName(Item(b)), spec) # NoDigest
           ends == hit \/ (~build[b].force /\ torn)
           phase == CASE ends -> "stop"
                      [] ~ends /\ IsExt(Item(b)) -> "sweep"
                      [] OTHER -> "prepare"
           x == [build[b] EXCEPT !.spec = spec, !.ok = hit, !.phase = phase]
<1>1. Become(b, x) /\ build[b].phase = "probe"
  BY DEF Probe
<1>2. IsBuild(build[b])
  BY DEF Shape
<1>3. /\ phase \in {"stop", "sweep", "prepare"}
      /\ phase = "sweep" => IsExt(Item(b))
      /\ phase = "prepare" => ~IsExt(Item(b))
  <2> HIDE DEF ends
  <2> QED
    OBVIOUS
<1>4. IsBuild(x) /\ x.phase = phase /\ x.spec = spec
      /\ \A f \in {"todo", "cell", "warm", "force", "flavour", "core", "digest", "mounted"} : x[f] = build[b][f]
  <2> HIDE DEF hit, phase, spec
  <2> QED
    BY <1>2 DEF IsBuild, HasFields, BuildFields
<1> QED
  BY <1>1, <1>3, <1>4, Moving DEF Keeps

\* The steps that only go on to another phase.
LEMMA GotoEffect ==
  ASSUME Shape, NEW b \in Builders, NEW phase, Goto(b, phase)
  PROVE  Moves(b) /\ build'[b].phase = phase /\ Keeps(b, BuildFields \ {"phase"})
<1> DEFINE x == [build[b] EXCEPT !.phase = phase]
<1>1. IsBuild(build[b])
  BY DEF Shape
<1>2. IsBuild(x) /\ x.phase = phase /\ \A f \in BuildFields \ {"phase"} : x[f] = build[b][f]
  BY <1>1 DEF IsBuild, HasFields, BuildFields
<1> QED
  BY <1>2, Moving DEF Keeps, Goto

LEMMA DockerRunEffect ==
  ASSUME Shape, NEW b \in Builders, DockerRun(b)
  PROVE  /\ Moves(b)
         /\ build[b].phase = "mount" /\ build'[b].phase = "pack" /\ build'[b].mounted
         /\ Keeps(b, {"todo", "cell", "warm", "force", "flavour", "core", "spec", "digest"})
<1> DEFINE x == [build[b] EXCEPT !.phase = "pack", !.mounted = TRUE]
<1>1. IsBuild(build[b])
  BY DEF Shape
<1>2. IsBuild(x) /\ x.phase = "pack" /\ x.mounted
      /\ \A f \in {"todo", "cell", "warm", "force", "flavour", "core", "spec", "digest"} : x[f] = build[b][f]
  BY <1>1 DEF IsBuild, HasFields, BuildFields
<1> QED
  BY <1>2, Moving DEF Keeps, DockerRun

LEMMA ContainerExitsEffect ==
  ASSUME Shape, NEW b \in Builders, ContainerExits(b)
  PROVE  /\ Moves(b)
         /\ build[b].phase = "exit" /\ build'[b].phase = "read"
         /\ Keeps(b, {"todo", "cell", "warm", "force", "flavour", "core", "spec"})
<1> DEFINE x == [build[b] EXCEPT !.phase = "read", !.mounted = FALSE, !.digest = NoDigest]
<1>1. IsBuild(build[b])
  BY DEF Shape
<1>2. IsBuild(x) /\ x.phase = "read"
      /\ \A f \in {"todo", "cell", "warm", "force", "flavour", "core", "spec"} : x[f] = build[b][f]
  BY <1>1 DEF IsBuild, HasFields, BuildFields
<1> QED
  BY <1>2, Moving DEF Keeps, ContainerExits

\* A bundle comes out of the live tree, an extension's against what the sidecar
\* serves, and its first half lands in the directory, if that is still mounted.
Packs(b) ==
    /\ \E r : /\ bundles' = Append(bundles, r)
              /\ r.spec = ComputeSpecHash(Item(b), Trees[tree])
              /\ IsExt(Item(b)) => r.against \in {s.core : s \in Own(b)} \ {NoDigest}
    /\ outDir' = IF build[b].mounted
                 THEN [outDir EXCEPT ![SlugOf(b)] = -(Len(bundles) + 1)] ELSE outDir

LEMMA PackEffect ==
  ASSUME Shape, NEW b \in Builders, Pack(b)
  PROVE  /\ Moves(b)
         /\ Keeps(b, {"todo", "cell", "warm", "force", "flavour", "core", "spec"})
         /\ build[b].phase = "pack"
         /\ \/ /\ build'[b].phase = "exit"
               /\ build'[b].digest = Len(bundles) + 1
               /\ build'[b].mounted = build[b].mounted
               /\ Packs(b)
            \/ build'[b].phase = "stop" /\ UNCHANGED <<bundles, outDir>>
<1>1. IsBuild(build[b]) /\ build[b].phase = "pack"
  BY DEF Shape, Pack
<1> DEFINE x == [build[b] EXCEPT !.phase = "exit", !.digest = Len(bundles) + 1]
           y == [build[b] EXCEPT !.phase = "stop", !.mounted = FALSE]
           F == {"todo", "cell", "warm", "force", "flavour", "core", "spec"}
<1>2. (Become(b, x) /\ Packs(b)) \/ (Become(b, y) /\ UNCHANGED <<bundles, outDir>>)
  <2> DEFINE against == {s.core : s \in Own(b)} \ {NoDigest}
             r == [spec |-> ComputeSpecHash(Item(b), Trees[tree]),
                   flavour |-> build[b].flavour,
                   against |-> IF IsExt(Item(b)) THEN CHOOSE d \in against : TRUE
                               ELSE NoDigest]
  <2>1. \/ /\ IsExt(Item(b)) => against # {}
           /\ bundles' = Append(bundles, r) /\ Become(b, x)
           /\ outDir' = IF build[b].mounted
                        THEN [outDir EXCEPT ![SlugOf(b)] = -(Len(bundles) + 1)] ELSE outDir
        \/ Become(b, y) /\ UNCHANGED <<bundles, outDir>>
    BY DEF Pack
  <2>2. (IsExt(Item(b)) => against # {}) => (IsExt(Item(b)) => r.against \in against)
    <3> HIDE DEF against
    <3> QED
      OBVIOUS
  <2>3. r.spec = ComputeSpecHash(Item(b), Trees[tree])
    OBVIOUS
  <2> HIDE DEF r, x, y
  <2> QED
    BY <2>1, <2>2, <2>3 DEF Packs
<1>3. /\ IsBuild(x) /\ x.phase = "exit" /\ x.digest = Len(bundles) + 1
      /\ x.mounted = build[b].mounted
      /\ \A f \in F : x[f] = build[b][f]
  BY <1>1 DEF IsBuild, HasFields, BuildFields
<1>4. IsBuild(y) /\ y.phase = "stop" /\ \A f \in F : y[f] = build[b][f]
  BY <1>1 DEF IsBuild, HasFields, BuildFields
<1>5. CASE Become(b, x) /\ Packs(b)
  BY <1>1, <1>3, <1>5, Moving DEF Keeps
<1>6. CASE Become(b, y) /\ UNCHANGED <<bundles, outDir>>
  BY <1>1, <1>4, <1>6, Moving DEF Keeps
<1> QED
  BY <1>2, <1>5, <1>6

LEMMA ReadBundleEffect ==
  ASSUME Shape, NEW b \in Builders, ReadBundle(b)
  PROVE  /\ Moves(b)
         /\ Keeps(b, {"todo", "cell", "warm", "force", "flavour", "core", "spec"})
         /\ build[b].phase = "read"
         /\ \/ build'[b].phase = "stop"
            \/ /\ build'[b].phase = "append" /\ build'[b].read = layout
               /\ build'[b].digest = outDir[SlugOf(b)] /\ ~torn
<1>1. IsBuild(build[b]) /\ build[b].phase = "read"
  BY DEF Shape, ReadBundle
<1> DEFINE x == [build[b] EXCEPT !.phase = "append", !.read = layout,
                                 !.digest = outDir[SlugOf(b)]]
           F == {"todo", "cell", "warm", "force", "flavour", "core", "spec"}
<1>2. Goto(b, "stop") \/ (Become(b, x) /\ ~torn)
  BY DEF ReadBundle
<1>3. /\ IsBuild(x) /\ x.phase = "append" /\ x.read = layout /\ x.digest = outDir[SlugOf(b)]
      /\ \A f \in F : x[f] = build[b][f]
  BY <1>1 DEF IsBuild, HasFields, BuildFields
<1>4. CASE Become(b, x) /\ ~torn
  BY <1>1, <1>3, <1>4, Moving DEF Keeps
<1>5. CASE Goto(b, "stop")
  BY <1>1, <1>5, GotoEffect DEF Keeps, BuildFields
<1> QED
  BY <1>2, <1>4, <1>5

LEMMA PushEffect ==
  ASSUME Shape, NEW b \in Builders, Push(b)
  PROVE  /\ Moves(b)
         /\ Keeps(b, {"todo", "cell", "warm", "force", "flavour", "core", "spec"})
         /\ build[b].phase = "append" /\ build'[b].phase = "stop" /\ torn' = FALSE
         /\ layout' = Append(build[b].read,
                         [name |-> ImageName(Item(b)), key |-> BundleKey(Item(b)),
                          spec |-> build[b].spec, digest |-> build[b].digest])
<1>1. IsBuild(build[b])
  BY DEF Shape
<1> DEFINE x == [build[b] EXCEPT !.phase = "stop", !.ok = TRUE, !.read = <<>>,
                                 !.digest = NoDigest]
<1>2. IsBuild(x) /\ x.phase = "stop"
      /\ \A f \in {"todo", "cell", "warm", "force", "flavour", "core", "spec"} : x[f] = build[b][f]
  BY <1>1 DEF IsBuild, HasFields, BuildFields
<1>3. Become(b, x) /\ build[b].phase = "append" /\ torn' = FALSE
  BY DEF Push
<1>4. layout' = Append(build[b].read,
                   [name |-> ImageName(Item(b)), key |-> BundleKey(Item(b)),
                    spec |-> build[b].spec, digest |-> build[b].digest])
  BY DEF Push, AppendImage
<1> QED
  BY <1>2, <1>3, <1>4, Moving DEF Keeps

\* What a sub-build keeps to its end, and from which core it started.
Steady == {"todo", "cell", "warm", "force", "flavour", "core"}

\* The steps from the start of the container to the end of the sub-build.
LEMMA RunEffect ==
  ASSUME Shape, NEW b \in Builders,
         DockerRun(b) \/ Pack(b) \/ ContainerExits(b) \/ ReadBundle(b) \/ Push(b)
  PROVE  /\ Moves(b) /\ Keeps(b, Steady) /\ build'[b].spec = build[b].spec
         /\ build[b].phase \in {"mount", "pack", "exit", "read", "append"}
         /\ build'[b].phase \in {"pack", "exit", "read", "append", "stop"}
<1>1. CASE DockerRun(b)
  BY <1>1, DockerRunEffect DEF Keeps, Steady
<1>2. CASE Pack(b)
  BY <1>2, PackEffect DEF Keeps, Steady
<1>3. CASE ContainerExits(b)
  BY <1>3, ContainerExitsEffect DEF Keeps, Steady
<1>4. CASE ReadBundle(b)
  BY <1>4, ReadBundleEffect DEF Keeps, Steady
<1>5. CASE Push(b)
  BY <1>5, PushEffect DEF Keeps, Steady
<1> QED
  BY <1>1, <1>2, <1>3, <1>4, <1>5

\* The end of a cell, or the next sub-build.
LEMMA EndItemEffect ==
  ASSUME Shape, NEW b \in Builders, EndItem(b)
  PROVE  /\ Moves(b)
         /\ build[b].phase = "stop"
         /\ \/ build'[b].phase = "idle" /\ build'[b].core = NoDigest
            \/ /\ build'[b].phase = "resolve" /\ ~IsExt(Item(b))
               /\ Keeps(b, {"todo", "cell", "warm", "force", "flavour", "core"})
            \/ /\ build'[b].phase = "probe"
               /\ Keeps(b, {"cell", "warm", "force", "flavour", "core"})
               /\ IsExt(Item(b)) /\ Len(build[b].todo) # 1
               /\ build'[b].todo = Tail(build[b].todo)
<1>1. IsBuild(build[b]) /\ build[b].phase = "stop"
  BY DEF Shape, EndItem
<1> DEFINE x == [build[b] EXCEPT !.phase = "resolve"]
           y == NextItem(b)
<1>2. \/ Become(b, Idle)
      \/ Become(b, x) /\ ~IsExt(Item(b))
      \/ Become(b, y) /\ IsExt(Item(b)) /\ Len(build[b].todo) # 1
  <2> DEFINE st == IF ~build[b].ok THEN Idle
                   ELSE IF ~IsExt(Item(b)) THEN x
                   ELSE IF Len(build[b].todo) = 1 THEN Idle
                   ELSE y
  <2>1. Become(b, st)
    BY DEF EndItem
  <2>2. \/ st = Idle
        \/ st = x /\ ~IsExt(Item(b))
        \/ st = y /\ IsExt(Item(b)) /\ Len(build[b].todo) # 1
    <3> HIDE DEF x, y
    <3> QED
      OBVIOUS
  <2> HIDE DEF st, x, y
  <2> QED
    BY <2>1, <2>2
<1>3. IsBuild(x) /\ x.phase = "resolve" /\ \A f \in {"todo", "cell", "warm", "force", "flavour", "core"} : x[f] = build[b][f]
  BY <1>1 DEF IsBuild, HasFields, BuildFields
<1>4. /\ IsBuild(y) /\ y.phase = "probe" /\ y.todo = Tail(build[b].todo)
      /\ \A f \in {"cell", "warm", "force", "flavour", "core"} : y[f] = build[b][f]
  BY <1>1 DEF IsBuild, HasFields, BuildFields, NextItem
<1>5. CASE Become(b, Idle)
  BY <1>1, <1>5, IdleIsBuild, Moving
<1>6. CASE Become(b, x) /\ ~IsExt(Item(b))
  BY <1>1, <1>3, <1>6, Moving DEF Keeps
<1>7. CASE Become(b, y) /\ IsExt(Item(b)) /\ Len(build[b].todo) # 1
  BY <1>1, <1>4, <1>7, Moving DEF Keeps
<1> QED
  BY <1>2, <1>5, <1>6, <1>7

LEMMA ResolveCoreEffect ==
  ASSUME Shape, NEW b \in Builders, ResolveCore(b)
  PROVE  /\ Moves(b)
         /\ build[b].phase = "resolve"
         /\ \/ build'[b].phase = "idle" /\ build'[b].core = NoDigest
            \/ /\ build'[b].phase = "probe" /\ Keeps(b, {"cell", "warm", "force", "flavour"})
               /\ build'[b].core = LookupBySpec(layout, <<"php-core">>,
                                               ComputeSpecHash(Item(b), Trees[tree]))
               /\ build'[b].core # NoDigest
               /\ Len(build[b].todo) # 1 /\ build'[b].todo = Tail(build[b].todo)
<1>1. IsBuild(build[b]) /\ build[b].phase = "resolve"
  BY DEF Shape, ResolveCore
<1> DEFINE core == LookupBySpec(layout, <<"php-core">>, ComputeSpecHash(Item(b), Trees[tree]))
           y == [NextItem(b) EXCEPT !.core = core]
<1>2. \/ Become(b, Idle)
      \/ Become(b, y) /\ core # NoDigest /\ Len(build[b].todo) # 1
  <2> DEFINE st == IF core = NoDigest \/ Len(build[b].todo) = 1 THEN Idle ELSE y
  <2>1. Become(b, st)
    BY DEF ResolveCore
  <2>2. \/ st = Idle
        \/ st = y /\ core # NoDigest /\ Len(build[b].todo) # 1
    <3> HIDE DEF y, core
    <3> QED
      OBVIOUS
  <2> HIDE DEF st, y, core
  <2> QED
    BY <2>1, <2>2
<1>3. /\ IsBuild(y) /\ y.phase = "probe" /\ y.todo = Tail(build[b].todo)
      /\ y.core = core /\ \A f \in {"cell", "warm", "force", "flavour"} : y[f] = build[b][f]
  <2> HIDE DEF core
  <2> QED
    BY <1>1 DEF IsBuild, HasFields, BuildFields, NextItem
<1>4. CASE Become(b, Idle)
  BY <1>1, <1>4, IdleIsBuild, Moving
<1>5. CASE Become(b, y) /\ core # NoDigest /\ Len(build[b].todo) # 1
  BY <1>1, <1>3, <1>5, Moving DEF Keeps
<1> QED
  BY <1>2, <1>4, <1>5

LEMMA PrepareOutDirEffect ==
  ASSUME Shape, NEW b \in Builders, PrepareOutDir(b)
  PROVE  /\ build' = [c \in Builders |-> build'[c]]
         /\ \A c \in Builders : IsBuild(build'[c])
         /\ build[b].phase = "prepare" /\ build'[b].phase = "mount"
         /\ Keeps(b, BuildFields \ {"phase"})
         /\ \A c \in Builders \ {b} :
               /\ Keeps(c, BuildFields \ {"mounted"})
               /\ build'[c].mounted # build[c].mounted => SlugOf(c) = SlugOf(b)
<1> DEFINE x == [build[b] EXCEPT !.phase = "mount"]
           y(c) == [build[c] EXCEPT !.mounted = FALSE]
           hit(c) == build[c].mounted /\ SlugOf(c) = SlugOf(b)
<1>1. \A c \in Builders : IsBuild(build[c])
  BY DEF Shape
<1>2. /\ IsBuild(x) /\ x.phase = "mount"
      /\ \A f \in BuildFields \ {"phase"} : x[f] = build[b][f]
  BY <1>1 DEF IsBuild, HasFields, BuildFields
<1>3. \A c \in Builders : /\ IsBuild(y(c))
                          /\ \A f \in BuildFields \ {"mounted"} : y(c)[f] = build[c][f]
  BY <1>1 DEF IsBuild, HasFields, BuildFields
<1>4. /\ build' = [c \in Builders |-> IF c = b THEN x ELSE IF hit(c) THEN y(c) ELSE build[c]]
      /\ build[b].phase = "prepare"
  BY DEF PrepareOutDir
<1>5. build'[b] = x
  BY <1>4
<1>6. ASSUME NEW c \in Builders \ {b}
      PROVE  /\ IsBuild(build'[c])
             /\ Keeps(c, BuildFields \ {"mounted"})
             /\ build'[c].mounted # build[c].mounted => SlugOf(c) = SlugOf(b)
  <2>1. IF hit(c) THEN build'[c] = y(c) ELSE build'[c] = build[c]
    BY <1>4
  <2> HIDE DEF y
  <2> QED
    BY <2>1, <1>1, <1>3 DEF Keeps
<1> HIDE DEF x, y
<1> QED
  BY <1>2, <1>4, <1>5, <1>6 DEF Keeps

LEMMA FailEffect ==
  ASSUME Shape, NEW b \in Builders, Fail(b)
  PROVE  /\ Moves(b)
         /\ Keeps(b, {"todo", "cell", "warm", "force", "flavour", "core"})
         /\ build[b].phase \notin {"idle", "stop"} /\ build'[b].phase = "stop"
         /\ HasFields(past', PastFields)
         /\ \A f \in PastFields \ {"faults"} : past'[f] = past[f]
<1> DEFINE x == [build[b] EXCEPT !.phase = "stop", !.ok = FALSE, !.mounted = FALSE,
                                 !.read = <<>>, !.digest = NoDigest]
<1>1. IsBuild(build[b]) /\ HasFields(past, PastFields)
  BY DEF Shape
<1>2. /\ IsBuild(x) /\ x.phase = "stop"
      /\ \A f \in {"todo", "cell", "warm", "force", "flavour", "core"} : x[f] = build[b][f]
  BY <1>1 DEF IsBuild, HasFields, BuildFields
<1>3. /\ Become(b, x) /\ build[b].phase \notin {"idle", "stop"}
      /\ past' = [past EXCEPT !.faults = @ + 1]
  BY DEF Fail
<1>4. /\ HasFields(past', PastFields)
      /\ \A f \in PastFields \ {"faults"} : past'[f] = past[f]
  BY <1>1, <1>3 DEF HasFields, PastFields
<1> QED
  BY <1>2, <1>3, <1>4, Moving DEF Keeps

LEMMA KillEffect ==
  ASSUME Shape, NEW b \in Builders, Kill(b)
  PROVE  /\ Moves(b)
         /\ build[b].phase # "idle" /\ build'[b].phase = "idle" /\ build'[b].core = NoDigest
         /\ HasFields(past', PastFields)
         /\ past'.kills = past.kills + 1
         /\ \A f \in PastFields \ {"kills"} : past'[f] = past[f]
         /\ UNCHANGED <<layout, torn>>
            \/ (build[b].phase = "append" /\ layout' = <<>> /\ torn' = TRUE)
<1>1. HasFields(past, PastFields)
  BY DEF Shape
<1>2. /\ Become(b, Idle) /\ build[b].phase # "idle"
      /\ past' = [past EXCEPT !.kills = @ + 1]
      /\ UNCHANGED <<layout, torn>>
         \/ (build[b].phase = "append" /\ layout' = <<>> /\ torn' = TRUE)
  BY DEF Kill, Become
<1>3. /\ HasFields(past', PastFields) /\ past'.kills = past.kills + 1
      /\ \A f \in PastFields \ {"kills"} : past'[f] = past[f]
  BY <1>1, <1>2 DEF HasFields, PastFields
<1> QED
  BY <1>2, <1>3, IdleIsBuild, Moving

LEMMA EditTreeEffect ==
  ASSUME Shape, EditTree
  PROVE  /\ UNCHANGED build
         /\ tree < Len(Trees) /\ tree' = tree + 1
         /\ HasFields(past', PastFields)
         /\ \A f \in PastFields \ {"edited"} : past'[f] = past[f]
         /\ past'.edited = (past.edited \/ Live # {})
<1>1. HasFields(past, PastFields)
  BY DEF Shape
<1>2. past' = [past EXCEPT !.edited = @ \/ Live # {}]
  BY DEF EditTree
<1>3. past'.edited = (past.edited \/ Live # {})
  BY <1>1, <1>2, Zenon DEF HasFields, PastFields
<1>4. /\ HasFields(past', PastFields)
      /\ \A f \in PastFields \ {"edited"} : past'[f] = past[f]
  BY <1>1, <1>2 DEF HasFields, PastFields
<1> QED
  BY <1>3, <1>4 DEF EditTree

-----------------------------------------------------------------------------
(* Shapes and cells. *)

LEMMA ShapeInit == Init => Shape
<1> SUFFICES ASSUME Init PROVE Shape
  OBVIOUS
<1>1. build = [b \in Builders |-> Idle]
  BY DEF Init
<1>2. HasFields(past, PastFields) /\ past.kills = 0
      /\ ~past.overlap /\ ~past.clash /\ ~past.edited
      /\ {past.overlap, past.clash, past.edited} \subseteq BOOLEAN
  BY DEF Init, HasFields, PastFields
<1>3. past.kills \in Nat /\ {past.overlap, past.clash, past.edited} \subseteq BOOLEAN
  BY <1>2
<1>4. build = [b \in Builders |-> build[b]] /\ \A b \in Builders : IsBuild(build[b])
  BY <1>1, IdleIsBuild
<1> QED
  BY <1>2, <1>3, <1>4 DEF Shape

\* A step of one process, of those it takes by itself.
LEMMA WorkShape ==
  ASSUME Shape, NEW b \in Builders, Work(b)
  PROVE  /\ build' = [c \in Builders |-> build'[c]]
         /\ \A c \in Builders : IsBuild(build'[c])
         /\ UNCHANGED <<past, tree>>
<1>1. UNCHANGED <<past, tree>>
  BY DEF Work, Probe, SweepStaleSidecars, StartSidecar, SeedCore, PrepareOutDir, DockerRun,
         Pack, ContainerExits, ReadBundle, Push, EndItem, ResolveCore
<1>2. CASE PrepareOutDir(b)
  BY <1>1, <1>2, PrepareOutDirEffect
<1>3. CASE SweepStaleSidecars(b) \/ StartSidecar(b) \/ SeedCore(b)
  <2>1. PICK phase : Goto(b, phase)
    BY <1>3 DEF SweepStaleSidecars, StartSidecar, SeedCore
  <2> QED
    BY <1>1, <2>1, GotoEffect DEF Moves, Shape
<1>4. ASSUME Moves(b)
      PROVE  build' = [c \in Builders |-> build'[c]] /\ \A c \in Builders : IsBuild(build'[c])
  BY <1>4 DEF Moves, Shape
<1> QED
  BY <1>1, <1>2, <1>3, <1>4, ProbeEffect, DockerRunEffect, PackEffect, ContainerExitsEffect,
     ReadBundleEffect, PushEffect, EndItemEffect, ResolveCoreEffect DEF Work

LEMMA ShapeStep == Shape /\ [Next]_vars => Shape'
<1> SUFFICES ASSUME Shape, [Next]_vars PROVE Shape'
  OBVIOUS
<1>1. CASE UNCHANGED <<build, past>>
  BY <1>1 DEF Shape, IsBuild, HasFields
<1>2. ASSUME NEW b \in Builders, Moves(b), HasFields(past', PastFields), past'.kills \in Nat,
             {past'.overlap, past'.clash, past'.edited} \subseteq BOOLEAN
      PROVE  Shape'
  <2>1. build' = [c \in Builders |-> build'[c]] /\ \A c \in Builders : IsBuild(build'[c])
    BY <1>2 DEF Moves, Shape
  <2> QED
    BY <1>2, <2>1 DEF Shape, IsBuild, HasFields
<1>3. ASSUME NEW b \in Builders, Work(b)
      PROVE  Shape'
  BY <1>3, WorkShape DEF Shape, IsBuild, HasFields
<1>4. ASSUME NEW b \in Builders, NEW c \in Cells, NEW f \in Flavours, NEW force \in Forces,
             Begin(b, c, f, force)
      PROVE  Shape'
  <2>1. {past'.overlap, past'.clash, past'.edited} \subseteq BOOLEAN
    BY <1>4, BeginEffect DEF Shape
  <2> QED
    BY <1>2, <1>4, <2>1, BeginEffect DEF Shape
<1>5. ASSUME NEW b \in Builders, Fail(b) \/ Kill(b)
      PROVE  Shape'
  <2>1. /\ Moves(b) /\ HasFields(past', PastFields)
        /\ \A f \in {"overlap", "clash", "edited"} : past'[f] = past[f]
        /\ past'.kills \in {past.kills, past.kills + 1}
    BY <1>5, FailEffect, KillEffect DEF PastFields
  <2> QED
    BY <1>2, <2>1 DEF Shape
<1>6. CASE EditTree
  <2>1. {past'.overlap, past'.clash, past'.edited} \subseteq BOOLEAN /\ past'.kills = past.kills
    BY <1>6, EditTreeEffect DEF Shape, PastFields
  <2> QED
    BY <1>6, <2>1, EditTreeEffect DEF Shape, IsBuild, HasFields
<1>7. CASE OrphanExits \/ UNCHANGED vars
  BY <1>1, <1>7 DEF OrphanExits, vars
<1> QED
  BY <1>3, <1>4, <1>5, <1>6, <1>7 DEF Next

\* What is built for a cell is of the catalog, and the core comes first.
LEMMA DiscoveredAreCells ==
  ASSUME NEW t \in DOMAIN Trees, NEW php, NEW o, NEW a, NEW ts
  PROVE  LET S == DiscoverExtensionsForCell(Trees[t].catalog, php, o, a, ts)
         IN  IsFiniteSet(S) /\ S \subseteq AllCells(Trees[t].catalog)
  BY CatalogAssumption, DiscoveredOfCatalog

LEMMA ItemsAreCells ==
  ASSUME NEW t \in DOMAIN Trees, NEW core \in Cells
  PROVE  LET items == ItemsOf(core, Trees[t].catalog)
         IN  /\ items \in Seq(AllCells(Trees[t].catalog)) /\ items # <<>>
             /\ items[1] = core /\ ~IsExt(core)
<1>1. IsCatalog(Trees[t].catalog) /\ core \in ExpandPHPMatrix(Trees[t].catalog)
  BY CatalogAssumption
<1> QED
  BY <1>1, ItemsOfCatalog

LEMMA TodoInit == Init => TodoInv
<1> SUFFICES ASSUME Init PROVE TodoInv
  OBVIOUS
<1>1. \A b \in Builders : build[b].phase = "idle"
  BY IdleIsBuild DEF Init
<1>2. tree \in DOMAIN Trees
  BY TreesAssumption DEF Init
<1> QED
  BY <1>1, <1>2 DEF TodoInv, HasTodo

\* The steps that change neither the list nor its head's kind.
LEMMA TodoKept ==
  ASSUME NEW b \in Builders, HasTodo(b), Keeps(b, {"todo", "flavour", "core"}),
         build[b].phase # "idle",
         build'[b].phase \in {"sweep", "start", "seed"} => IsExt(Item(b))
  PROVE  HasTodo(b)'
<1>1. build'[b].todo = build[b].todo /\ build'[b].flavour = build[b].flavour
      /\ build'[b].core = build[b].core
  BY DEF Keeps
<1>2. Item(b)' = Item(b)
  BY <1>1 DEF Item
<1> QED
  BY <1>1, <1>2 DEF HasTodo

LEMMA WorkTodo ==
  ASSUME Shape, TodoInv, NEW b \in Builders, Work(b)
  PROVE  \A c \in Builders : HasTodo(c)'
<1>1. HasTodo(b)
  BY DEF TodoInv
<1>2. ASSUME NEW c \in Builders, build'[c] = build[c]
      PROVE  HasTodo(c)'
  BY <1>2 DEF TodoInv, HasTodo, Item
<1>3. ASSUME Moves(b), HasTodo(b)'
      PROVE  \A c \in Builders : HasTodo(c)'
  BY <1>2, <1>3 DEF Moves
<1>4. CASE Probe(b)
  BY <1>1, <1>3, <1>4, ProbeEffect, TodoKept DEF Keeps
<1>5. CASE SweepStaleSidecars(b) \/ StartSidecar(b) \/ SeedCore(b)
  <2>1. PICK phase : Goto(b, phase)
    BY <1>5 DEF SweepStaleSidecars, StartSidecar, SeedCore
  <2>2. build[b].phase \in {"sweep", "start", "seed"}
    BY <1>5 DEF SweepStaleSidecars, StartSidecar, SeedCore
  <2>3. Keeps(b, {"todo", "flavour", "core"}) /\ Moves(b)
    BY <2>1, GotoEffect DEF Keeps, BuildFields
  <2> QED
    BY <1>1, <1>3, <2>2, <2>3, TodoKept DEF HasTodo
<1>6. CASE PrepareOutDir(b)
  <2>1. \A c \in Builders : Keeps(c, {"todo", "flavour", "core"})
    BY <1>6, PrepareOutDirEffect DEF Keeps, BuildFields
  <2>2. \A c \in Builders \ {b} : build'[c].phase = build[c].phase
    BY <1>6, PrepareOutDirEffect DEF Keeps, BuildFields
  <2>3. build[b].phase = "prepare" /\ build'[b].phase = "mount"
    BY <1>6, PrepareOutDirEffect
  <2>4. ASSUME NEW c \in Builders \ {b} PROVE HasTodo(c)'
    BY <2>1, <2>2, TodoKept DEF TodoInv, HasTodo
  <2> QED
    BY <1>1, <2>1, <2>3, <2>4, TodoKept
<1>7. CASE DockerRun(b) \/ Pack(b) \/ ContainerExits(b) \/ ReadBundle(b) \/ Push(b)
  <2>1. /\ Moves(b) /\ Keeps(b, {"todo", "flavour", "core"})
        /\ build[b].phase # "idle" /\ build'[b].phase \notin {"sweep", "start", "seed"}
    BY <1>7, RunEffect DEF Keeps, Steady
  <2> QED
    BY <1>1, <1>3, <2>1, TodoKept
<1>8. CASE EndItem(b) \/ ResolveCore(b)
  <2>1. /\ Moves(b) /\ build[b].phase # "idle"
        /\ \/ build'[b].phase = "idle"
           \/ build'[b].phase = "resolve" /\ Keeps(b, {"todo", "flavour", "core"})
           \/ /\ build'[b].phase = "probe" /\ build'[b].flavour = build[b].flavour
              /\ Len(build[b].todo) # 1 /\ build'[b].todo = Tail(build[b].todo)
              /\ build'[b].core # NoDigest
    <3>1. EndItem(b) /\ IsExt(Item(b)) => build[b].core # NoDigest
      BY <1>1, EndItemEffect DEF HasTodo
    <3>2. CASE EndItem(b)
      BY <3>1, <3>2, EndItemEffect DEF Keeps
    <3>3. CASE ResolveCore(b)
      BY <3>3, ResolveCoreEffect DEF Keeps
    <3> QED
      BY <1>8, <3>2, <3>3
  <2>2. CASE build'[b].phase = "idle"
    BY <1>3, <2>1, <2>2 DEF HasTodo
  <2>3. CASE build'[b].phase = "resolve"
    BY <1>1, <1>3, <2>1, <2>3, TodoKept
  <2>4. CASE build'[b].phase = "probe"
    <3>1. PICK t \in DOMAIN Trees : build[b].todo \in Seq(AllCells(Trees[t].catalog))
      BY <1>1, <2>1 DEF HasTodo
    <3>2. build'[b].todo \in Seq(AllCells(Trees[t].catalog)) /\ build'[b].todo # <<>>
      BY <1>1, <2>1, <2>4, <3>1, TailLeft DEF HasTodo
    <3>3. build'[b].flavour \in Flavours /\ build'[b].core # NoDigest
      BY <1>1, <2>1, <2>4 DEF HasTodo
    <3> QED
      BY <1>3, <2>1, <2>4, <3>2, <3>3 DEF HasTodo
  <2> QED
    BY <2>1, <2>2, <2>3, <2>4
<1> QED
  BY <1>4, <1>5, <1>6, <1>7, <1>8 DEF Work

LEMMA TodoStep == Shape /\ TodoInv /\ [Next]_vars => TodoInv'
<1> SUFFICES ASSUME Shape, TodoInv, [Next]_vars PROVE TodoInv'
  OBVIOUS
<1>1. ASSUME UNCHANGED build PROVE \A c \in Builders : HasTodo(c)'
  BY <1>1 DEF TodoInv, HasTodo, Item
<1>2. ASSUME NEW b \in Builders, Moves(b), HasTodo(b)'
      PROVE  \A c \in Builders : HasTodo(c)'
  BY <1>2 DEF Moves, TodoInv, HasTodo, Item
<1>3. ASSUME NEW b \in Builders, Work(b)
      PROVE  TodoInv'
  BY <1>3, WorkTodo, WorkShape DEF TodoInv
<1>4. ASSUME NEW b \in Builders, NEW c \in Cells, NEW f \in Flavours, NEW force \in Forces,
             Begin(b, c, f, force)
      PROVE  TodoInv'
  <2>1. /\ Moves(b) /\ build'[b].phase = "probe" /\ build'[b].flavour = f
        /\ build'[b].todo = ItemsOf(c, Trees[tree].catalog)
    BY <1>4, BeginEffect
  <2>2. tree \in DOMAIN Trees /\ tree' = tree
    BY <1>4 DEF TodoInv, Begin
  <2>3. /\ build'[b].todo \in Seq(AllCells(Trees[tree].catalog)) /\ build'[b].todo # <<>>
        /\ build'[b].todo[1] = c /\ ~IsExt(c)
    BY <2>1, <2>2, ItemsAreCells
  <2>4. HasTodo(b)'
    BY <2>1, <2>2, <2>3 DEF HasTodo, Item
  <2> QED
    BY <1>2, <2>1, <2>2, <2>4 DEF TodoInv
<1>5. ASSUME NEW b \in Builders, Fail(b) \/ Kill(b)
      PROVE  TodoInv'
  <2>1. tree' = tree
    BY <1>5 DEF Fail, Kill
  <2>2. Moves(b) /\ HasTodo(b)'
    <3>1. CASE Fail(b)
      <4>1. Keeps(b, {"todo", "flavour", "core"})
        BY <3>1, FailEffect DEF Keeps
      <4> QED
        BY <3>1, <4>1, FailEffect, TodoKept DEF TodoInv
    <3>2. CASE Kill(b)
      BY <3>2, KillEffect DEF HasTodo
    <3> QED
      BY <1>5, <3>1, <3>2
  <2> QED
    BY <1>2, <2>1, <2>2 DEF TodoInv
<1>6. CASE EditTree
  <2>1. UNCHANGED build /\ tree < Len(Trees) /\ tree' = tree + 1
    BY <1>6, EditTreeEffect
  <2>2. tree' \in DOMAIN Trees
    BY <2>1, TreesAssumption DEF TodoInv
  <2> QED
    BY <1>1, <2>1, <2>2 DEF TodoInv
<1>7. CASE OrphanExits \/ UNCHANGED vars
  BY <1>1, <1>7 DEF OrphanExits, vars, TodoInv
<1> QED
  BY <1>3, <1>4, <1>5, <1>6, <1>7 DEF Next

-----------------------------------------------------------------------------
(* Builds that do not overlap. *)

\* What processes that take no step keep, but for their containers' mounts.
LEMMA OthersKeep ==
  ASSUME Shape, NEW b \in Builders, Work(b)
  PROVE  /\ build[b].phase # "idle"
         /\ \A c \in Builders \ {b} : Keeps(c, BuildFields \ {"mounted"})
<1>1. ASSUME Moves(b)
      PROVE  \A c \in Builders \ {b} : Keeps(c, BuildFields \ {"mounted"})
  BY <1>1 DEF Moves, Keeps
<1>2. CASE SweepStaleSidecars(b) \/ StartSidecar(b) \/ SeedCore(b)
  <2>1. PICK phase : Goto(b, phase)
    BY <1>2 DEF SweepStaleSidecars, StartSidecar, SeedCore
  <2> QED
    BY <1>1, <1>2, <2>1, GotoEffect DEF SweepStaleSidecars, StartSidecar, SeedCore
<1>3. CASE PrepareOutDir(b)
  BY <1>3, PrepareOutDirEffect
<1> QED
  BY <1>1, <1>2, <1>3, ProbeEffect, DockerRunEffect, PackEffect, ContainerExitsEffect,
     ReadBundleEffect, PushEffect, EndItemEffect, ResolveCoreEffect DEF Work

\* Only Push changes the layout, and only ReadBundle takes a copy of it.
LEMMA WorkLayout ==
  ASSUME Shape, NEW b \in Builders, Work(b)
  PROVE  /\ UNCHANGED <<layout, torn>> \/ Push(b)
         /\ build'[b].phase = "append" =>
               build'[b].read = layout /\ UNCHANGED <<layout, torn>> /\ ~torn
<1>1. UNCHANGED <<layout, torn>> \/ Push(b)
  BY DEF Work, Probe, SweepStaleSidecars, StartSidecar, SeedCore, PrepareOutDir, DockerRun,
         Pack, ContainerExits, ReadBundle, EndItem, ResolveCore
<1>2. CASE SweepStaleSidecars(b) \/ StartSidecar(b) \/ SeedCore(b)
  <2>1. PICK phase : Goto(b, phase) /\ phase # "append" /\ ~Push(b)
    BY <1>2 DEF SweepStaleSidecars, StartSidecar, SeedCore, Push
  <2> QED
    BY <1>1, <2>1, GotoEffect
<1>3. CASE ReadBundle(b)
  BY <1>1, <1>3, ReadBundleEffect DEF Push
<1> QED
  BY <1>1, <1>2, <1>3, ProbeEffect, DockerRunEffect, PackEffect, ContainerExitsEffect,
     PrepareOutDirEffect, PushEffect, EndItemEffect, ResolveCoreEffect DEF Work

\* The other steps leave the layout, unless one is a kill in the write of it, and
\* bring no process to an append.
LEMMA RestLayout ==
  ASSUME Shape, [Next]_vars, ~\E c \in Builders : Work(c)
  PROVE  /\ \/ UNCHANGED <<layout, torn>>
            \/ /\ layout' = <<>> /\ torn' = TRUE /\ past'.kills > past.kills
               /\ \E c \in Builders : build[c].phase = "append" /\ Kill(c)
         /\ \A b \in Builders : build'[b].phase = "append" =>
               build[b].phase = "append" /\ build'[b].read = build[b].read
<1> DEFINE Stays == UNCHANGED <<layout, torn>>
           Cut == /\ layout' = <<>> /\ torn' = TRUE /\ past'.kills > past.kills
                  /\ \E c \in Builders : build[c].phase = "append" /\ Kill(c)
           Reads == \A b \in Builders : build'[b].phase = "append" =>
                       build[b].phase = "append" /\ build'[b].read = build[b].read
<1>1. ASSUME NEW c \in Builders, Moves(c), build'[c].phase # "append"
      PROVE  Reads
  BY <1>1 DEF Moves
<1>2. ASSUME NEW c \in Builders, NEW d \in Cells, NEW f \in Flavours, NEW force \in Forces,
             Begin(c, d, f, force)
      PROVE  Stays /\ Moves(c) /\ build'[c].phase # "append"
  <2>1. Stays
    BY <1>2 DEF Begin
  <2> QED
    BY <1>2, <2>1, BeginEffect
<1>3. ASSUME NEW c \in Builders, Fail(c)
      PROVE  Stays /\ Moves(c) /\ build'[c].phase # "append"
  <2>1. Stays
    BY <1>3 DEF Fail
  <2> QED
    BY <1>3, <2>1, FailEffect
<1>4. ASSUME NEW c \in Builders, Kill(c)
      PROVE  (Stays \/ Cut) /\ Moves(c) /\ build'[c].phase # "append"
  <2>1. past'.kills > past.kills
    <3> HIDE DEF Stays, Cut, Reads
    <3>1. past'.kills = past.kills + 1 /\ past.kills \in Nat
      BY <1>4, KillEffect DEF Shape
    <3> QED
      BY <3>1
  <2>2. CASE UNCHANGED <<layout, torn>>
    BY <1>4, <2>2, KillEffect
  <2>3. CASE build[c].phase = "append" /\ layout' = <<>> /\ torn' = TRUE
    <3>1. Cut
      BY <1>4, <2>1, <2>3
    <3> QED
      BY <1>4, <3>1, KillEffect
  <2> QED
    BY <1>4, <2>2, <2>3, KillEffect
<1>6. EditTree \/ OrphanExits \/ UNCHANGED vars => UNCHANGED <<layout, torn, build>>
  BY DEF EditTree, OrphanExits, vars
<1> HIDE DEF Stays, Cut, Reads
<1>7. (Stays \/ Cut) /\ Reads
  <2>1. UNCHANGED <<layout, torn, build>> => Stays /\ Reads
    BY DEF Stays, Reads
  <2> QED
    BY <1>1, <1>2, <1>3, <1>4, <1>6, <2>1 DEF Next
<1> QED
  BY <1>7 DEF Stays, Cut, Reads

\* Who is alive after a step was before, or has just begun.
LEMMA LiveStep ==
  ASSUME Shape, [Next]_vars
  PROVE  /\ ~past'.overlap => ~past.overlap
         /\ ~past'.overlap => \/ Live' \subseteq Live
                              \/ Live = {} /\ \E b \in Builders : Live' \subseteq {b}
<1>1. ASSUME NEW b \in Builders, build[b].phase # "idle",
             \A c \in Builders \ {b} : build'[c].phase = build[c].phase
      PROVE  Live' \subseteq Live
  BY <1>1 DEF Live
<1>2. ASSUME NEW b \in Builders, Work(b)
      PROVE  Live' \subseteq Live /\ past' = past
  <2>1. \A c \in Builders \ {b} : build'[c].phase = build[c].phase
    BY <1>2, OthersKeep DEF Keeps, BuildFields
  <2> QED
    BY <1>1, <1>2, <2>1, OthersKeep, WorkShape
<1>3. ASSUME NEW b \in Builders, NEW c \in Cells, NEW f \in Flavours, NEW force \in Forces,
             Begin(b, c, f, force)
      PROVE  /\ past'.overlap = (past.overlap \/ Live # {})
             /\ Live = {} => Live' \subseteq {b}
  BY <1>3, BeginEffect DEF Moves, Live
<1>4. ASSUME NEW b \in Builders, Fail(b) \/ Kill(b)
      PROVE  Live' \subseteq Live /\ past'.overlap = past.overlap
  <2>1. Moves(b) /\ build[b].phase # "idle" /\ past'.overlap = past.overlap
    BY <1>4, FailEffect, KillEffect DEF PastFields
  <2> QED
    BY <1>1, <2>1 DEF Moves
<1>5. CASE EditTree
  <2>1. UNCHANGED build /\ past'.overlap = past.overlap
    BY <1>5, EditTreeEffect DEF PastFields
  <2> QED
    BY <2>1 DEF Live
<1>6. CASE OrphanExits \/ UNCHANGED vars
  BY <1>6 DEF OrphanExits, vars, Live
<1>7. {past.overlap} \subseteq BOOLEAN
  BY DEF Shape
<1> QED
  BY <1>2, <1>3, <1>4, <1>5, <1>6, <1>7 DEF Next

LEMMA AloneInit == Init => AloneInv
<1> SUFFICES ASSUME Init PROVE AloneInv
  OBVIOUS
<1>1. \A b \in Builders : build[b].phase = "idle"
  BY IdleIsBuild DEF Init
<1>2. layout \in Seq({}) /\ torn = FALSE
  BY DEF Init
<1> QED
  BY <1>1, <1>2 DEF AloneInv, Live

LEMMA AloneStep == Shape /\ AloneInv /\ [Next]_vars => AloneInv'
<1> SUFFICES ASSUME Shape, AloneInv, [Next]_vars PROVE AloneInv'
  OBVIOUS
<1>1. ASSUME ~past'.overlap
      PROVE  ~past.overlap /\ \A b, c \in Live' : b = c
  BY <1>1, LiveStep DEF AloneInv
<1>2. CASE \E b \in Builders : Work(b)
  <2>1. PICK b \in Builders : Work(b)
    BY <1>2
  <2>2. ASSUME NEW c \in Builders \ {b}
        PROVE  build'[c].phase = build[c].phase /\ build'[c].read = build[c].read
    BY <2>1, OthersKeep DEF Keeps, BuildFields
  <2>3. \A c \in Builders : build'[c].phase = "append" => \E S : build'[c].read \in Seq(S)
    BY <2>1, <2>2, WorkLayout DEF AloneInv
  <2>4. CASE UNCHANGED <<layout, torn>>
    <3>1. \A c \in Builders : build'[c].phase = "append" /\ ~past'.overlap =>
              build'[c].read = layout /\ ~torn
      BY <1>1, <2>1, <2>2, WorkLayout DEF AloneInv
    <3> QED
      BY <1>1, <2>3, <2>4, <3>1 DEF AloneInv
  <2>5. CASE Push(b)
    <3>1. PICK S : build[b].read \in Seq(S)
      BY <2>5, PushEffect DEF AloneInv
    <3>2. PICK m : layout' = Append(build[b].read, m)
      BY <2>5, PushEffect
    <3>3. layout' \in Seq(S \union {m}) /\ torn' = FALSE
      BY <2>5, <3>1, <3>2, Appended, PushEffect
    <3>4. ASSUME ~past'.overlap, NEW c \in Builders
          PROVE  build'[c].phase # "append"
      <4>1. CASE c = b
        BY <2>5, <4>1, PushEffect
      <4>2. CASE c # b
        <5>1. c \notin Live
          BY <1>1, <2>1, <3>4, <4>2, OthersKeep DEF AloneInv, Live
        <5> QED
          BY <2>2, <4>2, <5>1 DEF Live
      <4> QED
        BY <4>1, <4>2
    <3> QED
      BY <1>1, <2>3, <3>3, <3>4 DEF AloneInv
  <2> QED
    BY <2>1, <2>4, <2>5, WorkLayout
<1>3. CASE ~\E b \in Builders : Work(b)
  <2>1. \A b \in Builders : build'[b].phase = "append" =>
              build[b].phase = "append" /\ build'[b].read = build[b].read
    BY <1>3, RestLayout
  <2>2. CASE UNCHANGED <<layout, torn>>
    BY <1>1, <2>1, <2>2 DEF AloneInv
  <2>3. CASE \E c \in Builders : Kill(c) /\ layout' = <<>> /\ torn' = TRUE
    <3>1. PICK c \in Builders : Kill(c)
      BY <2>3
    <3>2. layout' \in Seq({}) /\ layout' = <<>> /\ torn' = TRUE
      BY <2>3
    <3>3. ASSUME ~past'.overlap, NEW d \in Builders
          PROVE  build'[d].phase # "append"
      <4>1. Moves(c) /\ build[c].phase # "idle" /\ build'[c].phase = "idle"
        BY <3>1, KillEffect
      <4>2. CASE d # c
        <5>1. build'[d] = build[d] /\ d \notin Live
          BY <1>1, <3>3, <4>1, <4>2 DEF AloneInv, Live, Moves
        <5> QED
          BY <5>1 DEF Live
      <4> QED
        BY <4>1, <4>2
    <3> QED
      BY <1>1, <2>1, <3>2, <3>3 DEF AloneInv
  <2> QED
    BY <1>3, <2>2, <2>3, RestLayout
<1> QED
  BY <1>2, <1>3

LEMMA AloneInvariant == Spec => [](Shape /\ AloneInv)
<1>1. Init => Shape /\ AloneInv
  BY ShapeInit, AloneInit
<1>2. Shape /\ AloneInv /\ [Next]_vars => (Shape /\ AloneInv)'
  BY ShapeStep, AloneStep
<1> QED
  BY <1>1, <1>2, PTL DEF Spec

\* Builds that do not overlap never lose what the layout held, but by a kill in the
\* write of its index, on which nothing is written any more (Push).
THEOREM IndexIsKept == Spec => IndexGrows
<1> DEFINE Appends == /\ ~torn /\ ~torn'
                      /\ Len(layout') = Len(layout) + 1
                      /\ SubSeq(layout', 1, Len(layout)) = layout
           Cut == ~torn /\ torn' /\ past'.kills > past.kills
           Grows == ~past'.overlap => UNCHANGED <<layout, torn>> \/ Appends \/ Cut
<1>1. Shape /\ AloneInv /\ [Next]_vars => [Grows]_vars
  <2> SUFFICES ASSUME Shape, AloneInv, [Next]_vars, ~past'.overlap,
                      ~UNCHANGED <<layout, torn>>
               PROVE  Appends \/ Cut
    OBVIOUS
  <2>1. ~past.overlap
    BY LiveStep
  <2>2. CASE \E b \in Builders : Work(b)
    <3>1. PICK b \in Builders : Work(b)
      BY <2>2
    <3>2. Push(b)
      BY <3>1, WorkLayout
    <3>3. ~torn /\ torn' = FALSE
      BY <2>1, <3>2, PushEffect DEF AloneInv
    <3>4. PICK m : layout' = Append(layout, m)
      BY <2>1, <3>2, PushEffect DEF AloneInv
    <3>5. PICK S : layout \in Seq(S)
      BY DEF AloneInv
    <3> QED
      BY <3>3, <3>4, <3>5, Appended, PrefixOfAppend
  <2>3. CASE ~\E b \in Builders : Work(b)
    <3>1. torn' = TRUE /\ past'.kills > past.kills
          /\ \E c \in Builders : build[c].phase = "append"
      BY <2>3, RestLayout
    <3> QED
      BY <2>1, <3>1 DEF AloneInv
  <2> QED
    BY <2>2, <2>3
<1> QED
  BY <1>1, AloneInvariant, PTL DEF Spec, IndexGrows

-----------------------------------------------------------------------------
(* Sidecars. *)

LEMMA SidecarInit == Init => SidecarInv
<1> SUFFICES ASSUME Init PROVE SidecarInv
  OBVIOUS
<1>1. sidecars = {} /\ \A b \in Builders : build[b].phase = "idle"
  BY IdleIsBuild DEF Init
<1> QED
  BY <1>1 DEF SidecarInv, SidecarsOwned, IsServed, Linking

\* A step of a process adds at most a sidecar of its own, while it has the use of
\* it, and takes its own away at the end of the sub-build or loses it.
LEMMA WorkOwned ==
  ASSUME Shape, SidecarsOwned, NEW b \in Builders, Work(b)
  PROVE  SidecarsOwned'
<1>1. /\ past' = past
      /\ \A c \in Builders \ {b} : build'[c].phase = build[c].phase
  BY WorkShape, OthersKeep DEF Keeps, BuildFields
<1>2. ASSUME \A s \in sidecars' : s \in sidecars \/ s.owner = Lost,
             build[b].phase \in Busy => build'[b].phase \in Busy
      PROVE  SidecarsOwned'
  BY <1>1, <1>2 DEF SidecarsOwned
<1>3. ASSUME \A s \in sidecars' : s \in sidecars \/ s.owner = b, build'[b].phase \in Busy
      PROVE  SidecarsOwned'
  BY <1>1, <1>3 DEF SidecarsOwned
<1>4. CASE Probe(b) \/ ResolveCore(b)
  <2>1. sidecars' = sidecars
    BY <1>4 DEF Probe, ResolveCore
  <2>2. build[b].phase \notin Busy
    BY <1>4 DEF Probe, ResolveCore, Linking, Busy
  <2> QED
    BY <1>2, <2>1, <2>2
<1>5. CASE SweepStaleSidecars(b)
  <2>1. \A s \in sidecars' : s \in sidecars \/ s.owner = Lost
    BY <1>5 DEF SweepStaleSidecars, Left
  <2>2. build[b].phase \notin Busy
    BY <1>5 DEF SweepStaleSidecars, Linking, Busy
  <2> QED
    BY <1>2, <2>1, <2>2
<1>6. CASE StartSidecar(b)
  <2>1. build'[b].phase = "seed"
    BY <1>6, GotoEffect DEF StartSidecar
  <2>2. \A s \in sidecars' : s \in sidecars \/ s.owner = b
    BY <1>6 DEF StartSidecar
  <2> QED
    BY <1>3, <2>1, <2>2 DEF Busy
<1>7. CASE SeedCore(b)
  <2>1. build'[b].phase \in {"prepare", "stop"}
    BY <1>7, GotoEffect DEF SeedCore
  <2>2. \A s \in sidecars' : s \in sidecars \/ s.owner = b
    BY <1>7 DEF SeedCore
  <2> QED
    BY <1>3, <2>1, <2>2 DEF Linking, Busy
<1>8. CASE PrepareOutDir(b) \/ DockerRun(b) \/ Pack(b) \/ ContainerExits(b)
           \/ ReadBundle(b) \/ Push(b)
  <2>1. sidecars' = sidecars
    BY <1>8 DEF PrepareOutDir, DockerRun, Pack, ContainerExits, ReadBundle, Push
  <2>2. build'[b].phase \in Busy
    BY <1>8, PrepareOutDirEffect, DockerRunEffect, PackEffect, ContainerExitsEffect,
       ReadBundleEffect, PushEffect DEF Linking, Busy
  <2> QED
    BY <1>2, <2>1, <2>2
<1>9. CASE EndItem(b)
  <2>1. \A s \in sidecars' : (s \in sidecars /\ s.owner # b) \/ s.owner = Lost
    BY <1>9 DEF EndItem, Own, Left
  <2> QED
    BY <1>1, <2>1 DEF SidecarsOwned
<1> QED
  BY <1>4, <1>5, <1>6, <1>7, <1>8, <1>9 DEF Work

\* What is seeded is the core that was resolved.
LEMMA FetchedIsAsked ==
  ASSUME NEW index, NEW name, NEW d, d # NoDigest,
         \E S : index \in Seq(S), Fetch(index, name, d) # NoDigest
  PROVE  Fetch(index, name, d) = d
<1> DEFINE N == Named(index, name, d)
           U == Unnamed(index, d)
<1>1. CASE N # {}
  <2>1. N \subseteq Nat
    BY DEF Named
  <2>2. \E i \in N : \A j \in N : i <= j
    <3>1. PICK k \in N : TRUE
      BY <1>1
    <3> QED
      BY <1>1, <2>1, SmallestIndex
  <2>3. FirstOf(N) \in N
    BY <2>2 DEF FirstOf
  <2>4. index[FirstOf(N)].digest = d
    BY <2>3 DEF Named
  <2>5. Fetch(index, name, d) = index[FirstOf(N)].digest
    BY <1>1 DEF Fetch
  <2> QED
    BY <2>4, <2>5
<1>2. CASE N = {} /\ U # {}
  BY <1>2 DEF Fetch
<1>3. CASE N = {} /\ U = {}
  BY <1>3 DEF Fetch
<1> QED
  BY <1>1, <1>2, <1>3

LEMMA WorkServed ==
  ASSUME Shape, TodoInv, AloneInv, ~past.overlap, SidecarsOwned, NEW b \in Builders,
         IsServed(b), Work(b)
  PROVE  IsServed(b)'
<1>1. ASSUME Keeps(b, {"todo", "core"}), sidecars' = sidecars, build'[b].phase \in Linking,
             build[b].phase \in Linking
      PROVE  IsServed(b)'
  BY <1>1 DEF IsServed, HasJust, Own, Keeps, Item, Linking
<1>2. ASSUME build'[b].phase \notin Linking \union {"start", "seed"}
      PROVE  IsServed(b)'
  BY <1>2 DEF IsServed, Linking
<1>3. CASE Probe(b)
  <2>1. build'[b].phase \in {"stop", "sweep", "prepare"}
        /\ (build'[b].phase = "prepare" => ~IsExt(Item(b))) /\ Item(b)' = Item(b)
    BY <1>3, ProbeEffect DEF Keeps, Item
  <2>2. build'[b].phase \in Linking => ~IsExt(Item(b)')
    BY <2>1 DEF Linking
  <2>3. build'[b].phase \notin {"start", "seed"}
    BY <2>1
  <2> QED
    BY <2>2, <2>3 DEF IsServed
<1>4. CASE SweepStaleSidecars(b) \/ StartSidecar(b)
  <2>1. CASE SweepStaleSidecars(b)
    <3>1. build'[b].phase = "start" /\ build[b].phase = "sweep"
      BY <2>1, GotoEffect DEF SweepStaleSidecars
    <3>2. ASSUME NEW s \in sidecars PROVE s.owner \in {Lost, Nobody}
      <4>1. CASE s.owner \in Builders /\ build[s.owner].phase \in Busy
        <5>1. s.owner = b
          BY <3>1, <4>1 DEF AloneInv, Live, Busy, Linking
        <5> QED
          BY <3>1, <4>1, <5>1 DEF Busy, Linking
      <4> QED
        BY <4>1 DEF SidecarsOwned
    <3>3. \A s \in sidecars' : s.owner = Lost
      BY <2>1, <3>2 DEF SweepStaleSidecars, Left
    <3>4. b # Lost
      BY NobodyAssumption
    <3>5. HasJust(b, {})'
      BY <3>3, <3>4 DEF HasJust, Own
    <3> QED
      BY <3>1, <3>5 DEF IsServed, Linking
  <2>2. CASE StartSidecar(b)
    <3>1. build'[b].phase = "seed" /\ build[b].phase = "start"
          /\ sidecars' = sidecars \union {[owner |-> b, core |-> NoDigest]}
      BY <2>2, GotoEffect DEF StartSidecar
    <3>2. HasJust(b, {})
      BY <3>1 DEF IsServed
    <3>3. HasJust(b, {[owner |-> b, core |-> NoDigest]})'
      BY <3>1, <3>2 DEF HasJust, Own
    <3> QED
      BY <3>1, <3>3 DEF IsServed, Linking
  <2> QED
    BY <1>4, <2>1, <2>2
<1>5. CASE SeedCore(b)
  <2> DEFINE found == Fetch(layout, <<"php-core">>, build[b].core)
  <2>1. CASE Goto(b, "stop")
    BY <1>2, <2>1, GotoEffect DEF Linking
  <2>2. CASE /\ found # NoDigest /\ Goto(b, "prepare")
             /\ sidecars' = (sidecars \ Own(b)) \union {[owner |-> b, core |-> found]}
    <3>1. build[b].phase = "seed" /\ HasJust(b, {[owner |-> b, core |-> NoDigest]})
      BY <1>5 DEF SeedCore, IsServed
    <3>2. build[b].core # NoDigest
      BY <3>1 DEF TodoInv, HasTodo
    <3>3. found = build[b].core
      BY <2>2, <3>2, FetchedIsAsked DEF AloneInv
    <3> HIDE DEF found
    <3>4. HasJust(b, {[owner |-> b, core |-> build[b].core]})'
      <4>1. build'[b].core = build[b].core
        BY <2>2, GotoEffect DEF Keeps, BuildFields
      <4> QED
        BY <2>2, <3>1, <3>3, <4>1 DEF HasJust, Own
    <3>5. build'[b].phase = "prepare"
      BY <2>2, GotoEffect
    <3> QED
      BY <3>4, <3>5 DEF IsServed
  <2> QED
    BY <1>5, <2>1, <2>2 DEF SeedCore
<1>6. CASE PrepareOutDir(b) \/ DockerRun(b) \/ Pack(b) \/ ContainerExits(b) \/ ReadBundle(b)
  <2>1. sidecars' = sidecars
    BY <1>6 DEF PrepareOutDir, DockerRun, Pack, ContainerExits, ReadBundle
  <2>2. CASE PrepareOutDir(b)
    BY <1>1, <2>1, <2>2, PrepareOutDirEffect DEF Keeps, BuildFields, Linking
  <2>3. CASE ~PrepareOutDir(b)
    <3>1. /\ Keeps(b, {"todo", "core"}) /\ build[b].phase \in Linking
          /\ build'[b].phase \in Linking \union {"stop"}
      BY <1>6, <2>3, DockerRunEffect, PackEffect, ContainerExitsEffect, ReadBundleEffect
         DEF Keeps, Linking
    <3> QED
      BY <1>1, <1>2, <2>1, <3>1 DEF Linking
  <2> QED
    BY <2>2, <2>3
<1>7. CASE Push(b) \/ EndItem(b) \/ ResolveCore(b)
  <2>1. build'[b].phase \in {"stop", "idle", "resolve", "probe"}
    BY <1>7, PushEffect, EndItemEffect, ResolveCoreEffect
  <2> QED
    BY <1>2, <2>1 DEF Linking
<1> QED
  BY <1>3, <1>4, <1>5, <1>6, <1>7 DEF Work

LEMMA SidecarStep ==
  Shape /\ TodoInv /\ AloneInv /\ AloneInv' /\ SidecarInv /\ [Next]_vars => SidecarInv'
<1> SUFFICES ASSUME Shape, TodoInv, AloneInv, AloneInv', SidecarInv, [Next]_vars
             PROVE  SidecarInv'
  OBVIOUS
<1>1. ~past'.overlap => ~past.overlap
  BY LiveStep
<1>2. CASE \E b \in Builders : Work(b)
  <2>1. PICK b \in Builders : Work(b)
    BY <1>2
  <2>2. ASSUME NEW c \in Builders \ {b}, ~past'.overlap
        PROVE  IsServed(c)'
    <3>1. build'[c].phase = "idle"
      BY <1>1, <2>1, <2>2, OthersKeep DEF AloneInv, Live, Keeps, BuildFields
    <3> QED
      BY <3>1 DEF IsServed, Linking
  <2> QED
    BY <1>1, <2>1, <2>2, WorkOwned, WorkServed DEF SidecarInv
<1>3. ASSUME NEW b \in Builders, NEW c \in Cells, NEW f \in Flavours, NEW force \in Forces,
             Begin(b, c, f, force)
      PROVE  SidecarInv'
  <2>1. /\ Moves(b) /\ build'[b].phase = "probe" /\ build[b].phase = "idle"
        /\ past'.kills = past.kills /\ sidecars' = sidecars
    BY <1>3, BeginEffect DEF Begin
  <2>2. SidecarsOwned'
    BY <2>1 DEF SidecarInv, SidecarsOwned, Moves, Linking, Busy
  <2>3. ASSUME NEW d \in Builders PROVE ~past'.overlap => IsServed(d)'
    <3>1. CASE d = b
      BY <2>1, <3>1 DEF IsServed, Linking
    <3>2. CASE d # b
      BY <1>1, <2>1, <3>2 DEF SidecarInv, IsServed, HasJust, Own, Moves, Item
    <3> QED
      BY <3>1, <3>2
  <2> QED
    BY <2>2, <2>3 DEF SidecarInv
<1>4. ASSUME NEW b \in Builders, Fail(b)
      PROVE  SidecarInv'
  <2>1. /\ Moves(b) /\ build'[b].phase = "stop" /\ past'.kills = past.kills
        /\ sidecars' = sidecars
    BY <1>4, FailEffect DEF Fail, PastFields
  <2>2. SidecarsOwned'
    BY <2>1 DEF SidecarInv, SidecarsOwned, Moves, Busy
  <2>3. ASSUME NEW d \in Builders PROVE ~past'.overlap => IsServed(d)'
    <3>1. CASE d = b
      BY <2>1, <3>1 DEF IsServed, Linking
    <3>2. CASE d # b
      BY <1>1, <2>1, <3>2 DEF SidecarInv, IsServed, HasJust, Own, Moves, Item
    <3> QED
      BY <3>1, <3>2
  <2> QED
    BY <2>2, <2>3 DEF SidecarInv
<1>5. ASSUME NEW b \in Builders, Kill(b)
      PROVE  SidecarInv'
  <2>1. Moves(b) /\ build[b].phase # "idle" /\ build'[b].phase = "idle"
        /\ past'.kills = past.kills + 1
    BY <1>5, KillEffect
  <2>2. SidecarsOwned'
    <3>1. \A s \in sidecars' : (s \in sidecars /\ s.owner # b) \/ s.owner = Nobody
      BY <1>5 DEF Kill, Own, Left
    <3>2. past'.kills > 0
      BY <2>1 DEF Shape
    <3> QED
      BY <2>1, <3>1, <3>2 DEF SidecarInv, SidecarsOwned, Moves
  <2>3. ASSUME NEW d \in Builders, ~past'.overlap PROVE IsServed(d)'
    <3>1. build'[d].phase = "idle"
      BY <1>1, <2>1, <2>3 DEF AloneInv, Live, Moves
    <3> QED
      BY <3>1 DEF IsServed, Linking
  <2> QED
    BY <2>2, <2>3 DEF SidecarInv
<1>6. CASE EditTree \/ OrphanExits \/ UNCHANGED vars
  <2>1. UNCHANGED <<build, sidecars>> /\ past'.kills = past.kills
    BY <1>6, EditTreeEffect DEF EditTree, OrphanExits, vars, PastFields
  <2> QED
    BY <1>1, <2>1 DEF SidecarInv, SidecarsOwned, IsServed, HasJust, Own, Item
<1> QED
  BY <1>2, <1>3, <1>4, <1>5, <1>6 DEF Next

\* While one process builds an extension alone, it has one sidecar, which serves the
\* core it resolved, and there is no other but those that docker did not remove; and
\* where nothing was killed, none but those outlives the builds (sweepStaleSidecars,
\* SeedCore, the deferred stop of BuildExt).
THEOREM SidecarsServeTheirOwn == Spec => []SidecarsAreOwn
<1> DEFINE Inv == Shape /\ TodoInv /\ AloneInv /\ SidecarInv
<1>1. Init => Inv
  BY ShapeInit, TodoInit, AloneInit, SidecarInit
<1>2. Inv /\ [Next]_vars => Inv'
  BY ShapeStep, TodoStep, AloneStep, SidecarStep
<1>3. Inv => SidecarsAreOwn
  <2> SUFFICES ASSUME Inv PROVE SidecarsAreOwn
    OBVIOUS
  <2>1. Live = {} /\ past.kills = 0 => \A s \in sidecars : s.owner = Lost
    BY DEF SidecarInv, SidecarsOwned, Live, Busy, Linking
  <2>2. \A b \in Builders :
           ~past.overlap /\ build[b].phase \in Linking /\ IsExt(Item(b))
              => /\ Own(b) = {[owner |-> b, core |-> build[b].core]}
                 /\ \A s \in sidecars \ Own(b) : s.owner = Lost
    BY DEF SidecarInv, IsServed, HasJust, Own
  <2> QED
    BY <2>1, <2>2 DEF SidecarsAreOwn, Linking
<1> QED
  BY <1>1, <1>2, <1>3, PTL DEF Spec

-----------------------------------------------------------------------------
(* Bundles and output directories. *)

LEMMA OutDirInit == Init => OutDirInv
<1> SUFFICES ASSUME Init PROVE OutDirInv
  OBVIOUS
<1>1. \A b \in Builders : build[b].phase = "idle"
  BY IdleIsBuild DEF Init
<1>2. /\ layout = <<>> /\ bundles \in Seq({}) /\ DOMAIN outDir = Slugs
  BY DEF Init
<1>3. Live = {} /\ \A b \in Builders : OwnDir(b)
  BY <1>1 DEF Live, OwnDir, Linking
<1> QED
  BY <1>2, <1>3 DEF OutDirInv, AsAnnotated

\* Directories of different flavours are different.
LEMMA SlugsDiffer ==
  ASSUME NEW b \in Builders, NEW c \in Builders, build[b].flavour # build[c].flavour
  PROVE  SlugOf(b) # SlugOf(c)
  BY DEF SlugOf, Slug

LEMMA SlugIsSlug ==
  ASSUME NEW b \in Builders, HasTodo(b), build[b].phase # "idle"
  PROVE  SlugOf(b) \in Slugs
<1>1. PICK t \in DOMAIN Trees : build[b].todo \in Seq(AllCells(Trees[t].catalog))
  BY DEF HasTodo
<1>2. build[b].todo # <<>> /\ build[b].flavour \in Flavours
  BY DEF HasTodo
<1>3. Item(b) \in AllCells(Trees[t].catalog)
  BY <1>1, <1>2 DEF Item
<1>4. SlugOf(b) \in {Slug(c, f) : c \in AllCells(Trees[t].catalog), f \in Flavours}
  BY <1>2, <1>3 DEF SlugOf
<1> QED
  BY <1>4 DEF Slugs

\* What a process does to the files that all share.
LEMMA WorkFiles ==
  ASSUME Shape, NEW b \in Builders, Work(b)
  PROVE  /\ tree' = tree /\ orphans' \subseteq orphans
         /\ DOMAIN outDir' = DOMAIN outDir
         /\ \A s \in DOMAIN outDir : s # SlugOf(b) => outDir'[s] = outDir[s]
         /\ \/ bundles' = bundles
            \/ \E r : bundles' = Append(bundles, r)
<1>1. ASSUME NEW s, NEW d, outDir' = [outDir EXCEPT ![s] = d], s = SlugOf(b)
      PROVE  /\ DOMAIN outDir' = DOMAIN outDir
             /\ \A u \in DOMAIN outDir : u # SlugOf(b) => outDir'[u] = outDir[u]
  BY <1>1
<1>2. outDir' = outDir \/ \E d : outDir' = [outDir EXCEPT ![SlugOf(b)] = d]
  BY DEF Work, Probe, SweepStaleSidecars, StartSidecar, SeedCore, PrepareOutDir, DockerRun,
         Pack, ContainerExits, ReadBundle, Push, EndItem, ResolveCore
<1>3. tree' = tree /\ orphans' \subseteq orphans
  BY DEF Work, Probe, SweepStaleSidecars, StartSidecar, SeedCore, PrepareOutDir, DockerRun,
         Pack, ContainerExits, ReadBundle, Push, EndItem, ResolveCore
<1>4. bundles' = bundles \/ \E r : bundles' = Append(bundles, r)
  BY DEF Work, Probe, SweepStaleSidecars, StartSidecar, SeedCore, PrepareOutDir, DockerRun,
         Pack, ContainerExits, ReadBundle, Push, EndItem, ResolveCore
<1> QED
  BY <1>1, <1>2, <1>3, <1>4

\* Containers are unmounted from the directory that is removed and no other.
LEMMA WorkMounts ==
  ASSUME Shape, NEW b \in Builders, Work(b), NEW c \in Builders \ {b}
  PROVE  build'[c].mounted = build[c].mounted \/ SlugOf(c) = SlugOf(b)
<1>1. CASE Moves(b)
  BY <1>1 DEF Moves
<1>2. CASE PrepareOutDir(b)
  BY <1>2, PrepareOutDirEffect
<1>3. CASE SweepStaleSidecars(b) \/ StartSidecar(b) \/ SeedCore(b)
  <2>1. PICK phase : Goto(b, phase)
    BY <1>3 DEF SweepStaleSidecars, StartSidecar, SeedCore
  <2> QED
    BY <1>1, <2>1, GotoEffect
<1> QED
  BY <1>1, <1>2, <1>3, ProbeEffect, DockerRunEffect, PackEffect, ContainerExitsEffect,
     ReadBundleEffect, PushEffect, EndItemEffect, ResolveCoreEffect DEF Work

\* Bundles are never taken away.
BundlesGrow ==
    /\ DOMAIN bundles \subseteq DOMAIN bundles'
    /\ \A d \in DOMAIN bundles : bundles'[d] = bundles[d]

LEMMA AppendGrows ==
  ASSUME OutDirInv, NEW r, bundles' = bundles \/ bundles' = Append(bundles, r)
  PROVE  BundlesGrow /\ \E S : bundles' \in Seq(S)
<1>1. PICK S : bundles \in Seq(S)
  BY DEF OutDirInv
<1>2. CASE bundles' = bundles
  BY <1>1, <1>2 DEF BundlesGrow
<1>3. CASE bundles' = Append(bundles, r)
  <2>1. bundles' \in Seq(S \union {r}) /\ DOMAIN bundles' = 1..(Len(bundles) + 1)
        /\ \A d \in DOMAIN bundles : bundles'[d] = bundles[d]
    BY <1>1, <1>3, Appended
  <2>2. DOMAIN bundles = 1..Len(bundles) /\ Len(bundles) \in Nat
    BY <1>1
  <2> QED
    BY <2>1, <2>2 DEF BundlesGrow
<1> QED
  BY <1>2, <1>3

\* What a process keeps while others take their steps.
LEMMA OwnDirKept ==
  ASSUME NEW c \in Builders, OwnDir(c), BundlesGrow, tree' = tree,
         Keeps(c, BuildFields \ {"mounted"}),
         build[c].phase \in {"pack", "exit"} => build'[c].mounted = build[c].mounted,
         build[c].phase = "read" => outDir'[SlugOf(c)] = outDir[SlugOf(c)],
         build[c].phase \in {"mount", "pack", "exit", "read"} =>
            \A o \in orphans' : o.slug # SlugOf(c)
  PROVE  OwnDir(c)'
<1>1. /\ build'[c].phase = build[c].phase /\ build'[c].spec = build[c].spec
      /\ build'[c].digest = build[c].digest /\ build'[c].read = build[c].read
      /\ build'[c].todo = build[c].todo /\ build'[c].flavour = build[c].flavour
  BY DEF Keeps, BuildFields
<1>2. Item(c)' = Item(c) /\ SlugOf(c)' = SlugOf(c)
  BY <1>1 DEF Item, SlugOf
<1>3. build[c].phase = "append" => AsAnnotated(build[c].read)' /\ IsOf(build[c].digest, build[c].spec)'
  BY <1>1 DEF OwnDir, AsAnnotated, IsOf, BundlesGrow
<1>4. build[c].phase = "exit" => IsOf(build[c].digest, build[c].spec)'
  BY <1>1 DEF OwnDir, IsOf, BundlesGrow
<1>5. build[c].phase = "read" => IsOf(outDir[SlugOf(c)], build[c].spec)'
  BY <1>1, <1>2 DEF OwnDir, IsOf, BundlesGrow
<1>6. build'[c].phase \in Linking \union {"sweep", "start", "seed"} =>
          build'[c].spec = ComputeSpecHash(Item(c)', Trees[tree'])
  BY <1>1, <1>2 DEF OwnDir
<1>7. build'[c].phase \in {"pack", "exit"} => build'[c].mounted
  BY <1>1 DEF OwnDir
<1>8. build'[c].phase \in {"mount", "pack", "exit", "read"} =>
          \A o \in orphans' : o.slug # SlugOf(c)'
  BY <1>1, <1>2
<1> QED
  BY <1>1, <1>3, <1>4, <1>5, <1>6, <1>7, <1>8 DEF OwnDir

\* Before the directory is removed the sub-build has nothing but its spec hash.
LEMMA OwnDirBefore ==
  ASSUME NEW b \in Builders,
         build'[b].phase \in {"sweep", "start", "seed", "prepare"} =>
            build'[b].spec = ComputeSpecHash(Item(b)', Trees[tree']),
         build'[b].phase \notin {"mount", "pack", "exit", "read", "append"}
  PROVE  OwnDir(b)'
  BY DEF OwnDir, Linking

LEMMA WorkOwnDir ==
  ASSUME Shape, TodoInv, OutDirInv, AsAnnotated(layout), NEW b \in Builders, OwnDir(b), Work(b)
  PROVE  OwnDir(b)'
<1>1. tree' = tree /\ build[b].phase # "idle" /\ SlugOf(b) \in DOMAIN outDir
  BY WorkFiles, OthersKeep, SlugIsSlug DEF OutDirInv, TodoInv
<1>2. ASSUME Keeps(b, {"todo", "flavour"})
      PROVE  Item(b)' = Item(b) /\ SlugOf(b)' = SlugOf(b)
  BY <1>2 DEF Keeps, Item, SlugOf
<1>3. CASE Probe(b)
  <2>1. Item(b)' = Item(b)
    BY <1>2, <1>3, ProbeEffect DEF Keeps
  <2> QED
    BY <1>1, <1>3, <2>1, ProbeEffect, OwnDirBefore
<1>4. CASE SweepStaleSidecars(b) \/ StartSidecar(b) \/ SeedCore(b)
  <2>1. PICK phase \in {"start", "seed", "prepare", "stop"} : Goto(b, phase)
    BY <1>4 DEF SweepStaleSidecars, StartSidecar, SeedCore
  <2>2. Keeps(b, BuildFields \ {"phase"}) /\ build'[b].phase = phase
    BY <2>1, GotoEffect
  <2>3. Item(b)' = Item(b) /\ build'[b].spec = build[b].spec
    BY <1>2, <2>2 DEF Keeps, BuildFields
  <2>4. build[b].spec = ComputeSpecHash(Item(b), Trees[tree])
    BY <1>4 DEF SweepStaleSidecars, StartSidecar, SeedCore, OwnDir
  <2> QED
    BY <1>1, <2>2, <2>3, <2>4, OwnDirBefore
<1>5. CASE EndItem(b) \/ ResolveCore(b)
  <2>1. build'[b].phase \in {"idle", "resolve", "probe"}
    BY <1>5, EndItemEffect, ResolveCoreEffect
  <2> QED
    BY <2>1 DEF OwnDir, Linking
<1>6. ASSUME Keeps(b, {"todo", "flavour", "spec"}), build[b].phase \in Linking
      PROVE  build'[b].spec = ComputeSpecHash(Item(b)', Trees[tree'])
  BY <1>1, <1>2, <1>6 DEF Keeps, OwnDir
<1>7. CASE PrepareOutDir(b)
  <2>1. /\ Keeps(b, {"todo", "flavour", "spec"}) /\ build[b].phase = "prepare"
        /\ build'[b].phase = "mount"
    BY <1>7, PrepareOutDirEffect DEF Keeps, BuildFields
  <2>2. \A o \in orphans' : o.slug # SlugOf(b)'
    BY <1>2, <1>7, <2>1 DEF PrepareOutDir, Keeps
  <2> QED
    BY <1>6, <2>1, <2>2 DEF OwnDir, Linking
<1>8. CASE DockerRun(b)
  <2>1. /\ Keeps(b, {"todo", "flavour", "spec"}) /\ build[b].phase = "mount"
        /\ build'[b].phase = "pack" /\ build'[b].mounted
    BY <1>8, DockerRunEffect DEF Keeps
  <2>2. \A o \in orphans' : o.slug # SlugOf(b)'
    BY <1>2, <1>8, <2>1 DEF DockerRun, Keeps, OwnDir
  <2> QED
    BY <1>6, <2>1, <2>2 DEF OwnDir, Linking
<1>9. CASE Pack(b)
  <2>1. CASE build'[b].phase = "stop"
    BY <2>1 DEF OwnDir, Linking
  <2>2. CASE build'[b].phase # "stop"
    <3>1. /\ Keeps(b, {"todo", "flavour", "spec"}) /\ build[b].phase = "pack"
          /\ build'[b].phase = "exit" /\ build'[b].mounted = build[b].mounted
          /\ build'[b].digest = Len(bundles) + 1
      BY <1>9, <2>2, PackEffect DEF Keeps
    <3>2. \E r : bundles' = Append(bundles, r) /\ r.spec = ComputeSpecHash(Item(b), Trees[tree])
      <4>1. ASSUME Become(b, [build[b] EXCEPT !.phase = "stop", !.mounted = FALSE])
            PROVE  FALSE
        <5>1. IsBuild(build[b]) /\ DOMAIN build = Builders
          BY DEF Shape
        <5>2. build'[b] = [build[b] EXCEPT !.phase = "stop", !.mounted = FALSE]
          BY <4>1, <5>1 DEF Become
        <5> QED
          BY <2>2, <5>1, <5>2 DEF IsBuild, HasFields, BuildFields
      <4> QED
        BY <1>9, <4>1 DEF Pack
    <3>3. PICK r : bundles' = Append(bundles, r) /\ r.spec = ComputeSpecHash(Item(b), Trees[tree])
      BY <3>2
    <3>4. PICK S : bundles \in Seq(S)
      BY DEF OutDirInv
    <3>5. bundles'[Len(bundles) + 1] = r /\ Len(bundles) + 1 \in DOMAIN bundles'
      BY <3>3, <3>4, Appended
    <3>6. build'[b].spec = ComputeSpecHash(Item(b), Trees[tree])
      BY <1>1, <1>2, <1>6, <3>1 DEF Linking, Keeps
    <3>7. IsOf(build[b].digest, build[b].spec)'
      BY <3>1, <3>3, <3>5, <3>6 DEF IsOf
    <3>8. build'[b].mounted /\ \A o \in orphans' : o.slug # SlugOf(b)'
      BY <1>2, <1>9, <3>1 DEF Pack, Keeps, OwnDir
    <3> QED
      BY <1>6, <3>1, <3>7, <3>8 DEF OwnDir, Linking
  <2> QED
    BY <2>1, <2>2
<1>10. CASE ContainerExits(b)
  <2>1. /\ Keeps(b, {"todo", "flavour", "spec"}) /\ build[b].phase = "exit"
        /\ build'[b].phase = "read"
    BY <1>10, ContainerExitsEffect DEF Keeps
  <2>2. /\ outDir' = [outDir EXCEPT ![SlugOf(b)] = build[b].digest]
        /\ UNCHANGED <<orphans, bundles>>
    BY <1>10, <2>1 DEF ContainerExits, OwnDir
  <2>3. SlugOf(b)' = SlugOf(b) /\ build'[b].spec = build[b].spec
    BY <1>2, <2>1 DEF Keeps
  <2>4. outDir'[SlugOf(b)'] = build[b].digest
    BY <1>1, <2>2, <2>3
  <2>5. IsOf(outDir[SlugOf(b)], build[b].spec)'
    BY <2>1, <2>2, <2>3, <2>4 DEF IsOf, OwnDir
  <2>6. \A o \in orphans' : o.slug # SlugOf(b)'
    BY <2>1, <2>2, <2>3 DEF OwnDir
  <2> QED
    BY <1>6, <2>1, <2>5, <2>6 DEF OwnDir, Linking
<1>11. CASE ReadBundle(b)
  <2>1. CASE build'[b].phase = "stop"
    BY <2>1 DEF OwnDir, Linking
  <2>2. CASE build'[b].phase # "stop"
    <3>1. /\ Keeps(b, {"todo", "flavour", "spec"}) /\ build[b].phase = "read"
          /\ build'[b].phase = "append" /\ build'[b].read = layout
          /\ build'[b].digest = outDir[SlugOf(b)] /\ bundles' = bundles
      BY <1>11, <2>2, ReadBundleEffect DEF Keeps, ReadBundle
    <3>2. AsAnnotated(build[b].read)'
      BY <3>1 DEF AsAnnotated
    <3>3. IsOf(build[b].digest, build[b].spec)'
      BY <3>1 DEF IsOf, OwnDir, Keeps
    <3> QED
      BY <1>6, <3>1, <3>2, <3>3 DEF OwnDir, Linking
  <2> QED
    BY <2>1, <2>2
<1>12. CASE Push(b)
  BY <1>12, PushEffect DEF OwnDir, Linking
<1> QED
  BY <1>3, <1>4, <1>5, <1>7, <1>8, <1>9, <1>10, <1>11, <1>12 DEF Work

\* What is pushed is what the sub-build read, whole and of its spec hash.
LEMMA WorkAnnotated ==
  ASSUME Shape, OutDirInv, AloneInv, AsAnnotated(layout), NEW b \in Builders, OwnDir(b),
         Work(b)
  PROVE  AsAnnotated(layout)'
<1>1. PICK r : bundles' = bundles \/ bundles' = Append(bundles, r)
  BY WorkFiles
<1>2. BundlesGrow
  BY <1>1, AppendGrows
<1>3. CASE layout' = layout
  BY <1>2, <1>3 DEF AsAnnotated, BundlesGrow
<1>4. CASE Push(b)
  <2> DEFINE index == build[b].read
             m == [name |-> ImageName(Item(b)), key |-> BundleKey(Item(b)),
                   spec |-> build[b].spec, digest |-> build[b].digest]
  <2>1. layout' = Append(index, m) /\ build[b].phase = "append"
    BY <1>4, PushEffect
  <2>2. AsAnnotated(index) /\ IsOf(build[b].digest, build[b].spec)
    BY <2>1 DEF OwnDir
  <2>3. PICK S : index \in Seq(S)
    BY <2>1 DEF AloneInv
  <2>4. m.digest \in DOMAIN bundles /\ bundles[m.digest].spec = m.spec
    BY <2>2 DEF IsOf
  <2> HIDE DEF m, index
  <2>5. /\ DOMAIN layout' = 1..(Len(index) + 1) /\ layout'[Len(index) + 1] = m
        /\ \A i \in DOMAIN index : layout'[i] = index[i]
        /\ DOMAIN index = 1..Len(index) /\ Len(index) \in Nat
    BY <2>1, <2>3, Appended
  <2>6. \A i \in DOMAIN layout' : i \in DOMAIN index \/ layout'[i] = m
    BY <2>5
  <2> QED
    BY <1>2, <2>2, <2>4, <2>5, <2>6 DEF AsAnnotated, BundlesGrow
<1> QED
  BY <1>3, <1>4, WorkLayout

\* Who is alive where flavours do not clash, after a step.
LEMMA FlavoursApart ==
  ASSUME Shape, NEW b \in Builders,
         \A c \in Builders \ {b} : Keeps(c, {"phase", "flavour"}),
         build[b].phase # "idle",
         build'[b].phase = "idle" \/ build'[b].flavour = build[b].flavour,
         \A c, d \in Live : c # d => build[c].flavour # build[d].flavour
  PROVE  \A c, d \in Live' : c # d => build'[c].flavour # build'[d].flavour
<1>1. \A c \in Live' : c \in Live /\ build'[c].flavour = build[c].flavour
  BY DEF Keeps, Live
<1> QED
  BY <1>1

LEMMA WorkOutDir ==
  ASSUME Shape, TodoInv, AloneInv, OutDirInv, NEW b \in Builders, Work(b)
  PROVE  OutDirInv'
<1>1. PICK r : bundles' = bundles \/ bundles' = Append(bundles, r)
  BY WorkFiles
<1>2. BundlesGrow /\ (\E S : bundles' \in Seq(S)) /\ DOMAIN outDir' = Slugs
  BY <1>1, AppendGrows, WorkFiles DEF OutDirInv
<1>3. past' = past
  BY WorkShape
<1> SUFFICES ASSUME ~past.clash, ~past.edited
             PROVE  /\ \A c, d \in Live' : c # d => build'[c].flavour # build'[d].flavour
                    /\ AsAnnotated(layout)'
                    /\ \A c \in Builders : OwnDir(c)'
  BY <1>2, <1>3 DEF OutDirInv
<1>4. /\ \A c, d \in Live : c # d => build[c].flavour # build[d].flavour
      /\ AsAnnotated(layout)
      /\ \A c \in Builders : OwnDir(c)
  BY DEF OutDirInv
<1>5. build[b].phase # "idle" /\ \A c \in Builders \ {b} : Keeps(c, BuildFields \ {"mounted"})
  BY OthersKeep
<1>6. build'[b].phase = "idle" \/ build'[b].flavour = build[b].flavour
  <2>1. CASE SweepStaleSidecars(b) \/ StartSidecar(b) \/ SeedCore(b)
    <3>1. PICK phase : Goto(b, phase)
      BY <2>1 DEF SweepStaleSidecars, StartSidecar, SeedCore
    <3> QED
      BY <3>1, GotoEffect DEF Keeps, BuildFields
  <2>2. CASE PrepareOutDir(b)
    BY <2>2, PrepareOutDirEffect DEF Keeps, BuildFields
  <2>3. CASE EndItem(b)
    <3>1. build'[b].phase = "idle" \/ Keeps(b, {"flavour"})
      BY <2>3, EndItemEffect DEF Keeps
    <3> QED
      BY <3>1 DEF Keeps
  <2>4. CASE ResolveCore(b)
    BY <2>4, ResolveCoreEffect DEF Keeps
  <2>5. CASE Probe(b) \/ DockerRun(b) \/ Pack(b) \/ ContainerExits(b) \/ ReadBundle(b) \/ Push(b)
    BY <2>5, ProbeEffect, DockerRunEffect, PackEffect, ContainerExitsEffect, ReadBundleEffect,
       PushEffect DEF Keeps
  <2> QED
    BY <2>1, <2>2, <2>3, <2>4, <2>5 DEF Work
<1>7. \A c, d \in Live' : c # d => build'[c].flavour # build'[d].flavour
  <2>1. \A c \in Builders \ {b} : Keeps(c, {"phase", "flavour"})
    BY <1>5 DEF Keeps, BuildFields
  <2> QED
    BY <1>4, <1>5, <1>6, <2>1, FlavoursApart
<1>8. AsAnnotated(layout)'
  BY <1>4, WorkAnnotated
<1>9. OwnDir(b)'
  BY <1>4, WorkOwnDir
<1>10. ASSUME NEW c \in Builders \ {b} PROVE OwnDir(c)'
  <2>1. CASE build[c].phase = "idle"
    <3>1. build'[c].phase = "idle"
      BY <1>5, <2>1 DEF Keeps, BuildFields
    <3> QED
      BY <3>1 DEF OwnDir, Linking
  <2>2. CASE build[c].phase # "idle"
    <3>1. SlugOf(c) # SlugOf(b)
      BY <1>4, <1>5, <2>2, SlugsDiffer DEF Live
    <3>2. build'[c].mounted = build[c].mounted
      BY <3>1, WorkMounts
    <3>3. outDir'[SlugOf(c)] = outDir[SlugOf(c)] /\ tree' = tree /\ orphans' \subseteq orphans
      BY <2>2, <3>1, WorkFiles, SlugIsSlug DEF OutDirInv, TodoInv
    <3>4. build[c].phase \in {"mount", "pack", "exit", "read"} =>
              \A o \in orphans' : o.slug # SlugOf(c)
      BY <1>4, <3>3 DEF OwnDir
    <3> QED
      BY <1>2, <1>4, <1>5, <3>2, <3>3, <3>4, OwnDirKept
  <2> QED
    BY <2>1, <2>2
<1> QED
  BY <1>7, <1>8, <1>9, <1>10

LEMMA OutDirStep ==
  Shape /\ TodoInv /\ AloneInv /\ OutDirInv /\ [Next]_vars => OutDirInv'
<1> SUFFICES ASSUME Shape, TodoInv, AloneInv, OutDirInv, [Next]_vars
             PROVE  OutDirInv'
  OBVIOUS
<1>1. ASSUME UNCHANGED bundles, DOMAIN outDir' = DOMAIN outDir,
             ~past'.clash /\ ~past'.edited =>
                /\ \A b, c \in Live' : b # c => build'[b].flavour # build'[c].flavour
                /\ AsAnnotated(layout)'
                /\ \A b \in Builders : OwnDir(b)'
      PROVE  OutDirInv'
  BY <1>1 DEF OutDirInv
<1>2. ASSUME UNCHANGED <<bundles, layout>>, AsAnnotated(layout)
      PROVE  AsAnnotated(layout)'
  BY <1>2 DEF AsAnnotated
<1>3. UNCHANGED bundles => BundlesGrow
  BY DEF BundlesGrow
<1>4. ASSUME NEW c \in Builders, build'[c] = build[c], OwnDir(c),
             UNCHANGED <<tree, bundles, outDir, orphans>>
      PROVE  OwnDir(c)'
  <2>1. Keeps(c, BuildFields \ {"mounted"}) /\ build'[c].mounted = build[c].mounted
    BY <1>4 DEF Keeps
  <2>2. build[c].phase \in {"mount", "pack", "exit", "read"} =>
            \A o \in orphans' : o.slug # SlugOf(c)
    BY <1>4 DEF OwnDir
  <2> QED
    BY <1>3, <1>4, <2>1, <2>2, OwnDirKept
<1>5. ASSUME NEW b \in Builders, build'[b].phase \in {"idle", "stop", "probe"}
      PROVE  OwnDir(b)'
  BY <1>5 DEF OwnDir, Linking
<1>6. ASSUME NEW b \in Builders, NEW c \in Cells, NEW f \in Flavours, NEW force \in Forces,
             Begin(b, c, f, force)
      PROVE  OutDirInv'
  <2>1. /\ Moves(b) /\ build'[b].phase = "probe" /\ build'[b].flavour = f
        /\ past'.edited = past.edited
        /\ past'.clash = (past.clash \/ \E d \in Live : build[d].flavour = f)
    BY <1>6, BeginEffect
  <2>2. UNCHANGED <<tree, layout, bundles, outDir, orphans>>
    BY <1>6 DEF Begin
  <2> SUFFICES ASSUME ~past'.clash, ~past'.edited
               PROVE  /\ \A d, e \in Live' : d # e => build'[d].flavour # build'[e].flavour
                      /\ AsAnnotated(layout)'
                      /\ \A d \in Builders : OwnDir(d)'
    BY <1>1, <2>2
  <2>3. /\ ~past.clash /\ ~past.edited
        /\ \A d \in Live : build[d].flavour # f
    BY <2>1
  <2>4. \A d, e \in Live' : d # e => build'[d].flavour # build'[e].flavour
    BY <2>1, <2>3 DEF OutDirInv, Live, Moves
  <2>5. \A d \in Builders : OwnDir(d)'
    BY <1>4, <1>5, <2>1, <2>2, <2>3 DEF OutDirInv, Moves
  <2> QED
    BY <1>2, <2>2, <2>3, <2>4, <2>5 DEF OutDirInv
<1>7. ASSUME NEW b \in Builders, Fail(b) \/ Kill(b)
      PROVE  OutDirInv'
  <2>1. /\ Moves(b) /\ build[b].phase # "idle"
        /\ build'[b].phase \in {"idle", "stop"}
        /\ build'[b].phase = "idle" \/ build'[b].flavour = build[b].flavour
        /\ past'.edited = past.edited /\ past'.clash = past.clash
    BY <1>7, FailEffect, KillEffect DEF PastFields, Keeps
  <2>2. UNCHANGED <<tree, bundles, outDir>> /\ layout' \in {layout, <<>>}
    BY <1>7 DEF Fail, Kill
  <2> SUFFICES ASSUME ~past.clash, ~past.edited
               PROVE  /\ \A d, e \in Live' : d # e => build'[d].flavour # build'[e].flavour
                      /\ AsAnnotated(layout)'
                      /\ \A d \in Builders : OwnDir(d)'
    BY <1>1, <2>1, <2>2 DEF OutDirInv
  <2>3. \A d, e \in Live : d # e => build[d].flavour # build[e].flavour
    BY DEF OutDirInv
  <2>4. \A d, e \in Live' : d # e => build'[d].flavour # build'[e].flavour
    <3>1. \A c \in Builders \ {b} : Keeps(c, {"phase", "flavour"})
      BY <2>1 DEF Moves, Keeps
    <3> QED
      BY <2>1, <2>3, <3>1, FlavoursApart
  <2>5. \A o \in orphans' : o \in orphans \/ o.slug = SlugOf(b)
    BY <1>7 DEF Fail, Kill
  <2>6. ASSUME NEW c \in Builders \ {b}
        PROVE  OwnDir(c)'
    <3>1. CASE build[c].phase = "idle"
      BY <1>5, <2>1, <3>1 DEF Moves
    <3>2. CASE build[c].phase # "idle"
      <4>1. SlugOf(c) # SlugOf(b)
        BY <2>1, <2>3, <3>2, SlugsDiffer DEF Live
      <4>2. OwnDir(c)
        BY DEF OutDirInv
      <4>3. build[c].phase \in {"mount", "pack", "exit", "read"} =>
                \A o \in orphans' : o.slug # SlugOf(c)
        BY <2>5, <4>1, <4>2 DEF OwnDir
      <4>4. Keeps(c, BuildFields \ {"mounted"}) /\ build'[c].mounted = build[c].mounted
        BY <2>1 DEF Moves, Keeps
      <4> QED
        BY <1>3, <2>2, <4>2, <4>3, <4>4, OwnDirKept
    <3> QED
      BY <3>1, <3>2
  <2>7. OwnDir(b)'
    BY <1>5, <2>1
  <2>8. AsAnnotated(layout)'
    <3>1. AsAnnotated(layout)
      BY DEF OutDirInv
    <3> QED
      BY <2>2, <3>1 DEF AsAnnotated
  <2> QED
    BY <2>4, <2>6, <2>7, <2>8
<1>8. CASE EditTree
  <2>1. UNCHANGED <<build, layout, bundles, outDir>>
        /\ past'.clash = past.clash /\ past'.edited = (past.edited \/ Live # {})
    BY <1>8, EditTreeEffect DEF EditTree, PastFields
  <2>2. ASSUME ~past'.clash, ~past'.edited
        PROVE  /\ \A d, e \in Live' : d # e => build'[d].flavour # build'[e].flavour
               /\ AsAnnotated(layout)'
               /\ \A d \in Builders : OwnDir(d)'
    <3>1. ~past.clash /\ ~past.edited /\ Live = {}
      BY <2>1, <2>2
    <3>2. \A d \in Builders : build'[d].phase = "idle"
      BY <2>1, <3>1 DEF Live
    <3> QED
      BY <1>2, <1>5, <2>1, <3>1, <3>2 DEF OutDirInv, Live
  <2> QED
    BY <1>1, <2>1, <2>2
<1>9. CASE OrphanExits
  <2>1. PICK o \in orphans : /\ outDir' = [outDir EXCEPT ![o.slug] = o.digest]
                             /\ orphans' = orphans \ {o}
                             /\ UNCHANGED <<tree, layout, bundles, sidecars, build, past>>
    BY <1>9 DEF OrphanExits
  <2>2. ASSUME NEW c \in Builders, OwnDir(c)
        PROVE  OwnDir(c)'
    <3>1. build[c].phase = "read" => outDir'[SlugOf(c)] = outDir[SlugOf(c)]
      BY <2>1, <2>2 DEF OwnDir
    <3>2. build[c].phase \in {"mount", "pack", "exit", "read"} =>
              \A q \in orphans' : q.slug # SlugOf(c)
      BY <2>1, <2>2 DEF OwnDir
    <3>3. Keeps(c, BuildFields \ {"mounted"}) /\ build'[c].mounted = build[c].mounted
      BY <2>1 DEF Keeps
    <3> QED
      BY <1>3, <2>1, <2>2, <3>1, <3>2, <3>3, OwnDirKept
  <2> QED
    BY <1>1, <1>2, <2>1, <2>2 DEF OutDirInv, Live
<1>10. CASE UNCHANGED vars
  BY <1>1, <1>2, <1>4, <1>10 DEF vars, OutDirInv, Live
<1> QED
  BY <1>6, <1>7, <1>8, <1>9, <1>10, WorkOutDir DEF Next

\* As long as no two builds of one --os overlap and the tree stays put during a
\* build, every manifest of the layout is of a whole bundle made under the spec
\* hash it is annotated with, whatever was killed, failed or left behind
\* (prepareOutDir, BuildCell, Push).
THEOREM PushedIsAsAnnotated == Spec => []PushedAsAnnotated
<1> DEFINE Inv == Shape /\ TodoInv /\ AloneInv /\ OutDirInv
<1>1. Init => Inv
  BY ShapeInit, TodoInit, AloneInit, OutDirInit
<1>2. Inv /\ [Next]_vars => Inv'
  BY ShapeStep, TodoStep, AloneStep, OutDirStep
<1>3. Inv => PushedAsAnnotated
  BY DEF OutDirInv, AsAnnotated, PushedAsAnnotated
<1> QED
  BY <1>1, <1>2, <1>3, PTL DEF Spec

-----------------------------------------------------------------------------
(* The rest of a cell. *)

\* What is left of a list is of one core: that core, and extensions for its
\* version.
OfCell(items, core) ==
    \A i \in DOMAIN items :
        IF IsExt(items[i]) THEN items[i].php = core.version ELSE items[i] = core

\* The core is resolved after the core itself.
CellInv == \A b \in Live :
    /\ build[b].cell \in Cells
    /\ OfCell(build[b].todo, build[b].cell)
    /\ build[b].phase = "resolve" => ~IsExt(Item(b))

LEMMA ItemsOfCell ==
  ASSUME NEW t \in DOMAIN Trees, NEW core \in Cells
  PROVE  OfCell(ItemsOf(core, Trees[t].catalog), core)
<1> DEFINE catalog == Trees[t].catalog
           S == DiscoverExtensionsForCell(catalog, core.version, core.os, core.arch, core.ts)
           items == ItemsOf(core, catalog)
<1>1. IsCatalog(catalog) /\ core \in ExpandPHPMatrix(catalog)
  BY CatalogAssumption
<1>2. ~IsExt(core) /\ \A i \in DOMAIN items : items[i] = core \/ items[i] \in S
  BY <1>1, ItemsOfCatalog
<1>3. ASSUME NEW x \in S PROVE IsExt(x) /\ x.php = core.version
  <2>1. IsExt(x) /\ x = ExtCell(x.extension, x.version, core.version, core.os, core.arch, core.ts)
    BY <1>1, DiscoveredOfCatalog
  <2> QED
    BY <2>1 DEF ExtCell
<1> HIDE DEF S, items
<1>4. OfCell(items, core)
  BY <1>2, <1>3 DEF OfCell
<1> QED
  BY <1>4 DEF items

LEMMA TailElements ==
  ASSUME NEW S, NEW items \in Seq(S), items # <<>>
  PROVE  \A i \in DOMAIN Tail(items) : \E j \in DOMAIN items : Tail(items)[i] = items[j]
<1>1. /\ Tail(items) \in Seq(S) /\ Len(items) \in Nat /\ Len(items) # 0
      /\ Len(Tail(items)) = Len(items) - 1
      /\ \A i \in 1..Len(items) - 1 : Tail(items)[i] = items[i + 1]
  BY EmptySeq
<1> QED
  BY <1>1

LEMMA RestOfCell ==
  ASSUME NEW S, NEW items \in Seq(S), items # <<>>, NEW core, OfCell(items, core)
  PROVE  OfCell(Tail(items), core)
  BY TailElements DEF OfCell

\* What a step of a process does to its place in the list: it goes on with the
\* same sub-build, it ends, or it takes the next of the list.
Proceeds(b) ==
    /\ Keeps(b, Steady)
    /\ build'[b].phase \notin {"idle", "probe"}
    /\ build[b].phase # "resolve"
    /\ build'[b].phase = "resolve" => build[b].phase = "stop" /\ ~IsExt(Item(b))

Finishes(b) == build'[b].phase = "idle" /\ build'[b].core = NoDigest

Advances(b) ==
    /\ build'[b].phase = "probe"
    /\ Keeps(b, {"cell", "warm", "force", "flavour"})
    /\ Len(build[b].todo) # 1 /\ build'[b].todo = Tail(build[b].todo)
    /\ \/ build[b].phase = "stop" /\ IsExt(Item(b)) /\ build'[b].core = build[b].core
       \/ /\ build[b].phase = "resolve" /\ build'[b].core # NoDigest
          /\ build'[b].core = LookupBySpec(layout, <<"php-core">>,
                                           ComputeSpecHash(Item(b), Trees[tree]))

LEMMA WorkGoesOn ==
  ASSUME Shape, NEW b \in Builders, Work(b)
  PROVE  Proceeds(b) \/ Finishes(b) \/ Advances(b)
<1>1. CASE Probe(b)
  BY <1>1, ProbeEffect DEF Proceeds, Keeps, Steady
<1>2. CASE SweepStaleSidecars(b) \/ StartSidecar(b) \/ SeedCore(b)
  <2>1. PICK phase \in {"start", "seed", "prepare", "stop"} : Goto(b, phase)
    BY <1>2 DEF SweepStaleSidecars, StartSidecar, SeedCore
  <2>2. build[b].phase # "resolve"
    BY <1>2 DEF SweepStaleSidecars, StartSidecar, SeedCore
  <2> QED
    BY <2>1, <2>2, GotoEffect DEF Proceeds, Keeps, Steady, BuildFields
<1>3. CASE PrepareOutDir(b)
  BY <1>3, PrepareOutDirEffect DEF Proceeds, Keeps, Steady, BuildFields
<1>4. CASE DockerRun(b) \/ Pack(b) \/ ContainerExits(b) \/ ReadBundle(b) \/ Push(b)
  BY <1>4, RunEffect DEF Proceeds
<1>5. CASE EndItem(b)
  BY <1>5, EndItemEffect DEF Proceeds, Finishes, Advances, Keeps, Steady
<1>6. CASE ResolveCore(b)
  BY <1>6, ResolveCoreEffect DEF Finishes, Advances
<1> QED
  BY <1>1, <1>2, <1>3, <1>4, <1>5, <1>6 DEF Work

LEMMA CellStep == Shape /\ TodoInv /\ CellInv /\ [Next]_vars => CellInv'
<1> DEFINE Cell(b) == /\ build[b].cell \in Cells
                      /\ OfCell(build[b].todo, build[b].cell)
                      /\ build[b].phase = "resolve" => ~IsExt(Item(b))
<1> SUFFICES ASSUME Shape, TodoInv, CellInv, [Next]_vars, NEW b \in Live'
             PROVE  Cell(b)'
  BY DEF CellInv
<1>0. b \in Builders
  BY DEF Live
<1>1. ASSUME Keeps(b, {"cell", "todo", "phase"})
      PROVE  Cell(b)'
  <2>1. /\ build'[b].cell = build[b].cell /\ build'[b].todo = build[b].todo
        /\ build'[b].phase = build[b].phase
    BY <1>1 DEF Keeps
  <2>2. b \in Live /\ Item(b)' = Item(b)
    BY <1>0, <2>1 DEF Live, Item
  <2> QED
    BY <2>1, <2>2 DEF CellInv
<1>2. ASSUME NEW c \in Builders, Work(c)
      PROVE  Cell(b)'
  <2>1. CASE b # c
    BY <1>0, <1>1, <1>2, <2>1, OthersKeep DEF Keeps, BuildFields
  <2>2. CASE b = c
    <3>1. build[b].phase # "idle"
      BY <1>2, <2>2, OthersKeep
    <3>2. Cell(b) /\ HasTodo(b)
      BY <1>0, <3>1 DEF CellInv, Live, TodoInv
    <3>3. CASE Proceeds(b)
      <4>1. build'[b].cell = build[b].cell /\ build'[b].todo = build[b].todo
        BY <3>3 DEF Proceeds, Keeps, Steady
      <4> QED
        BY <3>2, <3>3, <4>1 DEF Proceeds, Item
    <3>4. CASE Advances(b)
      <4>1. build'[b].cell = build[b].cell /\ build'[b].todo = Tail(build[b].todo)
            /\ build'[b].phase = "probe"
        BY <3>4 DEF Advances, Keeps
      <4>2. OfCell(Tail(build[b].todo), build[b].cell)
        BY <3>1, <3>2, <3>4, RestOfCell DEF HasTodo, Advances
      <4> QED
        BY <3>2, <4>1, <4>2
    <3> QED
      BY <1>2, <2>2, <3>3, <3>4, WorkGoesOn DEF Live, Finishes
  <2> QED
    BY <2>1, <2>2
<1>3. ASSUME NEW c \in Builders, NEW core \in Cells, NEW f \in Flavours, NEW force \in Forces,
             Begin(c, core, f, force)
      PROVE  Cell(b)'
  <2>1. CASE b # c
    BY <1>0, <1>1, <1>3, <2>1, BeginEffect DEF Moves, Keeps
  <2>2. CASE b = c
    <3>1. /\ build'[b].phase = "probe" /\ build'[b].cell = core
          /\ build'[b].todo = ItemsOf(core, Trees[tree].catalog)
      BY <1>3, <2>2, BeginEffect
    <3> QED
      BY <3>1, ItemsOfCell DEF TodoInv
  <2> QED
    BY <2>1, <2>2
<1>4. ASSUME NEW c \in Builders, Fail(c) \/ Kill(c)
      PROVE  Cell(b)'
  <2>1. CASE b # c
    BY <1>0, <1>1, <1>4, <2>1, FailEffect, KillEffect DEF Moves, Keeps
  <2>2. CASE b = c
    <3>1. /\ Keeps(b, {"cell", "todo"}) /\ build'[b].phase = "stop"
          /\ build[b].phase # "idle"
      BY <1>4, <2>2, FailEffect, KillEffect DEF Live, Keeps
    <3>2. Cell(b)
      BY <1>0, <3>1 DEF CellInv, Live
    <3> QED
      BY <3>1, <3>2 DEF Keeps
  <2> QED
    BY <2>1, <2>2
<1>5. CASE EditTree \/ OrphanExits \/ UNCHANGED vars
  BY <1>1, <1>5 DEF EditTree, OrphanExits, vars, Keeps
<1> QED
  BY <1>2, <1>3, <1>4, <1>5 DEF Next

-----------------------------------------------------------------------------
(* Digests. *)

\* A digest is of a bundle that was made, or is being written.
Made(d) == d \in Int /\ Abs(d) \in DOMAIN bundles
Known(d) == Made(d) \/ d = NoDigest

ListedAreMade(index) == \A i \in DOMAIN index : Made(index[i].digest)

InHand(b) ==
    /\ Known(build[b].core)
    /\ build[b].phase = "exit" => build[b].digest \in DOMAIN bundles
    /\ build[b].phase = "append" => Made(build[b].digest) /\ ListedAreMade(build[b].read)

DigestInv ==
    /\ ListedAreMade(layout)
    /\ \A s \in Slugs : Known(outDir[s])
    /\ \A s \in sidecars : s.owner \in Builders \union {Nobody, Lost} /\ Known(s.core)
    /\ \A o \in orphans : o.slug \in Slugs /\ o.digest \in DOMAIN bundles
    /\ \A b \in Builders : build[b].phase \in Phases /\ InHand(b)

LEMMA AbsOfMade ==
  /\ Abs(NoDigest) = NoDigest
  /\ \A n \in Nat : Abs(n) = n /\ Abs(-n) = n /\ n \in Int /\ -n \in Int
  BY DEF Abs, NoDigest

LEMMA KnownGrows ==
  ASSUME BundlesGrow
  PROVE  /\ \A d : Made(d) => Made(d)'
         /\ \A d : Known(d) => Known(d)'
         /\ \A index : ListedAreMade(index) => ListedAreMade(index)'
  BY DEF BundlesGrow, Made, Known, ListedAreMade

\* Where the phases come from in which a process has a digest in hand.
LEMMA WorkReaches ==
  ASSUME Shape, NEW b \in Builders, Work(b)
  PROVE  /\ build'[b].phase = "exit" => Pack(b)
         /\ build'[b].phase = "append" => ReadBundle(b)
         /\ build'[b].phase \in Phases
<1>1. CASE SweepStaleSidecars(b) \/ StartSidecar(b) \/ SeedCore(b)
  <2>1. PICK phase \in {"start", "seed", "prepare", "stop"} : Goto(b, phase)
    BY <1>1 DEF SweepStaleSidecars, StartSidecar, SeedCore
  <2> QED
    BY <2>1, GotoEffect DEF Phases
<1>2. CASE Probe(b) \/ PrepareOutDir(b) \/ DockerRun(b) \/ ContainerExits(b)
  BY <1>2, ProbeEffect, PrepareOutDirEffect, DockerRunEffect, ContainerExitsEffect DEF Phases
<1>3. CASE Pack(b) \/ ReadBundle(b)
  BY <1>3, PackEffect, ReadBundleEffect DEF Phases
<1>4. CASE Push(b) \/ EndItem(b) \/ ResolveCore(b)
  BY <1>4, PushEffect, EndItemEffect, ResolveCoreEffect DEF Phases
<1> QED
  BY <1>1, <1>2, <1>3, <1>4 DEF Work

LEMMA PackMakes ==
  ASSUME Shape, OutDirInv, NEW b \in Builders, Pack(b), build'[b].phase = "exit"
  PROVE  /\ Len(bundles) + 1 \in Nat /\ Len(bundles) + 1 \in DOMAIN bundles'
         /\ build'[b].digest = Len(bundles) + 1
         /\ \E r : /\ bundles'[Len(bundles) + 1] = r
                   /\ DOMAIN bundles' = DOMAIN bundles \union {Len(bundles) + 1}
                   /\ r.spec = ComputeSpecHash(Item(b), Trees[tree])
                   /\ IsExt(Item(b)) => r.against \in {s.core : s \in Own(b)} \ {NoDigest}
<1>1. build'[b].digest = Len(bundles) + 1 /\ Packs(b)
  BY PackEffect
<1>2. PICK r : /\ bundles' = Append(bundles, r)
               /\ r.spec = ComputeSpecHash(Item(b), Trees[tree])
               /\ IsExt(Item(b)) => r.against \in {s.core : s \in Own(b)} \ {NoDigest}
  BY <1>1 DEF Packs
<1>3. PICK S : bundles \in Seq(S)
  BY DEF OutDirInv
<1>4. /\ DOMAIN bundles' = 1..(Len(bundles) + 1) /\ bundles'[Len(bundles) + 1] = r
      /\ DOMAIN bundles = 1..Len(bundles) /\ Len(bundles) \in Nat
  BY <1>2, <1>3, Appended
<1>5. DOMAIN bundles' = DOMAIN bundles \union {Len(bundles) + 1}
  BY <1>4
<1>6. Len(bundles) + 1 \in Nat /\ Len(bundles) + 1 \in DOMAIN bundles'
  BY <1>4
<1> QED
  BY <1>1, <1>2, <1>4, <1>5, <1>6

\* What a step of a process writes to an output directory.
LEMMA WorkWrites ==
  ASSUME Shape, NEW b \in Builders, Work(b), NEW s \in DOMAIN outDir, outDir'[s] # outDir[s]
  PROVE  /\ s = SlugOf(b)
         /\ \/ PrepareOutDir(b) /\ outDir'[s] = NoDigest
            \/ /\ Pack(b) /\ build'[b].phase = "exit" /\ build[b].mounted
               /\ outDir'[s] = -(Len(bundles) + 1)
            \/ ContainerExits(b) /\ build[b].mounted /\ outDir'[s] = build[b].digest
<1>1. s = SlugOf(b)
  BY WorkFiles
<1>2. PrepareOutDir(b) \/ Pack(b) \/ ContainerExits(b)
  BY DEF Work, Probe, SweepStaleSidecars, StartSidecar, SeedCore, DockerRun,
         ReadBundle, Push, EndItem, ResolveCore
<1>3. CASE PrepareOutDir(b)
  BY <1>1, <1>3 DEF PrepareOutDir
<1>4. CASE Pack(b)
  BY <1>1, <1>4, PackEffect DEF Packs
<1>5. CASE ContainerExits(b)
  BY <1>1, <1>5 DEF ContainerExits
<1> QED
  BY <1>1, <1>2, <1>3, <1>4, <1>5

LEMMA WorkInHand ==
  ASSUME Shape, TodoInv, AloneInv, OutDirInv, DigestInv, NEW b \in Builders, Work(b),
         BundlesGrow
  PROVE  InHand(b)'
<1>0. /\ \A d : Made(d) => Made(d)'
      /\ \A d : Known(d) => Known(d)'
      /\ \A index : ListedAreMade(index) => ListedAreMade(index)'
  BY KnownGrows
<1>1. Known(build[b].core)'
  <2>1. CASE build'[b].core = build[b].core
    BY <1>0, <2>1 DEF DigestInv, InHand
  <2>2. CASE build'[b].core = NoDigest
    BY <2>2, AbsOfMade DEF Known
  <2>3. CASE \E spec : LookupBySpec(layout, <<"php-core">>, spec) = build'[b].core
    <3>1. PICK spec : LookupBySpec(layout, <<"php-core">>, spec) = build'[b].core
      BY <2>3
    <3>2. build'[b].core = NoDigest \/ \E i \in DOMAIN layout : build'[b].core = layout[i].digest
      BY <3>1, LookupFinds DEF AloneInv
    <3>3. build'[b].core = NoDigest \/ Made(build'[b].core)
      BY <3>2 DEF DigestInv, ListedAreMade
    <3> QED
      BY <1>0, <2>2, <3>3 DEF Known, Made
  <2> QED
    BY <2>1, <2>2, <2>3, WorkGoesOn DEF Proceeds, Finishes, Advances, Keeps, Steady
<1>2. CASE build'[b].phase = "exit"
  BY <1>1, <1>2, WorkReaches, PackMakes DEF InHand
<1>3. CASE build'[b].phase = "append"
  <2>1. build'[b].read = layout /\ build'[b].digest = outDir[SlugOf(b)] /\ ReadBundle(b)
    BY <1>3, WorkReaches, ReadBundleEffect
  <2>2. outDir[SlugOf(b)] # NoDigest
    <3>1. DOMAIN build = Builders /\ IsBuild(build[b])
      BY DEF Shape
    <3>2. outDir[SlugOf(b)] = NoDigest => build'[b].phase = "stop"
      BY <2>1, GotoEffect DEF ReadBundle
    <3> QED
      BY <1>3, <3>2
  <2>3. Known(outDir[SlugOf(b)])
    BY SlugIsSlug, OthersKeep DEF DigestInv, TodoInv
  <2>4. \A d : Known(d) /\ d # NoDigest => Made(d)
    BY DEF Known
  <2>5. Made(outDir[SlugOf(b)]) /\ ListedAreMade(layout)
    BY <2>2, <2>3, <2>4 DEF DigestInv
  <2> QED
    BY <1>0, <1>1, <1>3, <2>1, <2>5 DEF InHand, ListedAreMade, Made
<1> QED
  BY <1>1, <1>2, <1>3 DEF InHand

\* A sidecar serves nothing, or what it is asked for.
LEMMA WorkSidecars ==
  ASSUME Shape, TodoInv, AloneInv, NEW b \in Builders, Work(b), NEW s \in sidecars'
  PROVE  \/ s \in sidecars
         \/ \E z \in sidecars : s = [owner |-> Lost, core |-> z.core]
         \/ s = [owner |-> b, core |-> NoDigest] /\ build'[b].phase = "seed"
         \/ /\ s = [owner |-> b, core |-> build[b].core]
            /\ build'[b].phase = "prepare" /\ build'[b].core = build[b].core
<1>1. CASE StartSidecar(b)
  BY <1>1, GotoEffect DEF StartSidecar
<1>2. CASE SeedCore(b)
  <2> DEFINE found == Fetch(layout, <<"php-core">>, build[b].core)
  <2>1. CASE s \notin sidecars
    <3>1. found # NoDigest /\ Goto(b, "prepare") /\ s = [owner |-> b, core |-> found]
      BY <1>2, <2>1 DEF SeedCore
    <3>2. build[b].core # NoDigest
      BY <1>2 DEF SeedCore, TodoInv, HasTodo
    <3>3. found = build[b].core
      BY <3>1, <3>2, FetchedIsAsked DEF AloneInv
    <3>4. build'[b].phase = "prepare" /\ build'[b].core = build[b].core
      BY <3>1, GotoEffect DEF Keeps, BuildFields
    <3> HIDE DEF found
    <3> QED
      BY <3>1, <3>3, <3>4
  <2> QED
    BY <2>1
<1>3. CASE SweepStaleSidecars(b) \/ EndItem(b)
  BY <1>3 DEF SweepStaleSidecars, EndItem, Own, Left
<1>4. CASE ~StartSidecar(b) /\ ~SeedCore(b) /\ ~SweepStaleSidecars(b) /\ ~EndItem(b)
  BY <1>4 DEF Work, Probe, PrepareOutDir, DockerRun, Pack, ContainerExits, ReadBundle, Push,
              ResolveCore
<1> QED
  BY <1>1, <1>2, <1>3, <1>4

LEMMA WorkDigests ==
  ASSUME Shape, TodoInv, AloneInv, OutDirInv, DigestInv, NEW b \in Builders, Work(b)
  PROVE  DigestInv'
<1>1. PICK r : bundles' = bundles \/ bundles' = Append(bundles, r)
  BY WorkFiles
<1>2. BundlesGrow
  BY <1>1, AppendGrows
<1>0. /\ \A d : Made(d) => Made(d)'
      /\ \A d : Known(d) => Known(d)'
      /\ \A index : ListedAreMade(index) => ListedAreMade(index)'
  BY <1>2, KnownGrows
<1>3. ListedAreMade(layout)'
  <2>1. CASE layout' = layout
    BY <1>0, <2>1 DEF DigestInv, ListedAreMade, Made
  <2>2. CASE Push(b)
    <3> DEFINE index == build[b].read
    <3>1. PICK m : layout' = Append(index, m) /\ m.digest = build[b].digest
      <4> DEFINE d == [name |-> ImageName(Item(b)), key |-> BundleKey(Item(b)),
                       spec |-> build[b].spec, digest |-> build[b].digest]
      <4>1. layout' = Append(index, d)
        BY <2>2, PushEffect
      <4>2. d.digest = build[b].digest
        OBVIOUS
      <4> HIDE DEF d, index
      <4> QED
        BY <4>1, <4>2
    <3>2. ListedAreMade(index) /\ Made(m.digest) /\ \E S : index \in Seq(S)
      BY <2>2, <3>1, PushEffect DEF DigestInv, InHand, AloneInv
    <3>3. PICK S : index \in Seq(S)
      BY <3>2
    <3> HIDE DEF index
    <3>4. /\ DOMAIN layout' = 1..(Len(index) + 1) /\ layout'[Len(index) + 1] = m
          /\ \A i \in DOMAIN index : layout'[i] = index[i]
          /\ DOMAIN index = 1..Len(index) /\ Len(index) \in Nat
      BY <3>1, <3>3, Appended
    <3>5. \A i \in DOMAIN layout' : i \in DOMAIN index \/ layout'[i] = m
      BY <3>4
    <3>6. \A i \in DOMAIN layout' : Made(layout'[i].digest)
      BY <3>2, <3>4, <3>5 DEF ListedAreMade
    <3> QED
      BY <1>0, <3>6 DEF ListedAreMade, Made
  <2> QED
    BY <2>1, <2>2, WorkLayout
<1>4. ASSUME NEW s \in Slugs PROVE Known(outDir[s])'
  <2>1. s \in DOMAIN outDir
    BY DEF OutDirInv
  <2>2. CASE outDir'[s] = outDir[s]
    BY <1>0, <2>2 DEF DigestInv, Known, Made
  <2>3. CASE outDir'[s] = NoDigest
    BY <2>3, AbsOfMade DEF Known
  <2>4. CASE Pack(b) /\ build'[b].phase = "exit" /\ outDir'[s] = -(Len(bundles) + 1)
    <3> DEFINE n == Len(bundles) + 1
    <3>1. n \in Nat /\ n \in DOMAIN bundles' /\ outDir'[s] = -n
      BY <2>4, PackMakes
    <3> HIDE DEF n
    <3>2. outDir'[s] \in Int /\ Abs(outDir'[s]) \in DOMAIN bundles'
      BY <3>1, AbsOfMade
    <3> QED
      BY <3>2 DEF Known, Made
  <2>5. CASE ContainerExits(b) /\ outDir'[s] = build[b].digest
    <3>1. build[b].digest \in DOMAIN bundles /\ DOMAIN bundles \subseteq Nat
      BY <2>5 DEF ContainerExits, DigestInv, InHand, OutDirInv
    <3>2. Made(outDir'[s])
      BY <2>5, <3>1, AbsOfMade DEF Made
    <3> QED
      BY <1>0, <3>2 DEF Known, Made
  <2> QED
    BY <2>1, <2>2, <2>3, <2>4, <2>5, WorkWrites
<1>5. ASSUME NEW s \in sidecars'
      PROVE  s.owner \in Builders \union {Nobody, Lost} /\ Known(s.core)'
  <2>1. CASE s \in sidecars
    BY <1>0, <2>1 DEF DigestInv
  <2>2. CASE s.core = NoDigest /\ s.owner = b
    BY <2>2, AbsOfMade DEF Known
  <2>3. CASE s.core = build[b].core /\ s.owner = b
    BY <1>0, <2>3 DEF DigestInv, InHand
  <2>4. CASE \E z \in sidecars : s = [owner |-> Lost, core |-> z.core]
    BY <1>0, <2>4 DEF DigestInv
  <2> QED
    BY <2>1, <2>2, <2>3, <2>4, WorkSidecars
<1>6. \A o \in orphans' : o.slug \in Slugs /\ o.digest \in DOMAIN bundles'
  BY <1>2, WorkFiles DEF DigestInv, BundlesGrow
<1>7. build'[b].phase \in Phases /\ InHand(b)'
  BY <1>2, WorkReaches, WorkInHand
<1>8. ASSUME NEW c \in Builders \ {b} PROVE build'[c].phase \in Phases /\ InHand(c)'
  <2>1. /\ build'[c].phase = build[c].phase /\ build'[c].core = build[c].core
        /\ build'[c].digest = build[c].digest /\ build'[c].read = build[c].read
    BY OthersKeep DEF Keeps, BuildFields
  <2> QED
    BY <1>0, <1>2, <2>1 DEF DigestInv, InHand, BundlesGrow, ListedAreMade, Made, Known
<1> QED
  BY <1>3, <1>4, <1>5, <1>6, <1>7, <1>8 DEF DigestInv

LEMMA DigestInit == Init => DigestInv
<1> SUFFICES ASSUME Init PROVE DigestInv
  OBVIOUS
<1>1. \A b \in Builders : build[b].phase = "idle" /\ build[b].core = NoDigest
  BY IdleIsBuild DEF Init
<1>2. layout = <<>> /\ sidecars = {} /\ orphans = {} /\ \A s \in Slugs : outDir[s] = NoDigest
  BY DEF Init
<1>3. \A b \in Builders : build[b].phase \in Phases /\ InHand(b)
  BY <1>1, AbsOfMade DEF InHand, Known, Phases
<1> QED
  BY <1>2, <1>3 DEF DigestInv, ListedAreMade, Known

LEMMA DigestStep ==
  Shape /\ TodoInv /\ AloneInv /\ OutDirInv /\ DigestInv /\ [Next]_vars => DigestInv'
<1> SUFFICES ASSUME Shape, TodoInv, AloneInv, OutDirInv, DigestInv, [Next]_vars
             PROVE  DigestInv'
  OBVIOUS
<1>1. ASSUME NEW b \in Builders, build'[b] = build[b], UNCHANGED bundles
      PROVE  build'[b].phase \in Phases /\ InHand(b)'
  BY <1>1 DEF DigestInv, InHand, ListedAreMade, Made, Known
<1>2. ASSUME UNCHANGED bundles, layout' \in {layout, <<>>},
             \A s \in Slugs : Known(outDir'[s]),
             \A s \in sidecars' : s.owner \in Builders \union {Nobody, Lost} /\ Known(s.core),
             \A o \in orphans' : o.slug \in Slugs /\ o.digest \in DOMAIN bundles,
             \A b \in Builders : build'[b].phase \in Phases /\ InHand(b)'
      PROVE  DigestInv'
  BY <1>2 DEF DigestInv, ListedAreMade, Made, Known
<1>3. ASSUME NEW b \in Builders, Moves(b), UNCHANGED bundles, Known(build'[b].core),
             build'[b].phase \in {"idle", "probe", "stop"}
      PROVE  \A c \in Builders : build'[c].phase \in Phases /\ InHand(c)'
  <2>1. build'[b].phase \in Phases /\ InHand(b)'
    BY <1>3 DEF InHand, Known, Made, Phases
  <2> QED
    BY <1>1, <1>3, <2>1 DEF Moves
<1>4. ASSUME NEW b \in Builders, Work(b)
      PROVE  DigestInv'
  BY <1>4, WorkDigests
<1>5. ASSUME NEW b \in Builders, NEW c \in Cells, NEW f \in Flavours, NEW force \in Forces,
             Begin(b, c, f, force)
      PROVE  DigestInv'
  <2>1. /\ Moves(b) /\ build'[b].phase = "probe" /\ build'[b].core = NoDigest
        /\ UNCHANGED <<layout, bundles, outDir, sidecars, orphans>>
    BY <1>5, BeginEffect DEF Begin
  <2> QED
    BY <1>2, <1>3, <2>1 DEF DigestInv, Known
<1>6. ASSUME NEW b \in Builders, Fail(b)
      PROVE  DigestInv'
  <2>1. /\ Moves(b) /\ build'[b].phase = "stop" /\ build'[b].core = build[b].core
        /\ UNCHANGED <<layout, bundles, outDir, sidecars, orphans>>
    BY <1>6, FailEffect DEF Fail, Keeps
  <2> QED
    BY <1>2, <1>3, <2>1 DEF DigestInv, InHand
<1>7. ASSUME NEW b \in Builders, Kill(b)
      PROVE  DigestInv'
  <2>1. /\ Moves(b) /\ build'[b].phase = "idle" /\ build'[b].core = NoDigest
        /\ build[b].phase # "idle" /\ UNCHANGED <<bundles, outDir>>
        /\ layout' \in {layout, <<>>}
    BY <1>7, KillEffect DEF Kill
  <2>2. ASSUME NEW s \in sidecars'
        PROVE  s.owner \in Builders \union {Nobody, Lost} /\ Known(s.core)
    <3>1. CASE s \in sidecars
      BY <3>1 DEF DigestInv
    <3>2. CASE \E z \in Own(b) : s = [owner |-> Nobody, core |-> z.core]
      BY <3>2 DEF Own, DigestInv
    <3> QED
      BY <1>7, <3>1, <3>2 DEF Kill, Left
  <2>3. \A o \in orphans' : o.slug \in Slugs /\ o.digest \in DOMAIN bundles
    <3>1. SlugOf(b) \in Slugs /\ (build[b].phase = "exit" => build[b].digest \in DOMAIN bundles)
      BY <2>1, SlugIsSlug DEF TodoInv, DigestInv, InHand
    <3> QED
      BY <1>7, <3>1 DEF Kill, DigestInv
  <2> QED
    BY <1>2, <1>3, <2>1, <2>2, <2>3 DEF DigestInv, Known
<1>8. CASE OrphanExits
  <2>1. PICK o \in orphans : /\ outDir' = [outDir EXCEPT ![o.slug] = o.digest]
                             /\ orphans' = orphans \ {o}
                             /\ UNCHANGED <<tree, layout, bundles, sidecars, build, past>>
    BY <1>8 DEF OrphanExits
  <2>2. o.digest \in DOMAIN bundles /\ DOMAIN bundles \subseteq Nat
    BY DEF DigestInv, OutDirInv
  <2>3. Known(o.digest)
    BY <2>2, AbsOfMade DEF Known, Made
  <2>4. \A s \in Slugs : Known(outDir'[s])
    BY <2>1, <2>3 DEF OutDirInv, DigestInv
  <2> QED
    BY <1>1, <1>2, <2>1, <2>4 DEF DigestInv
<1>9. CASE EditTree \/ UNCHANGED vars
  BY <1>1, <1>2, <1>9 DEF EditTree, vars, DigestInv
<1> QED
  BY <1>4, <1>5, <1>6, <1>7, <1>8, <1>9 DEF Next

PastInv == past \in Past

LEMMA PastStep == PastInv /\ [Next]_vars => PastInv'
<1> SUFFICES ASSUME past \in Past, [Next]_vars PROVE past' \in Past
  BY DEF PastInv
<1>0. MaxCells \in Nat /\ MaxBreaks \in Nat
  BY BoundsAssumption
<1>1. ASSUME NEW b \in Builders, NEW c \in Cells, NEW f \in Flavours, NEW force \in Forces,
             Begin(b, c, f, force)
      PROVE  past' \in Past
  <2> DEFINE over == past.overlap \/ Live # {}
             clash == past.clash \/ \E d \in Live : build[d].flavour = f
  <2>1. past' = [past EXCEPT !.cells = past.cells + 1, !.overlap = over, !.clash = clash]
        /\ past.cells < MaxCells
    BY <1>1 DEF Begin
  <2>2. over \in BOOLEAN /\ clash \in BOOLEAN
    OBVIOUS
  <2>3. past.cells + 1 \in 0..MaxCells
    BY <1>0, <2>1 DEF Past
  <2> HIDE DEF over, clash
  <2>4. ASSUME NEW n \in 0..MaxCells
        PROVE  [past EXCEPT !.cells = n, !.overlap = over, !.clash = clash] \in Past
    BY <2>2 DEF Past
  <2> QED
    BY <2>1, <2>3, <2>4
<1>2. CASE EditTree
  <2> DEFINE edited == past.edited \/ Live # {}
  <2>1. past' = [past EXCEPT !.edited = edited] /\ edited \in BOOLEAN
    BY <1>2 DEF EditTree
  <2> HIDE DEF edited
  <2> QED
    BY <2>1 DEF Past
<1>3. ASSUME NEW b \in Builders, Fail(b) \/ Kill(b)
      PROVE  past' \in Past
  BY <1>0, <1>3 DEF Fail, Kill, Past
<1>4. ASSUME NEW b \in Builders, Work(b)
      PROVE  past' = past
  BY <1>4 DEF Work, Probe, SweepStaleSidecars, StartSidecar, SeedCore, PrepareOutDir, DockerRun,
         Pack, ContainerExits, ReadBundle, Push, EndItem, ResolveCore
<1>5. CASE OrphanExits \/ UNCHANGED vars
  BY <1>5 DEF OrphanExits, vars
<1> QED
  BY <1>1, <1>2, <1>3, <1>4, <1>5 DEF Next

LEMMA BuildInvariant ==
  Spec => [](Shape /\ TodoInv /\ AloneInv /\ OutDirInv /\ DigestInv /\ CellInv)
<1>1. Init => CellInv
  BY IdleIsBuild DEF Init, CellInv, Live
<1> QED
  BY <1>1, ShapeInit, TodoInit, AloneInit, OutDirInit, DigestInit, ShapeStep, TodoStep,
     AloneStep, OutDirStep, DigestStep, CellStep, PTL DEF Spec

\* Builds keep to the steps of the code, and no manifest, directory, sidecar or
\* process has a digest that no container run made.
THEOREM TypeCorrect == Spec => []TypeOK
<1>1. Init => PastInv
  BY BoundsAssumption DEF Init, Past, PastInv
<1>2. AloneInv /\ TodoInv /\ OutDirInv /\ DigestInv /\ PastInv => TypeOK
  <2> SUFFICES ASSUME AloneInv, TodoInv, OutDirInv, DigestInv, past \in Past PROVE TypeOK
    BY DEF PastInv
  <2>1. \A d : Known(d) => Abs(d) \in {NoDigest} \union DOMAIN bundles
    BY AbsOfMade DEF Known, Made
  <2>2. \A i \in DOMAIN layout : Abs(layout[i].digest) \in DOMAIN bundles
    BY DEF DigestInv, ListedAreMade, Made
  <2> QED
    BY <2>1, <2>2 DEF TypeOK, AloneInv, TodoInv, HasTodo, DigestInv, InHand
<1> QED
  BY <1>1, <1>2, PastStep, BuildInvariant, PTL DEF Spec

-----------------------------------------------------------------------------
(* Warm cells. *)

\* All that is left of a warm cell is in the layout under its present spec hash.
IsWarm(b) ==
    /\ ~build[b].force
    /\ build[b].phase \in {"probe", "stop", "resolve"}
    /\ \A i \in DOMAIN build[b].todo : Published(build[b].todo[i], tree)

WarmInv ==
    ~past.overlap /\ ~past.edited => \A b \in Live : build[b].warm => IsWarm(b)

\* The steps of a warm build: its probe hits.
LEMMA WorkWarm ==
  ASSUME Shape, TodoInv, AloneInv, OutDirInv, DigestInv, NEW b \in Builders, IsWarm(b),
         Work(b)
  PROVE  build'[b].phase = "idle" \/ IsWarm(b)'
<1>1. build[b].phase # "idle" /\ HasTodo(b)
  BY DEF IsWarm, TodoInv
<1>2. tree' = tree /\ layout' = layout
  <2>1. ~Push(b)
    BY DEF IsWarm, Push
  <2> QED
    BY <2>1, WorkShape, WorkLayout
<1>3. \A item : Published(item, tree) => Published(item, tree)'
  BY <1>2 DEF Published
<1>4. CASE Probe(b)
  <2> DEFINE item == Item(b)
             spec == ComputeSpecHash(item, Trees[tree])
  <2>1. Published(item, tree)
    BY <1>1 DEF IsWarm, HasTodo, Item
  <2>2. LookupBySpec(layout, ImageName(item), spec) # NoDigest
    <3>1. PICK i \in DOMAIN layout : LookupBySpec(layout, ImageName(item), spec) = layout[i].digest
      BY <2>1, LookupFinds DEF Published, AloneInv
    <3>2. Made(layout[i].digest)
      BY DEF DigestInv, ListedAreMade
    <3>3. ~Made(NoDigest)
      <4>1. \A S : bundles \in Seq(S) => NoDigest \notin DOMAIN bundles
        BY DEF NoDigest
      <4> QED
        BY <4>1, AbsOfMade DEF Made, OutDirInv
    <3> QED
      BY <3>1, <3>2, <3>3
  <2>3. build'[b].phase = "stop" /\ Keeps(b, {"todo", "force"})
    <3> DEFINE hit == ~build[b].force /\ LookupBySpec(layout, ImageName(item), spec) # NoDigest
               ends == hit \/ (~build[b].force /\ torn)
               x == [build[b] EXCEPT !.spec = spec, !.ok = hit,
                       !.phase = CASE ends -> "stop"
                                   [] ~ends /\ IsExt(item) -> "sweep"
                                   [] OTHER -> "prepare"]
    <3>1. Become(b, x)
      BY <1>4 DEF Probe
    <3>2. hit
      BY <2>2 DEF IsWarm
    <3>3. x = [build[b] EXCEPT !.spec = spec, !.ok = hit, !.phase = "stop"]
      BY <3>2
    <3> HIDE DEF hit, spec, item
    <3>4. IsBuild(x) /\ x.phase = "stop" /\ x.todo = build[b].todo /\ x.force = build[b].force
      <4>1. IsBuild(build[b])
        BY DEF Shape
      <4> QED
        BY <3>3, <4>1 DEF IsBuild, HasFields, BuildFields
    <3> HIDE DEF x
    <3> QED
      BY <3>1, <3>4, Moving DEF Keeps
  <2> QED
    BY <1>3, <2>3 DEF IsWarm, Keeps
<1>5. CASE EndItem(b) \/ ResolveCore(b)
  <2>1. CASE Proceeds(b)
    <3>1. build'[b].todo = build[b].todo /\ build'[b].force = build[b].force
      BY <2>1 DEF Proceeds, Keeps, Steady
    <3>2. build'[b].phase \in {"idle", "probe", "resolve"}
      BY <1>5, EndItemEffect, ResolveCoreEffect
    <3> QED
      BY <1>3, <3>1, <3>2 DEF IsWarm
  <2>2. CASE Advances(b)
    <3>1. /\ build'[b].phase = "probe" /\ build'[b].force = build[b].force
          /\ build'[b].todo = Tail(build[b].todo) /\ Len(build[b].todo) # 1
      BY <2>2 DEF Advances, Keeps
    <3>2. PICK S : build[b].todo \in Seq(S)
      BY <1>1 DEF HasTodo
    <3>3. \A i \in DOMAIN Tail(build[b].todo) :
              \E j \in DOMAIN build[b].todo : Tail(build[b].todo)[i] = build[b].todo[j]
      BY <1>1, <3>1, <3>2, TailElements DEF HasTodo
    <3> QED
      BY <1>3, <3>1, <3>3 DEF IsWarm
  <2> QED
    BY <2>1, <2>2, WorkGoesOn DEF Finishes
<1>6. Probe(b) \/ EndItem(b) \/ ResolveCore(b)
  BY DEF IsWarm, Work, SweepStaleSidecars, StartSidecar, SeedCore, PrepareOutDir, DockerRun,
         Pack, ContainerExits, ReadBundle, Push
<1> QED
  BY <1>4, <1>5, <1>6

LEMMA WarmStep ==
  Shape /\ TodoInv /\ AloneInv /\ OutDirInv /\ DigestInv /\ WarmInv /\ [Next]_vars => WarmInv'
<1> SUFFICES ASSUME Shape, TodoInv, AloneInv, OutDirInv, DigestInv, WarmInv, [Next]_vars,
                    ~past'.overlap, ~past'.edited, NEW b \in Live', build'[b].warm
             PROVE  IsWarm(b)'
  BY DEF WarmInv
<1>0. b \in Builders /\ build'[b].phase # "idle" /\ ~past.overlap
  BY LiveStep DEF Live
<1>1. ASSUME build'[b] = build[b], UNCHANGED <<layout, tree>>, ~past.edited
      PROVE  IsWarm(b)'
  <2>1. b \in Live /\ build[b].warm
    BY <1>0, <1>1 DEF Live
  <2>2. IsWarm(b)
    BY <1>0, <1>1, <2>1 DEF WarmInv
  <2> QED
    BY <1>1, <2>2 DEF IsWarm, Published
<1>2. ASSUME NEW c \in Builders, Work(c)
      PROVE  IsWarm(b)'
  <2>1. past' = past /\ c \in Live /\ b \in Live
    <3>1. past' = past /\ c \in Live
      BY <1>2, WorkShape, OthersKeep DEF Live
    <3>2. b # c => build'[b].phase = build[b].phase
      BY <1>0, <1>2, OthersKeep DEF Keeps, BuildFields
    <3> QED
      BY <1>0, <3>1, <3>2 DEF Live
  <2>2. b = c
    BY <1>0, <2>1 DEF AloneInv
  <2>3. build'[b].warm = build[b].warm
    BY <1>0, <1>2, <2>2, WorkGoesOn DEF Proceeds, Finishes, Advances, Keeps, Steady
  <2>4. IsWarm(b)
    BY <1>0, <2>1, <2>3 DEF WarmInv
  <2> QED
    BY <1>0, <1>2, <2>2, <2>4, WorkWarm
<1>3. ASSUME NEW c \in Builders, NEW core \in Cells, NEW f \in Flavours, NEW force \in Forces,
             Begin(c, core, f, force)
      PROVE  IsWarm(b)'
  <2>1. /\ UNCHANGED <<layout, tree>> /\ past'.edited = past.edited
        /\ past'.overlap = (past.overlap \/ Live # {}) /\ Moves(c)
    BY <1>3, BeginEffect DEF Begin
  <2>2. b = c
    BY <1>0, <2>1 DEF Live, Moves
  <2>3. /\ build'[c].phase = "probe" /\ build'[c].force = force
        /\ build'[c].warm = (~force /\ \A i \in DOMAIN build'[c].todo :
                                          Published(build'[c].todo[i], tree))
    <3> HIDE <1>0, <2>1, <2>2
    <3> QED
      BY <1>3, BeginEffect
  <2>4. ~force /\ \A i \in DOMAIN build'[b].todo : Published(build'[b].todo[i], tree)
    BY <2>2, <2>3
  <2> QED
    BY <2>1, <2>2, <2>3, <2>4 DEF IsWarm, Published
<1>4. ASSUME NEW c \in Builders, Fail(c) \/ Kill(c)
      PROVE  IsWarm(b)'
  <2>0. Fail(c)
    <3>1. CASE Kill(c)
      <4>1. Moves(c) /\ build[c].phase # "idle" /\ build'[c].phase = "idle"
        BY <3>1, KillEffect
      <4> QED
        BY <1>0, <4>1 DEF AloneInv, Live, Moves
    <3> QED
      BY <1>4, <3>1
  <2>1. /\ Moves(c) /\ past'.edited = past.edited /\ UNCHANGED <<layout, tree>>
    BY <2>0, FailEffect DEF Fail, PastFields
  <2>2. CASE b # c
    BY <1>0, <1>1, <2>1, <2>2 DEF Moves
  <2>3. CASE b = c
    <3>1. /\ Keeps(b, {"todo", "force", "warm"}) /\ build'[b].phase = "stop"
          /\ build[b].phase # "idle"
      BY <1>0, <1>4, <2>3, FailEffect, KillEffect DEF Keeps
    <3>2. IsWarm(b)
      BY <1>0, <2>1, <3>1 DEF WarmInv, Live, Keeps
    <3> QED
      BY <2>1, <3>1, <3>2 DEF IsWarm, Keeps, Published
  <2> QED
    BY <2>2, <2>3
<1>5. CASE EditTree
  <2>1. UNCHANGED build /\ past'.edited = (past.edited \/ Live # {})
    BY <1>5, EditTreeEffect
  <2> QED
    BY <1>0, <2>1 DEF Live
<1>6. CASE OrphanExits \/ UNCHANGED vars
  BY <1>1, <1>6 DEF OrphanExits, vars
<1> QED
  BY <1>2, <1>3, <1>4, <1>5, <1>6 DEF Next

\* A cell whose bundles are all in the layout is built again without a container
\* being started: every sub-build ends at its probe, as long as the tree stays
\* put and no other build goes on (LookupBySpec in BuildCore and BuildExt).
THEOREM WarmIsFree == Spec => []WarmCellIsFree
<1>1. Init => WarmInv
  BY IdleIsBuild DEF Init, WarmInv, Live
<1>2. WarmInv => WarmCellIsFree
  BY DEF WarmInv, WarmCellIsFree, IsWarm, Live
<1> QED
  BY <1>1, <1>2, WarmStep, BuildInvariant, PTL DEF Spec

-----------------------------------------------------------------------------
(* What is linked against what. *)

\* A sidecar serves nothing but the core its own sub-build resolved.
IsSidecar(s) == s = [owner |-> s.owner, core |-> s.core]

SeededInv == \A s \in sidecars :
    /\ IsSidecar(s)
    /\ s.owner \in Builders =>
          /\ build[s.owner].phase \in Linking \union {"seed", "stop"}
          /\ s.core \in {NoDigest, build[s.owner].core}

MadeFor(d, spec) == Made(d) /\ bundles[Abs(d)].spec = spec

MadeAsListed(index) == \A i \in DOMAIN index : MadeFor(index[i].digest, index[i].spec)

HashOf(b) == ComputeSpecHash(Item(b), Trees[tree])

\* The cells, the core and the spec hash of a sub-build are of the present tree.
OfTree(b) ==
    /\ build[b].todo \in Seq(AllCells(Trees[tree].catalog))
    /\ IsExt(Item(b)) => MadeFor(build[b].core, ComputeSpecHash(build[b].cell, Trees[tree]))
    /\ build[b].phase \in Linking \union {"sweep", "start", "seed"} => build[b].spec = HashOf(b)

\* What it makes, reads and finds in its directory, whoever wrote it, is of its
\* spec hash.
MakesOfTree(b) ==
    /\ build[b].phase \in {"exit", "append"} => MadeFor(build[b].digest, HashOf(b))
    /\ build[b].phase = "append" => MadeAsListed(build[b].read)
    /\ build[b].phase \in {"mount", "pack", "exit", "read"} =>
          /\ outDir[SlugOf(b)] # NoDigest => MadeFor(outDir[SlugOf(b)], HashOf(b))
          /\ \A o \in orphans : o.slug = SlugOf(b) => MadeFor(o.digest, HashOf(b))

LinkedTo(e) ==
    /\ Made(bundles[e].against)
    /\ \E t \in DOMAIN Trees, core \in Cells :
          /\ core.version = bundles[e].spec.cell.php
          /\ bundles[e].spec \in {ComputeSpecHash(c, Trees[t]) :
                                  c \in AllCells(Trees[t].catalog)}
          /\ bundles[Abs(bundles[e].against)].spec = ComputeSpecHash(core, Trees[t])

AllLinked == \A e \in DOMAIN bundles : IsExt(bundles[e].spec.cell) => LinkedTo(e)

TreeInv ==
    ~past.edited =>
        /\ MadeAsListed(layout)
        /\ \A b \in Live : OfTree(b) /\ MakesOfTree(b)
        /\ AllLinked

\* The same of a digest after a step.
MadeNext(d, spec) ==
    d \in Int /\ Abs(d) \in DOMAIN bundles' /\ bundles'[Abs(d)].spec = spec

LEMMA MadeForGrows ==
  ASSUME BundlesGrow, NEW d, NEW spec, MadeFor(d, spec)
  PROVE  MadeNext(d, spec)
  BY DEF MadeFor, Made, MadeNext, BundlesGrow

\* A cell's key names the cell.
LEMMA CellShape ==
  ASSUME NEW t \in DOMAIN Trees, NEW c \in AllCells(Trees[t].catalog)
  PROVE  \/ ~IsExt(c) /\ c = PhpCell(c.version, c.os, c.arch, c.ts)
         \/ IsExt(c) /\ c = ExtCell(c.extension, c.version, c.php, c.os, c.arch, c.ts)
<1>1. IsCatalog(Trees[t].catalog)
  BY CatalogAssumption
<1> QED
  BY <1>1, ShapeOfCell

LEMMA KeyNames ==
  ASSUME NEW t \in DOMAIN Trees, NEW c \in AllCells(Trees[t].catalog),
         NEW u \in DOMAIN Trees, NEW d \in AllCells(Trees[u].catalog),
         BundleKey(c) = BundleKey(d)
  PROVE  c = d
<1>1. IsCatalog(Trees[t].catalog) /\ IsCatalog(Trees[u].catalog)
  BY CatalogAssumption
<1> QED
  BY <1>1, KeyNamesCell

\* Two sub-builds that share a directory build the same.
LEMMA SlugNames ==
  ASSUME TodoInv, NEW b \in Live, NEW c \in Live, SlugOf(b) = SlugOf(c)
  PROVE  HashOf(b) = HashOf(c)
<1>1. ASSUME NEW d \in Live
      PROVE  \E t \in DOMAIN Trees : Item(d) \in AllCells(Trees[t].catalog)
  <2>1. HasTodo(d) /\ build[d].phase # "idle"
    BY DEF TodoInv, Live
  <2>2. PICK t \in DOMAIN Trees : build[d].todo \in Seq(AllCells(Trees[t].catalog))
    BY <2>1 DEF HasTodo
  <2>3. Item(d) \in AllCells(Trees[t].catalog)
    BY <2>1, <2>2 DEF HasTodo, Item
  <2> QED
    BY <2>3
<1>2. BundleKey(Item(b)) = BundleKey(Item(c))
  BY DEF SlugOf, Slug
<1>3. Item(b) = Item(c)
  BY <1>1, <1>2, KeyNames
<1> QED
  BY <1>3 DEF HashOf

LEMMA WorkSeeded ==
  ASSUME Shape, TodoInv, AloneInv, SeededInv, NEW b \in Builders, Work(b)
  PROVE  SeededInv'
<1> USE DEF Busy
<1> SUFFICES ASSUME NEW s \in sidecars'
             PROVE  /\ IsSidecar(s)
                    /\ s.owner \in Builders => /\ build'[s.owner].phase \in Busy
                                               /\ s.core \in {NoDigest, build'[s.owner].core}
  BY DEF SeededInv, IsSidecar
<1>1. CASE s \in sidecars /\ s.owner \in Builders \ {b}
  <2>1. build'[s.owner].phase = build[s.owner].phase /\ build'[s.owner].core = build[s.owner].core
    BY <1>1, OthersKeep DEF Keeps, BuildFields
  <2> QED
    BY <1>1, <2>1 DEF SeededInv
<1>2. CASE s \in sidecars /\ s.owner = b
  <2>1. /\ build[b].phase \in Busy /\ s.core \in {NoDigest, build[b].core}
        /\ IsSidecar(s)
    BY <1>2 DEF SeededInv
  <2>2. ~EndItem(b)
    BY <1>2, NobodyAssumption DEF EndItem, Own, Left
  <2>3. build'[b].phase \in Linking \union {"stop"} /\ build'[b].core = build[b].core
    <3>1. CASE SeedCore(b)
      <4>1. PICK phase \in {"prepare", "stop"} : Goto(b, phase)
        BY <3>1 DEF SeedCore
      <4> QED
        BY <4>1, GotoEffect DEF Keeps, BuildFields, Linking
    <3>2. CASE PrepareOutDir(b)
      BY <3>2, PrepareOutDirEffect DEF Keeps, BuildFields, Linking
    <3>3. CASE DockerRun(b) \/ Pack(b) \/ ContainerExits(b) \/ ReadBundle(b) \/ Push(b)
      BY <3>3, RunEffect DEF Keeps, Steady, Linking
    <3>4. ~Probe(b) /\ ~SweepStaleSidecars(b) /\ ~StartSidecar(b) /\ ~ResolveCore(b)
      BY <2>1 DEF Probe, SweepStaleSidecars, StartSidecar, ResolveCore, Linking
    <3> QED
      BY <2>2, <3>1, <3>2, <3>3, <3>4 DEF Work
  <2> QED
    BY <1>2, <2>1, <2>3
<1>3. CASE s \notin sidecars
  BY <1>3, WorkSidecars, NobodyAssumption DEF Linking, IsSidecar
<1>4. CASE s \in sidecars /\ s.owner \notin Builders
  BY <1>4 DEF SeededInv
<1> QED
  BY <1>1, <1>2, <1>3, <1>4

LEMMA SeededStep == Shape /\ TodoInv /\ AloneInv /\ SeededInv /\ [Next]_vars => SeededInv'
<1> SUFFICES ASSUME Shape, TodoInv, AloneInv, SeededInv, [Next]_vars PROVE SeededInv'
  OBVIOUS
<1>1. ASSUME NEW b \in Builders, Moves(b), sidecars' = sidecars,
             build[b].phase \in Linking \union {"seed", "stop"} =>
                build'[b].phase = "stop" /\ build'[b].core = build[b].core
      PROVE  SeededInv'
  BY <1>1 DEF SeededInv, Moves, IsSidecar
<1>2. ASSUME NEW b \in Builders, NEW c \in Cells, NEW f \in Flavours, NEW force \in Forces,
             Begin(b, c, f, force)
      PROVE  SeededInv'
  BY <1>1, <1>2, BeginEffect DEF Begin, Linking
<1>3. ASSUME NEW b \in Builders, Fail(b)
      PROVE  SeededInv'
  BY <1>1, <1>3, FailEffect DEF Fail, Keeps
<1>4. ASSUME NEW b \in Builders, Kill(b)
      PROVE  SeededInv'
  <2>1. Moves(b)
    BY <1>4, KillEffect
  <2>2. ASSUME NEW s \in sidecars'
        PROVE  IsSidecar(s) /\ (s.owner \in Builders => s \in sidecars /\ s.owner # b)
    <3>1. CASE s \in sidecars \ Own(b)
      BY <3>1 DEF SeededInv, Own
    <3>2. CASE s \in Left(Own(b), Nobody)
      BY <3>2, NobodyAssumption DEF Left, IsSidecar
    <3> QED
      BY <1>4, <3>1, <3>2 DEF Kill
  <2> QED
    BY <2>1, <2>2 DEF SeededInv, Moves, IsSidecar
<1>5. CASE EditTree \/ OrphanExits \/ UNCHANGED vars
  BY <1>5 DEF EditTree, OrphanExits, vars, SeededInv, IsSidecar
<1> QED
  BY <1>2, <1>3, <1>4, <1>5, WorkSeeded DEF Next

LEMMA WorkOfTree ==
  ASSUME Shape, TodoInv, AloneInv, CellInv, MadeAsListed(layout), NEW b \in Builders,
         OfTree(b), Work(b), BundlesGrow, build'[b].phase # "idle"
  PROVE  OfTree(b)'
<1>1. tree' = tree /\ build[b].phase # "idle" /\ HasTodo(b) /\ b \in Live
  BY WorkShape, OthersKeep DEF TodoInv, Live
<1> DEFINE coreSpec == ComputeSpecHash(build[b].cell, Trees[tree])
<1>2. CASE Proceeds(b)
  <2>1. /\ build'[b].todo = build[b].todo /\ build'[b].core = build[b].core
        /\ build'[b].cell = build[b].cell
    BY <1>2 DEF Proceeds, Keeps, Steady
  <2>2. HashOf(b)' = HashOf(b) /\ Item(b)' = Item(b)
    BY <1>1, <2>1 DEF HashOf, Item
  <2>3. build'[b].phase \in Linking \union {"sweep", "start", "seed"} => build'[b].spec = HashOf(b)
    <3>1. CASE Probe(b)
      BY <3>1, ProbeEffect DEF HashOf
    <3>2. CASE SweepStaleSidecars(b) \/ StartSidecar(b) \/ SeedCore(b)
      <4>1. PICK phase : Goto(b, phase)
        BY <3>2 DEF SweepStaleSidecars, StartSidecar, SeedCore
      <4>2. build'[b].spec = build[b].spec
        BY <4>1, GotoEffect DEF Keeps, BuildFields
      <4> QED
        BY <3>2, <4>2 DEF OfTree, SweepStaleSidecars, StartSidecar, SeedCore
    <3>3. CASE PrepareOutDir(b)
      BY <3>3, PrepareOutDirEffect DEF OfTree, Keeps, BuildFields, Linking
    <3>4. CASE DockerRun(b) \/ Pack(b) \/ ContainerExits(b) \/ ReadBundle(b) \/ Push(b)
      BY <3>4, RunEffect DEF OfTree, Linking
    <3>5. CASE EndItem(b) \/ ResolveCore(b)
      BY <3>5, EndItemEffect, ResolveCoreEffect DEF Linking
    <3> QED
      BY <3>1, <3>2, <3>3, <3>4, <3>5 DEF Work
  <2>4. IsExt(Item(b)) => MadeNext(build[b].core, coreSpec)
    BY MadeForGrows DEF OfTree
  <2>5. (IsExt(Item(b)) => MadeFor(build[b].core, ComputeSpecHash(build[b].cell, Trees[tree])))'
    BY <1>1, <2>1, <2>2, <2>4 DEF MadeFor, Made, MadeNext
  <2> QED
    BY <1>1, <2>1, <2>2, <2>3, <2>5 DEF OfTree
<1>3. CASE Advances(b)
  <2>1. /\ build'[b].todo = Tail(build[b].todo) /\ build'[b].phase = "probe"
        /\ build'[b].cell = build[b].cell /\ Len(build[b].todo) # 1
    BY <1>3 DEF Advances, Keeps
  <2>2. build'[b].todo \in Seq(AllCells(Trees[tree].catalog))
    BY <1>1, <2>1, TailLeft DEF OfTree, HasTodo
  <2>3. MadeFor(build'[b].core, coreSpec)
    <3>1. CASE build[b].phase = "stop"
      BY <1>3, <3>1 DEF Advances, OfTree
    <3>2. CASE build[b].phase # "stop"
      <4>1. /\ build[b].phase = "resolve" /\ build'[b].core # NoDigest
            /\ build'[b].core = LookupBySpec(layout, <<"php-core">>,
                                             ComputeSpecHash(Item(b), Trees[tree]))
        BY <1>3, <3>2 DEF Advances
      <4>2. Item(b) = build[b].cell
        BY <1>1, <4>1 DEF CellInv, OfCell, HasTodo, Item
      <4>3. build'[b].core = LookupBySpec(layout, <<"php-core">>, coreSpec)
        BY <4>1, <4>2
      <4> HIDE DEF coreSpec
      <4>4. PICK i \in DOMAIN layout :
               layout[i].spec = coreSpec /\ build'[b].core = layout[i].digest
        BY <4>1, <4>3, LookupFinds DEF AloneInv
      <4> QED
        BY <4>4 DEF MadeAsListed
    <3> QED
      BY <3>1, <3>2
  <2>4. MadeFor(build[b].core, ComputeSpecHash(build[b].cell, Trees[tree]))'
    <3>1. MadeNext(build'[b].core, coreSpec)
      BY <2>3, MadeForGrows
    <3> QED
      BY <1>1, <2>1, <3>1 DEF MadeFor, Made, MadeNext
  <2> QED
    BY <1>1, <2>1, <2>2, <2>4 DEF OfTree, Linking
<1> QED
  BY <1>2, <1>3, WorkGoesOn DEF Finishes

\* The hash of an extension names it and its version of PHP.
LEMMA HashOfExtension ==
  ASSUME NEW t \in DOMAIN Trees, NEW c \in AllCells(Trees[t].catalog)
  PROVE  LET spec == ComputeSpecHash(c, Trees[t])
         IN  (IsExt(spec.cell) <=> IsExt(c)) /\ (IsExt(c) => spec.cell.php = c.php)
<1> DEFINE x == IF IsExt(c) THEN [c EXCEPT !.version = NoValue] ELSE c
<1>1. ComputeSpecHash(c, Trees[t]).cell = x
  BY DEF ComputeSpecHash, HashOver
<1>2. CASE IsExt(c)
  <2>1. c = ExtCell(c.extension, c.version, c.php, c.os, c.arch, c.ts)
    BY <1>2, CellShape
  <2>2. x.extension = c.extension /\ x.php = c.php
    BY <1>2, <2>1 DEF ExtCell
  <2> QED
    BY <1>1, <1>2, <2>2 DEF IsExt
<1>3. CASE ~IsExt(c)
  BY <1>1, <1>3
<1> QED
  BY <1>2, <1>3

\* A process's own bundle, directory and copy of the index.
LEMMA WorkMakes ==
  ASSUME Shape, TodoInv, AloneInv, OutDirInv, MadeAsListed(layout), NEW b \in Builders,
         OfTree(b), MakesOfTree(b), Work(b), BundlesGrow
  PROVE  MakesOfTree(b)'
<1>1. /\ tree' = tree /\ build[b].phase # "idle"
      /\ SlugOf(b) \in DOMAIN outDir /\ orphans' \subseteq orphans
  BY WorkFiles, OthersKeep, SlugIsSlug DEF OutDirInv, TodoInv
<1> DEFINE spec == HashOf(b)
           Dir == {"mount", "pack", "exit", "read"}
<1>2. CASE build'[b].phase \notin Dir \union {"append"}
  BY <1>2 DEF MakesOfTree
<1> SUFFICES ASSUME build'[b].phase \in Dir \union {"append"} PROVE MakesOfTree(b)'
  BY <1>2
<1>3. PrepareOutDir(b) \/ DockerRun(b) \/ Pack(b) \/ ContainerExits(b) \/ ReadBundle(b)
  <2>1. CASE SweepStaleSidecars(b) \/ StartSidecar(b) \/ SeedCore(b)
    <3>1. PICK phase \in {"start", "seed", "prepare", "stop"} : Goto(b, phase)
      BY <2>1 DEF SweepStaleSidecars, StartSidecar, SeedCore
    <3> QED
      BY <3>1, GotoEffect
  <2>2. ~Probe(b) /\ ~Push(b) /\ ~EndItem(b) /\ ~ResolveCore(b)
    BY ProbeEffect, PushEffect, EndItemEffect, ResolveCoreEffect
  <2> QED
    BY <2>1, <2>2 DEF Work
<1>4. /\ build'[b].todo = build[b].todo /\ build'[b].flavour = build[b].flavour
      /\ build'[b].spec = build[b].spec
  <2>1. CASE PrepareOutDir(b)
    BY <2>1, PrepareOutDirEffect DEF Keeps, BuildFields
  <2>2. CASE ~PrepareOutDir(b)
    BY <1>3, <2>2, RunEffect DEF Keeps, Steady
  <2> QED
    BY <2>1, <2>2
<1>5. HashOf(b)' = spec /\ SlugOf(b)' = SlugOf(b)
  BY <1>1, <1>4 DEF HashOf, SlugOf, Item
<1>6. build[b].spec = spec /\ build[b].phase \in Dir \union {"prepare"}
  <2>1. build[b].phase \in Dir \union {"prepare"}
    BY <1>3 DEF PrepareOutDir, DockerRun, Pack, ContainerExits, ReadBundle
  <2> QED
    BY <2>1 DEF OfTree, Linking
<1>7. build'[b].phase = "exit" => MadeNext(build'[b].digest, spec)
  <2> SUFFICES ASSUME build'[b].phase = "exit" PROVE MadeNext(build'[b].digest, spec)
    OBVIOUS
  <2>1. Pack(b)
    BY WorkReaches
  <2> QED
    BY <2>1, PackMakes, AbsOfMade DEF HashOf, MadeNext
<1>8. build'[b].phase = "append" => MadeNext(build'[b].digest, spec) /\ build'[b].read = layout
  <2> SUFFICES ASSUME build'[b].phase = "append"
               PROVE  MadeNext(build'[b].digest, spec) /\ build'[b].read = layout
    OBVIOUS
  <2>1. /\ build'[b].read = layout /\ build'[b].digest = outDir[SlugOf(b)]
        /\ ReadBundle(b) /\ build[b].phase = "read"
    BY WorkReaches, ReadBundleEffect
  <2>2. outDir[SlugOf(b)] # NoDigest
    BY <2>1, GotoEffect DEF ReadBundle
  <2>3. MadeFor(outDir[SlugOf(b)], spec)
    BY <2>1, <2>2 DEF MakesOfTree
  <2> QED
    BY <2>1, <2>3, MadeForGrows
<1>9. \A i \in DOMAIN layout : MadeNext(layout[i].digest, layout[i].spec)
  BY MadeForGrows DEF MadeAsListed
<1>10. build'[b].phase \in Dir =>
          /\ outDir'[SlugOf(b)] # NoDigest => MadeNext(outDir'[SlugOf(b)], spec)
          /\ \A o \in orphans' : o.slug = SlugOf(b) => MadeNext(o.digest, spec)
  <2>1. CASE PrepareOutDir(b)
    BY <1>1, <2>1 DEF PrepareOutDir
  <2>2. CASE ~PrepareOutDir(b)
    <3>1. build[b].phase \in Dir
      BY <1>3, <2>2 DEF DockerRun, Pack, ContainerExits, ReadBundle
    <3>2. \A o \in orphans' : o.slug = SlugOf(b) => MadeNext(o.digest, spec)
      BY <1>1, <3>1, MadeForGrows DEF MakesOfTree
    <3>3. CASE outDir'[SlugOf(b)] = outDir[SlugOf(b)]
      BY <3>1, <3>2, <3>3, MadeForGrows DEF MakesOfTree
    <3>4. CASE Pack(b) /\ build'[b].phase = "exit" /\ outDir'[SlugOf(b)] = -(Len(bundles) + 1)
      <4>1. MadeNext(-(Len(bundles) + 1), spec)
        BY <3>4, PackMakes, AbsOfMade DEF HashOf, MadeNext
      <4> QED
        BY <3>2, <3>4, <4>1
    <3>5. CASE ContainerExits(b) /\ outDir'[SlugOf(b)] = build[b].digest
      <4>1. MadeFor(build[b].digest, spec)
        BY <3>5 DEF ContainerExits, MakesOfTree
      <4> QED
        BY <3>2, <3>5, <4>1, MadeForGrows
    <3> QED
      BY <1>1, <2>2, <3>3, <3>4, <3>5, WorkWrites
  <2> QED
    BY <2>1, <2>2
<1> HIDE DEF spec
<1> QED
  BY <1>5, <1>7, <1>8, <1>9, <1>10 DEF MakesOfTree, MadeAsListed, MadeFor, Made, MadeNext

\* What a process keeps while others take their steps.
LEMMA TreeKept ==
  ASSUME BundlesGrow, tree' = tree, NEW c \in Builders, Keeps(c, BuildFields \ {"mounted"}),
         OfTree(c), MakesOfTree(c),
         build[c].phase \in {"mount", "pack", "exit", "read"} =>
            /\ \/ outDir'[SlugOf(c)] \in {outDir[SlugOf(c)], NoDigest}
               \/ MadeNext(outDir'[SlugOf(c)], HashOf(c))
            /\ \A o \in orphans' : o \in orphans \/ (o.slug = SlugOf(c) =>
                                                       MadeNext(o.digest, HashOf(c)))
  PROVE  OfTree(c)' /\ MakesOfTree(c)'
<1>1. /\ build'[c].phase = build[c].phase /\ build'[c].todo = build[c].todo
      /\ build'[c].core = build[c].core /\ build'[c].cell = build[c].cell
      /\ build'[c].spec = build[c].spec /\ build'[c].flavour = build[c].flavour
      /\ build'[c].digest = build[c].digest /\ build'[c].read = build[c].read
  BY DEF Keeps, BuildFields
<1>2. HashOf(c)' = HashOf(c) /\ SlugOf(c)' = SlugOf(c) /\ Item(c)' = Item(c)
  BY <1>1 DEF HashOf, SlugOf, Item
<1>3. OfTree(c)'
  <2> DEFINE coreSpec == ComputeSpecHash(build[c].cell, Trees[tree])
  <2>1. IsExt(Item(c)) => MadeNext(build[c].core, coreSpec)
    BY MadeForGrows DEF OfTree
  <2>2. (IsExt(Item(c)) => MadeFor(build[c].core, ComputeSpecHash(build[c].cell, Trees[tree])))'
    BY <1>1, <1>2, <2>1 DEF MadeFor, Made, MadeNext
  <2> QED
    BY <1>1, <1>2, <2>2 DEF OfTree
<1>4. MakesOfTree(c)'
  <2> DEFINE spec == HashOf(c)
             Dir == {"mount", "pack", "exit", "read"}
  <2>1. build[c].phase \in {"exit", "append"} => MadeNext(build[c].digest, spec)
    BY MadeForGrows DEF MakesOfTree
  <2>2. build[c].phase = "append" =>
            \A i \in DOMAIN build[c].read : MadeNext(build[c].read[i].digest, build[c].read[i].spec)
    BY MadeForGrows DEF MakesOfTree, MadeAsListed
  <2>3. build[c].phase \in Dir =>
            /\ outDir'[SlugOf(c)] # NoDigest => MadeNext(outDir'[SlugOf(c)], spec)
            /\ \A o \in orphans' : o.slug = SlugOf(c) => MadeNext(o.digest, spec)
    BY MadeForGrows DEF MakesOfTree
  <2> HIDE DEF spec
  <2> QED
    BY <1>1, <1>2, <2>1, <2>2, <2>3 DEF MakesOfTree, MadeAsListed, MadeFor, Made, MadeNext, spec
<1> QED
  BY <1>3, <1>4

LEMMA WorkOthersOfTree ==
  ASSUME Shape, TodoInv, AloneInv, OutDirInv, NEW b \in Builders, Work(b), BundlesGrow,
         b \in Live, MakesOfTree(b), NEW c \in Live \ {b}, OfTree(c), MakesOfTree(c)
  PROVE  OfTree(c)' /\ MakesOfTree(c)'
<1>1. /\ c \in Builders /\ Keeps(c, BuildFields \ {"mounted"})
      /\ tree' = tree /\ orphans' \subseteq orphans /\ SlugOf(c) \in DOMAIN outDir
  BY WorkFiles, OthersKeep, SlugIsSlug DEF Live, OutDirInv, TodoInv
<1>2. ASSUME outDir'[SlugOf(c)] \notin {outDir[SlugOf(c)], NoDigest}
      PROVE  MadeNext(outDir'[SlugOf(c)], HashOf(c))
  <2>1. SlugOf(c) = SlugOf(b)
    BY <1>1, <1>2, WorkWrites
  <2>2. HashOf(c) = HashOf(b)
    BY <2>1, SlugNames
  <2>3. CASE Pack(b) /\ build'[b].phase = "exit" /\ outDir'[SlugOf(c)] = -(Len(bundles) + 1)
    BY <2>2, <2>3, PackMakes, AbsOfMade DEF HashOf, MadeNext
  <2>4. CASE ContainerExits(b) /\ outDir'[SlugOf(c)] = build[b].digest
    <3>1. MadeFor(build[b].digest, HashOf(b))
      BY <2>4 DEF ContainerExits, MakesOfTree
    <3> QED
      BY <2>2, <2>4, <3>1, MadeForGrows
  <2> QED
    BY <1>1, <1>2, <2>3, <2>4, WorkWrites
<1>3. \A o \in orphans' : o \in orphans
  BY <1>1
<1> QED
  BY <1>1, <1>2, <1>3, TreeKept

\* A push lists what was made for the hash it lists it under.
LEMMA WorkListed ==
  ASSUME Shape, AloneInv, MadeAsListed(layout), NEW b \in Builders, OfTree(b), MakesOfTree(b),
         Work(b), BundlesGrow
  PROVE  MadeAsListed(layout)'
<1> SUFFICES \A i \in DOMAIN layout' : MadeNext(layout'[i].digest, layout'[i].spec)
  BY DEF MadeAsListed, MadeFor, Made, MadeNext
<1>1. CASE layout' = layout
  BY <1>1, MadeForGrows DEF MadeAsListed
<1>2. CASE Push(b)
  <2> DEFINE index == build[b].read
             m == [name |-> ImageName(Item(b)), key |-> BundleKey(Item(b)),
                   spec |-> build[b].spec, digest |-> build[b].digest]
  <2>1. layout' = Append(index, m) /\ build[b].phase = "append"
    BY <1>2, PushEffect
  <2>2. MadeAsListed(index) /\ MadeFor(build[b].digest, build[b].spec)
    BY <2>1 DEF OfTree, MakesOfTree, Linking
  <2>3. PICK S : index \in Seq(S)
    BY <2>1 DEF AloneInv
  <2>4. MadeFor(m.digest, m.spec)
    BY <2>2
  <2> HIDE DEF m, index
  <2>5. /\ DOMAIN layout' = 1..(Len(index) + 1) /\ layout'[Len(index) + 1] = m
        /\ \A i \in DOMAIN index : layout'[i] = index[i]
        /\ DOMAIN index = 1..Len(index) /\ Len(index) \in Nat
    BY <2>1, <2>3, Appended
  <2>6. ASSUME NEW i \in DOMAIN layout'
        PROVE  MadeFor(layout'[i].digest, layout'[i].spec)
    <3>1. i \in DOMAIN index \/ layout'[i] = m
      BY <2>5
    <3> QED
      BY <2>2, <2>4, <2>5, <3>1 DEF MadeAsListed
  <2> QED
    BY <2>6, MadeForGrows
<1> QED
  BY <1>1, <1>2, WorkLayout

\* The links of a bundle stay when others are made.
LEMMA LinksKept ==
  ASSUME BundlesGrow, NEW e \in DOMAIN bundles, LinkedTo(e)
  PROVE  LinkedTo(e)'
<1>1. Abs(bundles[e].against) \in DOMAIN bundles /\ bundles[e].against \in Int
  BY DEF LinkedTo, Made
<1>2. /\ bundles'[e] = bundles[e]
      /\ bundles'[Abs(bundles[e].against)] = bundles[Abs(bundles[e].against)]
      /\ DOMAIN bundles \subseteq DOMAIN bundles'
  BY <1>1 DEF BundlesGrow
<1>3. Made(bundles[e].against)'
  BY <1>1, <1>2 DEF Made
<1> QED
  BY <1>1, <1>2, <1>3 DEF LinkedTo

\* A container links its extension against the core its own sub-build resolved.
LEMMA WorkLinks ==
  ASSUME Shape, TodoInv, OutDirInv, CellInv, SeededInv, AllLinked, NEW b \in Live, OfTree(b),
         Work(b), BundlesGrow
  PROVE  AllLinked'
<1>0. b \in Builders
  BY DEF Live
<1> SUFFICES ASSUME NEW e \in DOMAIN bundles', IsExt(bundles'[e].spec.cell)
             PROVE  LinkedTo(e)'
  BY DEF AllLinked
<1>1. CASE e \in DOMAIN bundles
  <2>1. LinkedTo(e)
    BY <1>1 DEF AllLinked, BundlesGrow
  <2> QED
    BY <1>1, <2>1, LinksKept
<1>2. CASE e \notin DOMAIN bundles
  <2>1. Pack(b) /\ build'[b].phase = "exit"
    <3>1. Pack(b)
      BY <1>2 DEF Work, Probe, SweepStaleSidecars, StartSidecar, SeedCore, PrepareOutDir,
                  DockerRun, ContainerExits, ReadBundle, Push, EndItem, ResolveCore
    <3> QED
      BY <1>0, <1>2, <3>1, PackEffect
  <2>2. PICK r : /\ bundles'[e] = r
                 /\ r.spec = ComputeSpecHash(Item(b), Trees[tree])
                 /\ IsExt(Item(b)) => r.against \in {s.core : s \in Own(b)} \ {NoDigest}
    BY <1>0, <1>2, <2>1, PackMakes
  <2> DEFINE item == Item(b)
             core == build[b].cell
  <2>3. tree \in DOMAIN Trees /\ item \in AllCells(Trees[tree].catalog)
    <3>1. build[b].todo \in Seq(AllCells(Trees[tree].catalog)) /\ build[b].todo # <<>>
      BY <1>0 DEF OfTree, TodoInv, HasTodo, Live
    <3> QED
      BY <3>1 DEF Item, TodoInv
  <2>4. IsExt(item) /\ r.spec.cell.php = item.php
    BY <2>2, <2>3, HashOfExtension
  <2>5. core \in Cells /\ item.php = core.version
    <3>1. 1 \in DOMAIN build[b].todo
      BY <1>0 DEF TodoInv, HasTodo, Live
    <3> QED
      BY <2>4, <3>1 DEF CellInv, OfCell, Item
  <2>6. r.against = build[b].core
    <3>1. \A s \in Own(b) : s.core \in {NoDigest, build[b].core}
      BY <1>0 DEF SeededInv, Own
    <3> QED
      BY <2>2, <2>4, <3>1
  <2>7. MadeNext(r.against, ComputeSpecHash(core, Trees[tree]))
    <3>1. MadeFor(build[b].core, ComputeSpecHash(build[b].cell, Trees[tree]))
      BY <2>4 DEF OfTree
    <3> QED
      BY <2>6, <3>1, MadeForGrows
  <2>8. r.spec \in {ComputeSpecHash(c, Trees[tree]) : c \in AllCells(Trees[tree].catalog)}
    BY <2>2, <2>3
  <2> HIDE DEF item, core
  <2> QED
    BY <2>2, <2>3, <2>4, <2>5, <2>7, <2>8 DEF LinkedTo, Made, MadeNext
<1> QED
  BY <1>1, <1>2

LEMMA WorkTree ==
  ASSUME Shape, TodoInv, AloneInv, OutDirInv, CellInv, SeededInv, TreeInv,
         NEW b \in Builders, Work(b)
  PROVE  TreeInv'
<1>1. past' = past /\ b \in Live
  BY WorkShape, OthersKeep DEF Live
<1>2. PICK r : bundles' = bundles \/ bundles' = Append(bundles, r)
  BY WorkFiles
<1>3. BundlesGrow
  BY <1>2, AppendGrows
<1> SUFFICES ASSUME ~past.edited
             PROVE  MadeAsListed(layout)' /\ AllLinked'
                    /\ \A c \in Live' : OfTree(c)' /\ MakesOfTree(c)'
  BY <1>1 DEF TreeInv
<1>4. /\ MadeAsListed(layout) /\ AllLinked
      /\ \A c \in Live : OfTree(c) /\ MakesOfTree(c)
  BY DEF TreeInv
<1>5. MadeAsListed(layout)'
  BY <1>1, <1>3, <1>4, WorkListed
<1>6. AllLinked'
  BY <1>1, <1>3, <1>4, WorkLinks
<1>7. ASSUME NEW c \in Live'
      PROVE  OfTree(c)' /\ MakesOfTree(c)'
  <2>1. CASE c = b
    BY <1>1, <1>3, <1>4, <1>7, <2>1, WorkOfTree, WorkMakes DEF Live
  <2>2. CASE c # b
    <3>1. c \in Live
      BY <1>7, <2>2, OthersKeep DEF Live, Keeps, BuildFields
    <3> QED
      BY <1>1, <1>3, <1>4, <2>2, <3>1, WorkOthersOfTree
  <2> QED
    BY <2>1, <2>2
<1> QED
  BY <1>5, <1>6, <1>7

\* The other steps make no bundle and push nothing: of the processes that stay
\* as they are, what they find in their directories has to be checked.
LEMMA RestTree ==
  ASSUME Shape, TreeInv, UNCHANGED <<tree, bundles>>, layout' \in {layout, <<>>},
         past'.edited = past.edited, NEW Movers, \A c \in Live' \ Movers : build'[c] = build[c],
         ~past.edited => \A c \in Live \ Movers :
            build[c].phase \in {"mount", "pack", "exit", "read"} =>
               /\ \/ outDir'[SlugOf(c)] \in {outDir[SlugOf(c)], NoDigest}
                  \/ MadeNext(outDir'[SlugOf(c)], HashOf(c))
               /\ \A o \in orphans' : o \in orphans \/ (o.slug = SlugOf(c) =>
                                                          MadeNext(o.digest, HashOf(c))),
         ~past.edited => \A c \in Live' \cap Movers : OfTree(c)' /\ MakesOfTree(c)'
  PROVE  TreeInv'
<1> SUFFICES ASSUME ~past.edited
             PROVE  MadeAsListed(layout)' /\ AllLinked'
                    /\ \A c \in Live' : OfTree(c)' /\ MakesOfTree(c)'
  BY DEF TreeInv
<1>1. /\ MadeAsListed(layout) /\ AllLinked
      /\ \A c \in Live : OfTree(c) /\ MakesOfTree(c)
  BY DEF TreeInv
<1>2. BundlesGrow
  BY DEF BundlesGrow
<1>3. MadeAsListed(layout)'
  BY <1>1 DEF MadeAsListed, MadeFor, Made
<1>4. AllLinked'
  BY <1>1, <1>2, LinksKept DEF AllLinked
<1>5. ASSUME NEW c \in Live' \ Movers
      PROVE  OfTree(c)' /\ MakesOfTree(c)'
  <2>1. build'[c] = build[c] /\ c \in Live
    BY <1>5 DEF Live
  <2>2. Keeps(c, BuildFields \ {"mounted"}) /\ c \in Builders /\ c \in Live \ Movers
    BY <1>5, <2>1 DEF Keeps, Live
  <2>3. OfTree(c) /\ MakesOfTree(c)
    BY <1>1, <2>1
  <2> QED
    BY <1>2, <2>2, <2>3, TreeKept
<1> QED
  BY <1>3, <1>4, <1>5

LEMMA TreeStep ==
  Shape /\ TodoInv /\ AloneInv /\ OutDirInv /\ CellInv /\ SeededInv /\ TreeInv /\ [Next]_vars
     => TreeInv'
<1> SUFFICES ASSUME Shape, TodoInv, AloneInv, OutDirInv, CellInv, SeededInv, TreeInv,
                    [Next]_vars
             PROVE  TreeInv'
  OBVIOUS
<1>1. ASSUME NEW b \in Builders, Work(b)
      PROVE  TreeInv'
  BY <1>1, WorkTree
<1>2. ASSUME NEW b \in Builders, NEW core \in Cells, NEW f \in Flavours, NEW force \in Forces,
             Begin(b, core, f, force)
      PROVE  TreeInv'
  <2>1. /\ Moves(b) /\ build'[b].phase = "probe"
        /\ build'[b].todo = ItemsOf(core, Trees[tree].catalog) /\ past'.edited = past.edited
        /\ UNCHANGED <<tree, layout, bundles, outDir, orphans>>
    BY <1>2, BeginEffect DEF Begin
  <2>2. OfTree(b)'
    <3>1. /\ build'[b].todo \in Seq(AllCells(Trees[tree].catalog))
          /\ ~IsExt(build'[b].todo[1])
      BY <2>1, ItemsAreCells DEF TodoInv
    <3> QED
      BY <2>1, <3>1 DEF OfTree, Item, Linking
  <2>3. MakesOfTree(b)'
    BY <2>1 DEF MakesOfTree
  <2>4. \A c \in Live' \ {b} : build'[c] = build[c]
    BY <2>1 DEF Moves, Live
  <2> QED
    BY <2>1, <2>2, <2>3, <2>4, RestTree
<1>3. ASSUME NEW b \in Builders, Fail(b)
      PROVE  TreeInv'
  <2>1. /\ Moves(b) /\ build[b].phase # "idle" /\ build'[b].phase = "stop"
        /\ build'[b].todo = build[b].todo /\ build'[b].core = build[b].core
        /\ build'[b].cell = build[b].cell /\ past'.edited = past.edited
        /\ UNCHANGED <<tree, layout, bundles, outDir, orphans>>
    BY <1>3, FailEffect DEF Fail, Keeps, PastFields
  <2>2. ASSUME ~past.edited PROVE OfTree(b)' /\ MakesOfTree(b)'
    <3>1. OfTree(b)
      BY <2>1, <2>2 DEF TreeInv, Live
    <3>2. OfTree(b)'
      BY <2>1, <3>1 DEF OfTree, Item, Linking, MadeFor, Made
    <3> QED
      BY <2>1, <3>2 DEF MakesOfTree
  <2>3. \A c \in Live' \ {b} : build'[c] = build[c]
    BY <2>1 DEF Moves, Live
  <2> QED
    BY <2>1, <2>2, <2>3, RestTree
<1>4. ASSUME NEW b \in Builders, Kill(b)
      PROVE  TreeInv'
  <2>1. /\ Moves(b) /\ build[b].phase # "idle" /\ build'[b].phase = "idle"
        /\ past'.edited = past.edited /\ UNCHANGED <<tree, bundles, outDir>>
        /\ layout' \in {layout, <<>>}
    BY <1>4, KillEffect DEF Kill, PastFields
  <2>2. ASSUME ~past.edited, NEW c \in Live, NEW o \in orphans', o \notin orphans,
               o.slug = SlugOf(c)
        PROVE  MadeNext(o.digest, HashOf(c))
    <3>1. build[b].phase = "exit" /\ o = [slug |-> SlugOf(b), digest |-> build[b].digest]
      BY <1>4, <2>2 DEF Kill
    <3>2. b \in Live /\ o.slug = SlugOf(b) /\ o.digest = build[b].digest
      BY <2>1, <3>1 DEF Live
    <3>3. MadeFor(build[b].digest, HashOf(b))
      BY <2>2, <3>1, <3>2 DEF TreeInv, MakesOfTree
    <3>4. HashOf(c) = HashOf(b)
      BY <2>2, <3>2, SlugNames
    <3>5. BundlesGrow
      BY <2>1 DEF BundlesGrow
    <3> QED
      BY <3>2, <3>3, <3>4, <3>5, MadeForGrows
  <2>3. \A c \in Live' \ {b} : build'[c] = build[c]
    BY <2>1 DEF Moves, Live
  <2>4. Live' \cap {b} = {}
    BY <2>1 DEF Live
  <2> QED
    BY <2>1, <2>2, <2>3, <2>4, RestTree
<1>5. CASE OrphanExits
  <2>1. PICK o \in orphans : /\ outDir' = [outDir EXCEPT ![o.slug] = o.digest]
                             /\ orphans' = orphans \ {o}
                             /\ UNCHANGED <<tree, layout, bundles, sidecars, build, past>>
    BY <1>5 DEF OrphanExits
  <2>2. ASSUME ~past.edited, NEW c \in Live, build[c].phase \in {"mount", "pack", "exit", "read"}
        PROVE  outDir'[SlugOf(c)] = outDir[SlugOf(c)] \/ MadeNext(outDir'[SlugOf(c)], HashOf(c))
    <3>1. CASE SlugOf(c) # o.slug
      BY <2>1, <3>1
    <3>2. CASE SlugOf(c) = o.slug
      <4>1. MadeFor(o.digest, HashOf(c))
        BY <2>2, <3>2 DEF TreeInv, MakesOfTree
      <4>2. BundlesGrow
        BY <2>1 DEF BundlesGrow
      <4>3. SlugOf(c) \in DOMAIN outDir
        BY <2>2, SlugIsSlug DEF Live, OutDirInv, TodoInv
      <4> QED
        BY <2>1, <3>2, <4>1, <4>2, <4>3, MadeForGrows
    <3> QED
      BY <3>1, <3>2
  <2>3. /\ UNCHANGED <<tree, layout, bundles>> /\ past'.edited = past.edited
        /\ \A c : build'[c] = build[c]
        /\ \A q \in orphans' : q \in orphans
    BY <2>1
  <2> DEFINE Movers == {}
  <2>4. \A c : c \notin Movers
    OBVIOUS
  <2> HIDE DEF Movers
  <2> QED
    BY <2>2, <2>3, <2>4, RestTree
<1>6. CASE EditTree
  <2>1. /\ UNCHANGED <<build, layout, bundles>>
        /\ past'.edited = (past.edited \/ Live # {})
    BY <1>6, EditTreeEffect DEF EditTree
  <2>2. ASSUME ~past'.edited PROVE ~past.edited /\ Live = {} /\ Live' = {}
    BY <2>1, <2>2 DEF Live
  <2>3. ASSUME MadeAsListed(layout), AllLinked PROVE MadeAsListed(layout)' /\ AllLinked'
    <3>1. BundlesGrow
      BY <2>1 DEF BundlesGrow
    <3> QED
      BY <2>1, <2>3, <3>1, LinksKept DEF AllLinked, MadeAsListed, MadeFor, Made
  <2> QED
    BY <2>2, <2>3 DEF TreeInv
<1>7. CASE UNCHANGED vars
  <2>1. /\ UNCHANGED <<tree, layout, bundles, outDir>> /\ past'.edited = past.edited
        /\ \A c : build'[c] = build[c]
        /\ \A q \in orphans' : q \in orphans
    BY <1>7 DEF vars
  <2> DEFINE Movers == {}
  <2>2. \A c : c \notin Movers
    OBVIOUS
  <2> HIDE DEF Movers
  <2> QED
    BY <2>1, <2>2, RestTree
<1> QED
  BY <1>1, <1>2, <1>3, <1>4, <1>5, <1>6, <1>7 DEF Next

\* However builds overlap and whichever sidecars they sweep from under each other,
\* an extension is linked against a core of the tree it was built from, as long as
\* the tree stays put during a build (BuildCell step 3, SeedCore, fetch-core.sh).
THEOREM LinkedToOwn == Spec => []LinkedAgainstOwnTree
<1>1. Init => SeededInv /\ TreeInv
  <2> SUFFICES ASSUME Init PROVE SeededInv /\ TreeInv
    OBVIOUS
  <2>1. Live = {} /\ sidecars = {} /\ layout = <<>> /\ bundles = <<>>
    BY IdleIsBuild DEF Init, Live
  <2> QED
    BY <2>1 DEF SeededInv, TreeInv, MadeAsListed, AllLinked
<1>2. TreeInv => LinkedAgainstOwnTree
  BY DEF TreeInv, AllLinked, LinkedTo, LinkedAgainstOwnTree
<1> QED
  BY <1>1, <1>2, SeededStep, TreeStep, BuildInvariant, PTL DEF Spec

-----------------------------------------------------------------------------
(* The lockfile made of the layout. *)

\* A manifest that a build of tree t pushed.
PushedAt(m, t) ==
    \E core \in Cells : \E item \in Elements(ItemsOf(core, Trees[t].catalog)) :
       /\ m.name = ImageName(item) /\ m.key = BundleKey(item)
       /\ m.spec = ComputeSpecHash(item, Trees[t])

\* Later manifests are of later trees.
InTurn ==
    \A i, j \in DOMAIN layout : i <= j =>
       \E t, u \in 1..tree : t <= u /\ PushedAt(layout[i], t) /\ PushedAt(layout[j], u)

\* What a process has behind it is in the layout, and the sub-build that ended
\* well too.
HasBuilt(b) ==
    /\ Elements(build[b].todo) \subseteq ItemsNow(build[b].cell)
    /\ \A item \in ItemsNow(build[b].cell) \ Elements(build[b].todo) : Published(item, tree)
    /\ build[b].ok => build[b].phase \in {"stop", "resolve"} /\ Published(Item(b), tree)
    /\ build[b].phase = "resolve" => build[b].ok

LayoutInv ==
    ~past.overlap /\ ~past.edited => InTurn /\ \A b \in Live : HasBuilt(b)

LEMMA ItemShape ==
  ASSUME NEW t \in DOMAIN Trees, NEW core \in Cells,
         NEW item \in Elements(ItemsOf(core, Trees[t].catalog))
  PROVE  item \in AllCells(Trees[t].catalog)
<1> DEFINE items == ItemsOf(core, Trees[t].catalog)
<1>1. items \in Seq(AllCells(Trees[t].catalog))
  BY ItemsAreCells
<1> HIDE DEF items
<1> QED
  BY <1>1 DEF Elements, items

\* Of what is built, a spec hash names one cell: the version of an extension is
\* the first of the catalog entry that is hashed.
LEMMA HashNames ==
  ASSUME NEW t \in DOMAIN Trees, NEW c \in Cells, NEW u \in DOMAIN Trees, NEW d \in Cells,
         NEW x \in Elements(ItemsOf(c, Trees[t].catalog)),
         NEW y \in Elements(ItemsOf(d, Trees[u].catalog)),
         ComputeSpecHash(x, Trees[t]) = ComputeSpecHash(y, Trees[u])
  PROVE  x = y
<1>1. /\ IsCatalog(Trees[t].catalog) /\ c \in ExpandPHPMatrix(Trees[t].catalog)
      /\ IsCatalog(Trees[u].catalog) /\ d \in ExpandPHPMatrix(Trees[u].catalog)
  BY CatalogAssumption
<1> QED
  BY <1>1, HashNamesItem

\* What is in the layout under the present spec hash is what the lockfile names.
LEMMA LastIsCurrent ==
  ASSUME TodoInv, \E S : layout \in Seq(S), InTurn, NEW core \in Cells,
         NEW item \in ItemsNow(core), Published(item, tree)
  PROVE  CameBack(item) \/ Current(item)
<1> DEFINE hash == ComputeSpecHash(item, Trees[tree])
           k == BundleKey(item)
           last == LastOf(PlacesOf(layout, k))
<1>1. PICK i \in DOMAIN layout : layout[i].name = ImageName(item) /\ layout[i].spec = hash
  BY DEF Published
<1>2. tree \in DOMAIN Trees /\ item \in AllCells(Trees[tree].catalog)
  BY ItemShape DEF TodoInv, ItemsNow
<1>3. 1..tree \subseteq DOMAIN Trees
  <2>1. PICK S : Trees \in Seq(S)
    BY TreesAssumption
  <2>2. DOMAIN Trees = 1..Len(Trees) /\ Len(Trees) \in Nat
    BY <2>1
  <2> QED
    BY <1>2, <2>2
<1>4. layout[i].key = k
  <2>0. DOMAIN layout \subseteq Nat
    OBVIOUS
  <2>1. PICK t \in 1..tree : PushedAt(layout[i], t)
    BY <2>0 DEF InTurn
  <2>2. PICK c \in Cells : \E x \in Elements(ItemsOf(c, Trees[t].catalog)) :
           layout[i].key = BundleKey(x) /\ layout[i].spec = ComputeSpecHash(x, Trees[t])
    BY <2>1 DEF PushedAt
  <2>3. PICK x \in Elements(ItemsOf(c, Trees[t].catalog)) :
           layout[i].key = BundleKey(x) /\ layout[i].spec = ComputeSpecHash(x, Trees[t])
    BY <2>2
  <2>4. item \in Elements(ItemsOf(core, Trees[tree].catalog)) /\ t \in DOMAIN Trees
        /\ ComputeSpecHash(x, Trees[t]) = ComputeSpecHash(item, Trees[tree])
    BY <1>1, <1>3, <2>3 DEF ItemsNow
  <2>5. x = item
    BY <1>2, <2>4, HashNames
  <2> QED
    BY <2>3, <2>5
<1>5. last \in PlacesOf(layout, k) /\ i <= last
  <2>1. DOMAIN layout = 1..Len(layout) /\ Len(layout) \in Nat
    OBVIOUS
  <2>2. i \in PlacesOf(layout, k) /\ PlacesOf(layout, k) \subseteq 1..Len(layout)
    BY <1>4, <2>1 DEF PlacesOf
  <2> DEFINE N == PlacesOf(layout, k)
  <2> HIDE DEF N, k
  <2>3. \E n \in N : \A m \in N : m <= n
    BY <2>1, <2>2, LargestIndex DEF N
  <2>4. LastOf(N) \in N /\ \A m \in N : m <= LastOf(N)
    BY <2>3 DEF LastOf
  <2> QED
    BY <2>2, <2>4 DEF N
<1>6. last \in DOMAIN layout /\ layout[last].key = k
  BY <1>5 DEF PlacesOf
<1> HIDE DEF last
<1>7. PICK t \in 1..tree, u \in 1..tree :
         t <= u /\ PushedAt(layout[i], t) /\ PushedAt(layout[last], u)
  BY <1>1, <1>5, <1>6 DEF InTurn
<1>8. ASSUME NEW v \in 1..tree, NEW m, PushedAt(m, v), m.key = k
      PROVE  item \in AllCells(Trees[v].catalog) /\ m.spec = ComputeSpecHash(item, Trees[v])
  <2>1. PICK c \in Cells : \E x \in Elements(ItemsOf(c, Trees[v].catalog)) :
           m.key = BundleKey(x) /\ m.spec = ComputeSpecHash(x, Trees[v])
    BY <1>8 DEF PushedAt
  <2>2. PICK x \in Elements(ItemsOf(c, Trees[v].catalog)) :
           m.key = BundleKey(x) /\ m.spec = ComputeSpecHash(x, Trees[v])
    BY <2>1
  <2>3. x \in AllCells(Trees[v].catalog)
    BY <1>3, ItemShape
  <2>4. x = item
    BY <1>2, <1>3, <1>8, <2>2, <2>3, KeyNames
  <2> QED
    BY <2>2, <2>3, <2>4
<1>9. /\ item \in AllCells(Trees[t].catalog) /\ ComputeSpecHash(item, Trees[t]) = hash
      /\ item \in AllCells(Trees[u].catalog) /\ ComputeSpecHash(item, Trees[u]) = layout[last].spec
  BY <1>1, <1>4, <1>6, <1>7, <1>8
<1>10. CASE layout[last].spec # hash
  <2>1. t # u
    BY <1>9, <1>10
  <2>2. t < u
    BY <1>7, <2>1
  <2> QED
    BY <1>7, <1>9, <1>10, <2>2 DEF CameBack
<1>11. CASE layout[last].spec = hash
  <2>1. k # NoKey
    BY DEF NoKey, BundleKey
  <2> HIDE DEF k, hash
  <2>2. k \in KeysOf(layout)
    BY <1>6, <2>1 DEF KeysOf
  <2>3. SynthesizedLockfile(layout)[k].spec = layout[last].spec
    BY <2>2 DEF SynthesizedLockfile, last
  <2>4. k \in DOMAIN SynthesizedLockfile(layout)
    BY <2>2 DEF SynthesizedLockfile
  <2> QED
    BY <1>11, <2>3, <2>4 DEF Current, LockfileNow, k, hash
<1> QED
  BY <1>10, <1>11

\* Only a hit of the lookup and a push make a sub-build end well.
Succeeds(b) ==
    /\ build'[b].phase = "stop"
    /\ \/ Push(b)
       \/ Probe(b) /\ LookupBySpec(layout, ImageName(Item(b)), HashOf(b)) # NoDigest

LEMMA WorkOk ==
  ASSUME Shape, NEW b \in Builders, Work(b),
         build[b].ok => build[b].phase \in {"stop", "resolve"}, build'[b].ok
  PROVE  Succeeds(b) \/ (build[b].ok /\ build'[b].phase = "resolve")
<1>1. IsBuild(build[b])
  BY DEF Shape
<1>2. ASSUME NEW x, IsBuild(x), Become(b, x), x.ok = build[b].ok,
             build[b].phase \notin {"stop", "resolve"}
      PROVE  FALSE
  BY <1>2, Moving
<1>3. CASE Probe(b)
  <2> DEFINE spec == ComputeSpecHash(Item(b), Trees[tree])
             hit == ~build[b].force /\ LookupBySpec(layout, ImageName(Item(b)), spec) # NoDigest
             ends == hit \/ (~build[b].force /\ torn)
             phase == CASE ends -> "stop"
                        [] ~ends /\ IsExt(Item(b)) -> "sweep"
                        [] OTHER -> "prepare"
             x == [build[b] EXCEPT !.spec = spec, !.ok = hit, !.phase = phase]
  <2>1. Become(b, x)
    BY <1>3 DEF Probe
  <2>2. IsBuild(x) /\ x.ok = hit /\ x.phase = phase
    <3> HIDE DEF hit, phase, spec
    <3> QED
      BY <1>1 DEF IsBuild, HasFields, BuildFields
  <2>3. build'[b].ok = hit /\ build'[b].phase = phase
    <3> HIDE DEF x, hit, phase
    <3> QED
      BY <2>1, <2>2, Moving
  <2>4. hit
    BY <2>3
  <2>5. phase = "stop"
    <3> HIDE DEF hit
    <3> QED
      BY <2>4
  <2> QED
    BY <1>3, <2>3, <2>4, <2>5 DEF Succeeds, HashOf
<1>4. CASE SweepStaleSidecars(b) \/ StartSidecar(b) \/ SeedCore(b)
  <2>1. PICK phase : Goto(b, phase)
    BY <1>4 DEF SweepStaleSidecars, StartSidecar, SeedCore
  <2>2. build'[b].ok = build[b].ok
    BY <2>1, GotoEffect DEF Keeps, BuildFields
  <2> QED
    BY <1>4, <2>2 DEF SweepStaleSidecars, StartSidecar, SeedCore
<1>5. CASE PrepareOutDir(b)
  BY <1>5, PrepareOutDirEffect DEF Keeps, BuildFields
<1>6. CASE DockerRun(b)
  <2> DEFINE x == [build[b] EXCEPT !.phase = "pack", !.mounted = TRUE]
  <2>1. IsBuild(x) /\ x.ok = build[b].ok
    BY <1>1 DEF IsBuild, HasFields, BuildFields
  <2> QED
    BY <1>2, <1>6, <2>1 DEF DockerRun
<1>7. CASE Pack(b)
  <2> DEFINE x == [build[b] EXCEPT !.phase = "exit", !.digest = Len(bundles) + 1]
             y == [build[b] EXCEPT !.phase = "stop", !.mounted = FALSE]
  <2>1. /\ IsBuild(x) /\ x.ok = build[b].ok
        /\ IsBuild(y) /\ y.ok = build[b].ok
    BY <1>1 DEF IsBuild, HasFields, BuildFields
  <2>2. (Become(b, x) \/ Become(b, y)) /\ build[b].phase = "pack"
    BY <1>7 DEF Pack
  <2> HIDE DEF x, y
  <2> QED
    BY <1>2, <2>1, <2>2
<1>8. CASE ContainerExits(b)
  <2> DEFINE x == [build[b] EXCEPT !.phase = "read", !.mounted = FALSE, !.digest = NoDigest]
  <2>1. IsBuild(x) /\ x.ok = build[b].ok
    BY <1>1 DEF IsBuild, HasFields, BuildFields
  <2> QED
    BY <1>2, <1>8, <2>1 DEF ContainerExits
<1>9. CASE ReadBundle(b)
  <2> DEFINE x == [build[b] EXCEPT !.phase = "append", !.read = layout,
                                   !.digest = outDir[SlugOf(b)]]
             y == [build[b] EXCEPT !.phase = "stop"]
  <2>1. /\ IsBuild(x) /\ x.ok = build[b].ok
        /\ IsBuild(y) /\ y.ok = build[b].ok
    BY <1>1 DEF IsBuild, HasFields, BuildFields
  <2>2. (Become(b, x) \/ Become(b, y)) /\ build[b].phase = "read"
    BY <1>9 DEF ReadBundle, Goto
  <2> HIDE DEF x, y
  <2> QED
    BY <1>2, <2>1, <2>2
<1>10. CASE Push(b)
  BY <1>10, PushEffect DEF Succeeds
<1>11. IsBuild(Idle) /\ ~Idle.ok
  BY DEF Idle, IsBuild, HasFields, BuildFields
<1>12. CASE EndItem(b)
  <2> DEFINE x == [build[b] EXCEPT !.phase = "resolve"]
             y == NextItem(b)
             z == IF ~build[b].ok THEN Idle
                  ELSE IF ~IsExt(Item(b)) THEN x
                  ELSE IF Len(build[b].todo) = 1 THEN Idle
                  ELSE y
  <2>1. /\ IsBuild(x) /\ x.phase = "resolve"
        /\ IsBuild(y) /\ ~y.ok
    BY <1>1 DEF IsBuild, HasFields, BuildFields, NextItem
  <2>2. Become(b, z)
    BY <1>12 DEF EndItem
  <2> HIDE DEF x, y
  <2>3. IsBuild(z) /\ (z.ok => build[b].ok /\ z.phase = "resolve")
    BY <1>11, <2>1
  <2> HIDE DEF z
  <2> QED
    BY <2>2, <2>3, Moving
<1>13. CASE ResolveCore(b)
  <2> DEFINE core == LookupBySpec(layout, <<"php-core">>, ComputeSpecHash(Item(b), Trees[tree]))
             y == [NextItem(b) EXCEPT !.core = core]
             z == IF core = NoDigest \/ Len(build[b].todo) = 1 THEN Idle ELSE y
  <2>1. IsBuild(y) /\ ~y.ok
    <3> HIDE DEF core
    <3> QED
      BY <1>1 DEF IsBuild, HasFields, BuildFields, NextItem
  <2>2. Become(b, z)
    BY <1>13 DEF ResolveCore
  <2> HIDE DEF y, core
  <2>3. IsBuild(z) /\ ~z.ok
    BY <1>11, <2>1
  <2> HIDE DEF z
  <2> QED
    BY <2>2, <2>3, Moving
<1> QED
  BY <1>3, <1>4, <1>5, <1>6, <1>7, <1>8, <1>9, <1>10, <1>12, <1>13 DEF Work

\* A list goes on after a sub-build that ended well, and ends with the last one
\* or where the core that was built is not found.
LEMMA EndOk ==
  ASSUME Shape, NEW b \in Builders, EndItem(b)
  PROVE  /\ build'[b].phase # "idle" => build[b].ok
         /\ build'[b].phase = "resolve" => build'[b].ok
         /\ build'[b].phase = "idle" /\ build[b].ok =>
               IsExt(Item(b)) /\ Len(build[b].todo) = 1
<1>1. IsBuild(build[b])
  BY DEF Shape
<1> DEFINE x == [build[b] EXCEPT !.phase = "resolve"]
           y == NextItem(b)
           z == IF ~build[b].ok THEN Idle
                ELSE IF ~IsExt(Item(b)) THEN x
                ELSE IF Len(build[b].todo) = 1 THEN Idle
                ELSE y
<1>2. /\ IsBuild(x) /\ x.phase = "resolve" /\ x.ok = build[b].ok
      /\ IsBuild(y) /\ y.phase = "probe"
  BY <1>1 DEF IsBuild, HasFields, BuildFields, NextItem
<1>3. Become(b, z)
  BY DEF EndItem
<1> HIDE DEF x, y
<1>4. /\ IsBuild(z)
      /\ z.phase # "idle" => build[b].ok
      /\ z.phase = "resolve" => z.ok
      /\ z.phase = "idle" /\ build[b].ok => IsExt(Item(b)) /\ Len(build[b].todo) = 1
  BY <1>2, IdleIsBuild
<1> HIDE DEF z
<1> QED
  BY <1>3, <1>4, Moving

LEMMA ResolveEnds ==
  ASSUME Shape, NEW b \in Builders, ResolveCore(b), build'[b].phase = "idle"
  PROVE  \/ LookupBySpec(layout, <<"php-core">>, HashOf(b)) = NoDigest
         \/ Len(build[b].todo) = 1
<1>1. IsBuild(build[b])
  BY DEF Shape
<1> DEFINE core == LookupBySpec(layout, <<"php-core">>, HashOf(b))
           y == [NextItem(b) EXCEPT !.core = core]
           z == IF core = NoDigest \/ Len(build[b].todo) = 1 THEN Idle ELSE y
<1>2. Become(b, z)
  BY DEF ResolveCore, HashOf
<1>3. IsBuild(y) /\ y.phase = "probe"
  <2> HIDE DEF core
  <2> QED
    BY <1>1 DEF IsBuild, HasFields, BuildFields, NextItem
<1> HIDE DEF y, core
<1>4. CASE z = y
  BY <1>2, <1>3, <1>4, Moving
<1>5. CASE z # y
  BY <1>5 DEF core
<1> QED
  BY <1>4, <1>5

\* A manifest of the layout stays there, at its place.
LayoutGrows ==
    /\ DOMAIN layout \subseteq DOMAIN layout'
    /\ \A i \in DOMAIN layout : layout'[i] = layout[i]

LEMMA PublishedStays ==
  ASSUME LayoutGrows, tree' = tree, NEW item, Published(item, tree)
  PROVE  Published(item, tree)'
  BY DEF LayoutGrows, Published

\* What a process that builds alone adds to the layout is of its sub-build.
LEMMA WorkPushes ==
  ASSUME Shape, AloneInv, ~past.overlap, NEW b \in Builders, OfTree(b), Work(b)
  PROVE  /\ LayoutGrows
         /\ \A i \in DOMAIN layout' \ DOMAIN layout :
               /\ \A j \in DOMAIN layout' : j <= i
               /\ layout'[i].name = ImageName(Item(b))
               /\ layout'[i].key = BundleKey(Item(b)) /\ layout'[i].spec = HashOf(b)
         /\ Push(b) => Published(Item(b), tree)'
<1>1. CASE Push(b)
  <2> DEFINE m == [name |-> ImageName(Item(b)), key |-> BundleKey(Item(b)),
                   spec |-> build[b].spec, digest |-> build[b].digest]
  <2>1. layout' = Append(layout, m) /\ build[b].phase = "append" /\ tree' = tree
    BY <1>1, PushEffect DEF AloneInv, Push
  <2>2. build[b].spec = HashOf(b)
    BY <2>1 DEF OfTree, Linking
  <2>3. PICK S : layout \in Seq(S)
    BY DEF AloneInv
  <2>4. /\ m.name = ImageName(Item(b)) /\ m.key = BundleKey(Item(b)) /\ m.spec = HashOf(b)
    BY <2>2
  <2> HIDE DEF m
  <2>5. /\ DOMAIN layout' = 1..(Len(layout) + 1) /\ layout'[Len(layout) + 1] = m
        /\ \A i \in DOMAIN layout : layout'[i] = layout[i]
        /\ DOMAIN layout = 1..Len(layout) /\ Len(layout) \in Nat
    BY <2>1, <2>3, Appended
  <2>6. LayoutGrows
    BY <2>5 DEF LayoutGrows
  <2>7. ASSUME NEW i \in DOMAIN layout' \ DOMAIN layout
        PROVE  layout'[i] = m /\ \A j \in DOMAIN layout' : j <= i
    BY <2>5
  <2>8. build'[b].todo = build[b].todo
    BY <1>1, PushEffect DEF Keeps
  <2>9. Published(Item(b), tree)'
    <3>1. Item(b)' = Item(b) /\ Len(layout) + 1 \in DOMAIN layout'
      BY <2>5, <2>8 DEF Item
    <3> QED
      BY <2>1, <2>4, <2>5, <3>1 DEF Published, HashOf
  <2> QED
    BY <2>4, <2>6, <2>7, <2>9
<1>2. CASE layout' = layout /\ ~Push(b)
  BY <1>2 DEF LayoutGrows
<1> QED
  BY <1>1, <1>2, WorkLayout

LEMMA WorkInTurn ==
  ASSUME Shape, TodoInv, AloneInv, ~past.overlap, NEW b \in Builders, OfTree(b), Work(b),
         InTurn, build[b].cell \in Cells, Item(b) \in ItemsNow(build[b].cell)
  PROVE  InTurn'
<1>1. /\ LayoutGrows
      /\ \A i \in DOMAIN layout' \ DOMAIN layout :
            /\ \A j \in DOMAIN layout' : j <= i
            /\ layout'[i].name = ImageName(Item(b))
            /\ layout'[i].key = BundleKey(Item(b)) /\ layout'[i].spec = HashOf(b)
  BY WorkPushes
<1>2. tree' = tree
  BY WorkShape
<1>3. tree \in 1..tree /\ 1..tree \subseteq Nat
  BY TreesAssumption DEF TodoInv
<1>4. ASSUME NEW i \in DOMAIN layout' \ DOMAIN layout
      PROVE  PushedAt(layout'[i], tree)
  BY <1>1, <1>4 DEF PushedAt, HashOf, ItemsNow
<1>5. DOMAIN layout \subseteq Nat /\ DOMAIN layout' \subseteq Nat
  <2>1. PICK S : layout \in Seq(S)
    BY DEF AloneInv
  <2>2. \E T : layout' \in Seq(T)
    BY AloneStep DEF Next, AloneInv
  <2> QED
    BY <2>1, <2>2
<1> SUFFICES ASSUME NEW i \in DOMAIN layout', NEW j \in DOMAIN layout', i <= j
             PROVE  \E t, u \in 1..tree : /\ t <= u /\ PushedAt(layout'[i], t)
                                          /\ PushedAt(layout'[j], u)
  BY <1>2 DEF InTurn, PushedAt
<1>6. CASE j \in DOMAIN layout
  <2>1. i \in DOMAIN layout
    <3>1. i \notin DOMAIN layout => j <= i /\ i = j
      BY <1>1, <1>5
    <3> QED
      BY <1>6, <3>1
  <2> QED
    BY <1>1, <1>6, <2>1 DEF InTurn, LayoutGrows
<1>7. CASE j \notin DOMAIN layout /\ i \in DOMAIN layout
  <2>1. PICK t \in 1..tree : PushedAt(layout[i], t)
    BY <1>5, <1>7 DEF InTurn
  <2>2. t <= tree /\ layout'[i] = layout[i]
    BY <1>1, <1>3, <1>7, <2>1 DEF LayoutGrows
  <2> QED
    BY <1>3, <1>4, <1>7, <2>1, <2>2
<1>8. CASE j \notin DOMAIN layout /\ i \notin DOMAIN layout
  BY <1>3, <1>4, <1>8
<1> QED
  BY <1>6, <1>7, <1>8

LEMMA WorkHasBuilt ==
  ASSUME Shape, TodoInv, AloneInv, CellInv, ~past.overlap, NEW b \in Builders, OfTree(b),
         HasBuilt(b), Work(b), build'[b].phase # "idle"
  PROVE  HasBuilt(b)'
<1>1. /\ tree' = tree /\ build[b].phase # "idle" /\ HasTodo(b)
  BY WorkShape, OthersKeep DEF TodoInv
<1>2. LayoutGrows /\ (Push(b) => Published(Item(b), tree)')
  BY WorkPushes
<1>3. /\ Elements(build[b].todo) \subseteq ItemsNow(build[b].cell)
      /\ \A item \in ItemsNow(build[b].cell) \ Elements(build[b].todo) : Published(item, tree)
      /\ build[b].ok => build[b].phase \in {"stop", "resolve"} /\ Published(Item(b), tree)
      /\ build[b].phase = "resolve" => build[b].ok
  BY DEF HasBuilt
<1>4. build'[b].cell = build[b].cell => ItemsNow(build[b].cell)' = ItemsNow(build[b].cell)
  BY <1>1 DEF ItemsNow
<1>5. build'[b].ok => Succeeds(b) \/ (build[b].ok /\ build'[b].phase = "resolve")
  BY <1>3, WorkOk
<1>6. CASE Proceeds(b)
  <2>1. /\ build'[b].todo = build[b].todo /\ build'[b].cell = build[b].cell
        /\ Item(b)' = Item(b)
    BY <1>6 DEF Proceeds, Keeps, Steady, Item
  <2>2. ASSUME build'[b].ok
        PROVE  build'[b].phase \in {"stop", "resolve"} /\ Published(Item(b), tree)'
    <3>1. CASE Push(b)
      BY <1>2, <3>1, PushEffect
    <3>2. CASE Probe(b) /\ LookupBySpec(layout, ImageName(Item(b)), HashOf(b)) # NoDigest
      <4> DEFINE name == ImageName(Item(b))
                 spec == HashOf(b)
                 hits == {i \in DOMAIN layout : layout[i].name = name /\ layout[i].spec = spec}
      <4>1. hits # {}
        <5> HIDE DEF name, spec
        <5>1. hits = {} => LookupBySpec(layout, name, spec) = NoDigest
          BY LookupFinds DEF AloneInv
        <5> QED
          BY <3>2, <5>1 DEF name, spec
      <4>2. Published(Item(b), tree)
        BY <4>1 DEF Published, HashOf
      <4>3. Published(Item(b), tree)'
        BY <1>1, <1>2, <2>1, <4>2, PublishedStays DEF Published
      <4> QED
        BY <1>5, <2>2, <4>3 DEF Succeeds
    <3>3. CASE build[b].ok /\ build'[b].phase = "resolve"
      BY <1>1, <1>2, <1>3, <2>1, <3>3, PublishedStays DEF Published
    <3> QED
      BY <1>5, <2>2, <3>1, <3>2, <3>3 DEF Succeeds
  <2>3. build'[b].phase = "resolve" => build'[b].ok
    <3>1. ASSUME build'[b].phase = "resolve" PROVE EndItem(b)
      <4>1. CASE Probe(b)
        BY <3>1, <4>1, ProbeEffect
      <4>2. CASE SweepStaleSidecars(b) \/ StartSidecar(b) \/ SeedCore(b)
        <5>1. PICK phase \in {"start", "seed", "prepare", "stop"} : Goto(b, phase)
          BY <4>2 DEF SweepStaleSidecars, StartSidecar, SeedCore
        <5> QED
          BY <3>1, <5>1, GotoEffect
      <4>3. CASE PrepareOutDir(b)
        BY <3>1, <4>3, PrepareOutDirEffect
      <4>4. CASE DockerRun(b) \/ Pack(b) \/ ContainerExits(b) \/ ReadBundle(b) \/ Push(b)
        BY <3>1, <4>4, RunEffect
      <4>5. CASE ResolveCore(b)
        BY <3>1, <4>5, ResolveCoreEffect
      <4> QED
        BY <4>1, <4>2, <4>3, <4>4, <4>5 DEF Work
    <3> QED
      BY <3>1, EndOk
  <2>4. ASSUME NEW item \in ItemsNow(build[b].cell) \ Elements(build[b].todo)
        PROVE  Published(item, tree)'
    <3>1. Published(item, tree)
      BY <1>3, <2>4
    <3> QED
      BY <1>1, <1>2, <3>1, PublishedStays
  <2> QED
    BY <1>1, <1>3, <1>4, <2>1, <2>2, <2>3, <2>4 DEF HasBuilt, Published
<1>7. CASE Advances(b)
  <2>1. /\ build'[b].todo = Tail(build[b].todo) /\ build'[b].cell = build[b].cell
        /\ build'[b].phase = "probe"
    BY <1>7 DEF Advances, Keeps
  <2>2. build[b].ok
    <3>1. EndItem(b) \/ ResolveCore(b)
      <4>1. build[b].phase \in {"stop", "resolve"}
        BY <1>7 DEF Advances
      <4> QED
        BY <4>1 DEF Work, Probe, SweepStaleSidecars, StartSidecar, SeedCore, PrepareOutDir,
                    DockerRun, Pack, ContainerExits, ReadBundle, Push
    <3> QED
      BY <1>3, <2>1, <3>1, EndOk DEF ResolveCore
  <2>3. ~build'[b].ok
    BY <1>5, <2>1 DEF Succeeds
  <2>4. PICK S : build[b].todo \in Seq(S)
    BY <1>1 DEF HasTodo
  <2>5. /\ Elements(build'[b].todo) \subseteq Elements(build[b].todo)
        /\ Elements(build[b].todo) \subseteq Elements(build'[b].todo) \cup {Item(b)}
    <3> DEFINE s == build[b].todo
    <3>1. /\ Len(s) \in Nat /\ DOMAIN s = 1..Len(s) /\ DOMAIN Tail(s) = 1..(Len(s) - 1)
          /\ \A i \in 1..(Len(s) - 1) : Tail(s)[i] = s[i + 1]
      BY <1>1, <2>4, EmptySeq DEF HasTodo
    <3>2. ASSUME NEW i \in DOMAIN s PROVE s[i] \in Elements(Tail(s)) \cup {Item(b)}
      <4>1. CASE i = 1
        BY <4>1 DEF Item
      <4>2. CASE i # 1
        <5>1. i - 1 \in 1..(Len(s) - 1) /\ (i - 1) + 1 = i
          BY <3>1, <3>2, <4>2
        <5>2. Tail(s)[i - 1] = s[i]
          BY <3>1, <5>1
        <5> QED
          BY <3>1, <5>1, <5>2 DEF Elements
      <4> QED
        BY <4>1, <4>2
    <3>3. ASSUME NEW i \in DOMAIN Tail(s) PROVE Tail(s)[i] \in Elements(s)
      <4>1. i + 1 \in DOMAIN s /\ Tail(s)[i] = s[i + 1]
        BY <3>1, <3>3
      <4> QED
        BY <4>1 DEF Elements
    <3> HIDE DEF s
    <3>4. /\ Elements(Tail(s)) \subseteq Elements(s)
          /\ Elements(s) \subseteq Elements(Tail(s)) \cup {Item(b)}
      BY <3>2, <3>3 DEF Elements
    <3> QED
      BY <2>1, <3>4 DEF s
  <2>6. ASSUME NEW item \in ItemsNow(build[b].cell) \ Elements(build'[b].todo)
        PROVE  Published(item, tree)'
    <3>1. Published(item, tree)
      BY <1>3, <2>2, <2>5, <2>6
    <3> QED
      BY <1>1, <1>2, <3>1, PublishedStays
  <2> QED
    BY <1>1, <1>3, <1>4, <2>1, <2>3, <2>5, <2>6 DEF HasBuilt, Published
<1> QED
  BY <1>6, <1>7, WorkGoesOn DEF Finishes

LEMMA LayoutStep ==
  Shape /\ TodoInv /\ AloneInv /\ CellInv /\ TreeInv /\ LayoutInv /\ [Next]_vars => LayoutInv'
<1> SUFFICES ASSUME Shape, TodoInv, AloneInv, CellInv, TreeInv, LayoutInv, [Next]_vars,
                    ~past'.overlap, ~past'.edited
             PROVE  InTurn' /\ \A b \in Live' : HasBuilt(b)'
  BY DEF LayoutInv
<1>1. ~past.overlap
  BY LiveStep
<1>2. ASSUME NEW c \in Builders, UNCHANGED <<tree, layout>>, build'[c] = build[c], HasBuilt(c)
      PROVE  HasBuilt(c)'
  <2>1. Item(c)' = Item(c)
    BY <1>2 DEF Item
  <2> QED
    BY <1>2, <2>1 DEF HasBuilt, ItemsNow, Published
<1>3. ASSUME NEW b \in Builders, Work(b)
      PROVE  InTurn' /\ \A c \in Live' : HasBuilt(c)'
  <2>1. b \in Live /\ past' = past
    BY <1>3, WorkShape, OthersKeep DEF Live
  <2>2. /\ OfTree(b) /\ HasBuilt(b) /\ InTurn
        /\ build[b].cell \in Cells /\ HasTodo(b)
    BY <1>1, <2>1 DEF TreeInv, LayoutInv, CellInv, TodoInv
  <2>3. Item(b) \in ItemsNow(build[b].cell)
    <3>1. PICK S : build[b].todo \in Seq(S) \ {<<>>}
      BY <2>1, <2>2 DEF HasTodo, Live
    <3>2. 1 \in DOMAIN build[b].todo
      BY <3>1, EmptySeq
    <3> QED
      BY <2>2, <3>2 DEF HasBuilt, Elements, Item
  <2>4. InTurn'
    BY <1>1, <1>3, <2>2, <2>3, WorkInTurn
  <2>5. \A c \in Live' : c = b
    BY <1>1, <1>3, <2>1, OthersKeep DEF AloneInv, Live, Keeps, BuildFields
  <2> QED
    BY <1>1, <1>3, <2>2, <2>4, <2>5, WorkHasBuilt DEF Live
<1>4. ASSUME NEW b \in Builders, NEW core \in Cells, NEW f \in Flavours, NEW force \in Forces,
             Begin(b, core, f, force)
      PROVE  InTurn' /\ \A c \in Live' : HasBuilt(c)'
  <2>1. /\ UNCHANGED <<tree, layout>> /\ past'.edited = past.edited /\ Live = {}
    BY <1>4, BeginEffect DEF Begin
  <2>2. InTurn'
    BY <1>1, <2>1 DEF LayoutInv, InTurn, PushedAt
  <2>3. \A c \in Live' : c = b
    BY <1>4, <2>1, BeginEffect DEF Moves, Live
  <2>4. ~build'[b].ok
    <3> DEFINE items == ItemsOf(core, Trees[tree].catalog)
               warm == ~force /\ \A i \in DOMAIN items : Published(items[i], tree)
               x == [Idle EXCEPT !.phase = "probe", !.cell = core, !.todo = items,
                       !.flavour = f, !.force = force, !.warm = warm]
    <3>1. Become(b, x)
      BY <1>4 DEF Begin
    <3>2. IsBuild(x) /\ ~x.ok
      <4> HIDE DEF items, warm
      <4> QED
        BY DEF IsBuild, HasFields, BuildFields, Idle
    <3> HIDE DEF x
    <3> QED
      BY <3>1, <3>2, Moving
  <2>5. HasBuilt(b)'
    <3>1. /\ build'[b].phase = "probe" /\ build'[b].cell = core
          /\ build'[b].todo = ItemsOf(core, Trees[tree].catalog)
      BY <1>4, BeginEffect
    <3> QED
      BY <2>1, <2>4, <3>1 DEF HasBuilt, ItemsNow
  <2> QED
    BY <2>2, <2>3, <2>5
<1>5. ASSUME NEW b \in Builders, Fail(b) \/ Kill(b)
      PROVE  InTurn' /\ \A c \in Live' : HasBuilt(c)'
  <2>1. /\ UNCHANGED tree /\ layout' \in {layout, <<>>} /\ past'.edited = past.edited
        /\ Moves(b) /\ build[b].phase # "idle"
    BY <1>5, FailEffect, KillEffect DEF Fail, Kill, PastFields
  <2>2. b \in Live /\ InTurn /\ HasBuilt(b)
    BY <1>1, <2>1 DEF LayoutInv, Live
  <2>3. InTurn'
    BY <2>1, <2>2 DEF InTurn, PushedAt
  <2>4. \A c \in Live' : c = b
    BY <1>1, <2>1, <2>2 DEF AloneInv, Live, Moves
  <2>5. CASE Kill(b)
    BY <2>3, <2>4, <2>5, KillEffect DEF Live
  <2>6. CASE Fail(b)
    <3> DEFINE x == [build[b] EXCEPT !.phase = "stop", !.ok = FALSE, !.mounted = FALSE,
                                     !.read = <<>>, !.digest = NoDigest]
    <3>1. IsBuild(x) /\ ~x.ok /\ Become(b, x)
      BY <2>6 DEF Shape, IsBuild, HasFields, BuildFields, Fail
    <3>2. ~build'[b].ok
      <4> HIDE DEF x
      <4> QED
        BY <3>1, Moving
    <3>3. /\ build'[b].phase = "stop" /\ build'[b].todo = build[b].todo
          /\ build'[b].cell = build[b].cell
      BY <2>6, FailEffect DEF Keeps
    <3>4. HasBuilt(b)'
      <4>1. layout' = layout
        BY <2>6 DEF Fail
      <4> QED
        BY <2>1, <2>2, <3>2, <3>3, <4>1 DEF HasBuilt, ItemsNow, Published
    <3> QED
      BY <2>3, <2>4, <3>4
  <2> QED
    BY <1>5, <2>5, <2>6
<1>6. CASE EditTree
  <2>1. /\ UNCHANGED <<build, layout>> /\ tree' = tree + 1
        /\ past'.edited = (past.edited \/ Live # {})
    BY <1>6, EditTreeEffect DEF EditTree
  <2>2. ~past.edited /\ Live = {} /\ Live' = {}
    BY <2>1 DEF Live
  <2>3. \A t \in 1..tree : t \in 1..tree'
    BY <2>1, TreesAssumption DEF TodoInv
  <2> QED
    BY <1>1, <2>1, <2>2, <2>3 DEF LayoutInv, InTurn, PushedAt
<1>7. CASE OrphanExits \/ UNCHANGED vars
  <2>1. UNCHANGED <<tree, layout, build, past>>
    BY <1>7 DEF OrphanExits, vars
  <2>2. InTurn' /\ Live' = Live
    BY <1>1, <2>1 DEF LayoutInv, InTurn, PushedAt, Live
  <2> QED
    BY <1>1, <1>2, <2>1, <2>2 DEF LayoutInv, Live
<1> QED
  BY <1>3, <1>4, <1>5, <1>6, <1>7 DEF Next

\* Where a cell ends well, all of it is in the layout.
LEMMA EndedIsPublished ==
  ASSUME Shape, TodoInv, AloneInv, OutDirInv, CellInv, TreeInv, LayoutInv, [Next]_vars,
         NEW b \in Builders, NEW core \in Cells, Ends(b, core), ~past.overlap, ~past.edited
  PROVE  /\ UNCHANGED <<tree, layout>>
         /\ \A item \in ItemsNow(core) : Published(item, tree)
<1>1. /\ build[b].cell = core /\ build[b].phase \in {"stop", "resolve"} /\ build[b].ok
      /\ build'[b].phase = "idle" /\ past' = past
  BY DEF Ends
<1>2. b \in Live /\ HasTodo(b) /\ HasBuilt(b) /\ OfTree(b)
  BY <1>1 DEF Live, TodoInv, LayoutInv, TreeInv
<1>3. EndItem(b) \/ ResolveCore(b)
  <2>1. ASSUME NEW c \in Builders, c # b PROVE ~Work(c)
    BY <1>1, <2>1, OthersKeep DEF Keeps, BuildFields
  <2>2. ASSUME NEW c \in Builders, NEW d \in Cells, NEW f \in Flavours, NEW force \in Forces
        PROVE  ~Begin(c, d, f, force)
    BY <1>1, <2>2, BeginEffect DEF Moves, Begin
  <2>3. ASSUME NEW c \in Builders PROVE ~Fail(c) /\ ~Kill(c)
    <3>1. ~Fail(c)
      BY <1>1, FailEffect DEF Moves
    <3>2. past.kills + 1 # past.kills
      BY DEF Shape
    <3> QED
      BY <1>1, <3>1, <3>2, KillEffect
  <2>4. ~EditTree /\ ~OrphanExits /\ ~UNCHANGED vars
    BY <1>1 DEF EditTree, OrphanExits, vars
  <2>5. Work(b)
    BY <2>1, <2>2, <2>3, <2>4 DEF Next
  <2> QED
    BY <1>1, <2>5 DEF Work, Probe, SweepStaleSidecars, StartSidecar, SeedCore, PrepareOutDir,
                      DockerRun, Pack, ContainerExits, ReadBundle, Push
<1>4. UNCHANGED <<tree, layout>>
  BY <1>3 DEF EndItem, ResolveCore
<1>5. Published(Item(b), tree)
  BY <1>1, <1>2 DEF HasBuilt
<1>6. Len(build[b].todo) = 1
  <2>1. CASE EndItem(b)
    BY <1>1, <2>1, EndOk
  <2>2. CASE ResolveCore(b)
    <3>1. ~IsExt(Item(b))
      BY <1>2, <2>2 DEF CellInv, ResolveCore
    <3>2. ImageName(Item(b)) = <<"php-core">>
      BY <3>1 DEF ImageName
    <3>3. PICK i \in DOMAIN layout : layout[i].name = <<"php-core">> /\ layout[i].spec = HashOf(b)
      BY <1>5, <3>2 DEF Published, HashOf
    <3> DEFINE name == <<"php-core">>
               spec == HashOf(b)
               hits == {j \in DOMAIN layout : layout[j].name = name /\ layout[j].spec = spec}
               found == LookupBySpec(layout, name, spec)
    <3>4. hits # {}
      BY <3>3
    <3>5. PICK j \in DOMAIN layout : found = layout[j].digest
      <4> HIDE DEF name, spec
      <4>1. IF hits = {} THEN found = NoDigest ELSE \E j \in hits : found = layout[j].digest
        BY LookupFinds DEF AloneInv
      <4> HIDE DEF found
      <4> QED
        BY <3>4, <4>1
    <3>6. found # NoDigest
      <4>1. Made(layout[j].digest)
        BY <3>5 DEF TreeInv, MadeAsListed, MadeFor
      <4>2. 0 \notin DOMAIN bundles
        BY DEF OutDirInv
      <4> QED
        BY <3>5, <4>1, <4>2 DEF Made, NoDigest, Abs
    <3> QED
      BY <1>1, <2>2, <3>6, ResolveEnds
  <2> QED
    BY <1>3, <2>1, <2>2
<1>7. Elements(build[b].todo) = {Item(b)}
  <2>1. PICK S : build[b].todo \in Seq(S)
    BY <1>1, <1>2 DEF HasTodo
  <2>2. DOMAIN build[b].todo = {1}
    BY <1>6, <2>1
  <2> QED
    BY <2>2 DEF Elements, Item
<1> QED
  BY <1>1, <1>2, <1>4, <1>5, <1>7 DEF HasBuilt

\* When a cell that was not overlapped ends well, the lockfile made of the layout
\* is current for each of its bundles, whatever earlier builds the layout still
\* holds, unless the spec hash of that bundle came back (Synthesize).
THEOREM LockfileFollows == Spec => LockfileFollowsTree
<1> DEFINE Follows == \A b \in Builders, core \in Cells :
              Ends(b, core) /\ ~past.overlap /\ ~past.edited =>
                 (\A item \in ItemsNow(core) : CameBack(item) \/ Current(item))'
           Inv == Shape /\ TodoInv /\ AloneInv /\ OutDirInv /\ DigestInv /\ CellInv
<1>1. Inv /\ TreeInv /\ LayoutInv /\ [Next]_vars => [Follows]_vars
  <2> SUFFICES ASSUME Inv, TreeInv, LayoutInv, [Next]_vars, NEW b \in Builders,
                      NEW core \in Cells, Ends(b, core), ~past.overlap, ~past.edited
               PROVE  (\A item \in ItemsNow(core) : CameBack(item) \/ Current(item))'
    OBVIOUS
  <2>1. UNCHANGED <<tree, layout>> /\ \A item \in ItemsNow(core) : Published(item, tree)
    BY EndedIsPublished
  <2>2. InTurn /\ \E S : layout \in Seq(S)
    BY DEF LayoutInv, AloneInv
  <2>3. \A item \in ItemsNow(core) : CameBack(item) \/ Current(item)
    BY <2>1, <2>2, LastIsCurrent
  <2> QED
    BY <2>1, <2>3 DEF ItemsNow, CameBack, Current, LockfileNow
<1>2. Init => SeededInv /\ TreeInv /\ LayoutInv
  <2> SUFFICES ASSUME Init PROVE SeededInv /\ TreeInv /\ LayoutInv
    OBVIOUS
  <2>1. Live = {} /\ sidecars = {} /\ layout = <<>> /\ bundles = <<>>
    BY IdleIsBuild DEF Init, Live
  <2> QED
    BY <2>1 DEF SeededInv, TreeInv, MadeAsListed, AllLinked, LayoutInv, InTurn
<1>3. Spec => []Inv
  BY BuildInvariant
<1>4. Inv /\ SeededInv /\ TreeInv /\ LayoutInv /\ [Next]_vars =>
         SeededInv' /\ TreeInv' /\ LayoutInv'
  BY SeededStep, TreeStep, LayoutStep
<1> QED
  BY <1>1, <1>2, <1>3, <1>4, PTL DEF Spec, LockfileFollowsTree
-----------------------------------------------------------------------------
(* The newest builds. *)

\* A bundle that is newer than all there are in the layout.
IsNewest(d) == d \in DOMAIN bundles /\ \A i \in DOMAIN layout : layout[i].digest < d

\* From the removal of the directory on, what a sub-build finds there can only be
\* what its own container has made since.
HoldsNewest(b) ==
    /\ build[b].phase \in {"mount", "pack", "exit", "read"} =>
          \A o \in orphans : o.slug # SlugOf(b)
    /\ build[b].phase \in {"pack", "exit"} => build[b].mounted
    /\ build[b].phase \in {"exit", "append"} => IsNewest(build[b].digest)
    /\ build[b].phase = "read" => IsNewest(outDir[SlugOf(b)])

NewestInv ==
    ~past.overlap =>
        /\ \A i \in DOMAIN layout : layout[i].digest \in DOMAIN bundles
        /\ \A b \in Builders : HoldsNewest(b)

LEMMA NewestInit == Init => NewestInv
<1> SUFFICES ASSUME Init PROVE NewestInv
  OBVIOUS
<1>1. \A b \in Builders : build[b].phase = "idle"
  BY IdleIsBuild DEF Init
<1>2. layout = <<>>
  BY DEF Init
<1> QED
  BY <1>1, <1>2 DEF NewestInv, HoldsNewest

LEMMA NewestBefore ==
  ASSUME NEW b \in Builders, build'[b].phase \notin {"mount", "pack", "exit", "read", "append"}
  PROVE  HoldsNewest(b)'
  BY DEF HoldsNewest

LEMMA PushAlone ==
  ASSUME Shape, AloneInv, ~past.overlap, NEW b \in Builders, Push(b)
  PROVE  \E m : /\ layout' = Append(layout, m) /\ m.name = ImageName(Item(b))
               /\ m.key = BundleKey(Item(b)) /\ m.digest = build[b].digest
<1> DEFINE m == [name |-> ImageName(Item(b)), key |-> BundleKey(Item(b)),
                 spec |-> build[b].spec, digest |-> build[b].digest]
<1>1. layout' = Append(build[b].read, m) /\ build[b].phase = "append"
  BY PushEffect
<1>2. build[b].read = layout
  BY <1>1 DEF AloneInv
<1>3. m.name = ImageName(Item(b)) /\ m.key = BundleKey(Item(b)) /\ m.digest = build[b].digest
  OBVIOUS
<1> HIDE DEF m
<1> QED
  BY <1>1, <1>2, <1>3

LEMMA WorkNewest ==
  ASSUME Shape, TodoInv, AloneInv, OutDirInv, NewestInv, NEW b \in Builders, Work(b),
         ~past.overlap
  PROVE  HoldsNewest(b)' /\ \A i \in DOMAIN layout' : layout'[i].digest \in DOMAIN bundles'
<1> DEFINE Listed == \A i \in DOMAIN layout' : layout'[i].digest \in DOMAIN bundles'
<1>0. /\ \A i \in DOMAIN layout : layout[i].digest \in DOMAIN bundles
      /\ HoldsNewest(b)
  BY DEF NewestInv
<1>1. build[b].phase # "idle" /\ SlugOf(b) \in DOMAIN outDir
  BY OthersKeep, SlugIsSlug DEF OutDirInv, TodoInv
<1>2. ASSUME Keeps(b, {"todo", "flavour"})
      PROVE  SlugOf(b)' = SlugOf(b)
  BY <1>2 DEF Keeps, Item, SlugOf
<1>3. BundlesGrow
  BY WorkFiles, AppendGrows
<1>4. ASSUME layout' = layout PROVE Listed
  BY <1>0, <1>3, <1>4 DEF BundlesGrow
<1>5. layout' = layout \/ Push(b)
  BY WorkLayout
<1>6. CASE Probe(b) \/ EndItem(b) \/ ResolveCore(b)
  <2>1. build'[b].phase \in {"stop", "sweep", "prepare", "idle", "resolve", "probe"}
    BY <1>6, ProbeEffect, EndItemEffect, ResolveCoreEffect
  <2>2. layout' = layout
    BY <1>6 DEF Probe, EndItem, ResolveCore
  <2> QED
    BY <1>4, <2>1, <2>2, NewestBefore
<1>7. CASE SweepStaleSidecars(b) \/ StartSidecar(b) \/ SeedCore(b)
  <2>1. PICK phase \in {"start", "seed", "prepare", "stop"} : Goto(b, phase)
    BY <1>7 DEF SweepStaleSidecars, StartSidecar, SeedCore
  <2>2. build'[b].phase = phase /\ layout' = layout
    BY <1>7, <2>1, GotoEffect DEF SweepStaleSidecars, StartSidecar, SeedCore
  <2> QED
    BY <1>4, <2>2, NewestBefore
<1>8. CASE PrepareOutDir(b)
  <2>0. layout' = layout
    BY <1>8 DEF PrepareOutDir
  <2>1. Keeps(b, {"todo", "flavour"}) /\ build'[b].phase = "mount" /\ layout' = layout
    BY <1>8, <2>0, PrepareOutDirEffect DEF Keeps, BuildFields
  <2>2. \A o \in orphans' : o.slug # SlugOf(b)'
    BY <1>2, <1>8, <2>1 DEF PrepareOutDir
  <2> QED
    BY <1>4, <2>1, <2>2 DEF HoldsNewest
<1>9. CASE DockerRun(b)
  <2>1. /\ Keeps(b, {"todo", "flavour"}) /\ build[b].phase = "mount"
        /\ build'[b].phase = "pack" /\ build'[b].mounted
        /\ UNCHANGED <<layout, orphans>>
    <3>1. UNCHANGED <<layout, orphans>>
      BY <1>9 DEF DockerRun
    <3> QED
      BY <1>9, <3>1, DockerRunEffect DEF Keeps
  <2>2. \A o \in orphans' : o.slug # SlugOf(b)'
    BY <1>0, <1>2, <2>1 DEF HoldsNewest
  <2> QED
    BY <1>4, <2>1, <2>2 DEF HoldsNewest
<1>10. CASE Pack(b)
  <2>0. layout' = layout /\ orphans' = orphans
    BY <1>10 DEF Pack
  <2>1. CASE build'[b].phase = "stop"
    BY <1>4, <2>0, <2>1, NewestBefore
  <2>2. CASE build'[b].phase # "stop"
    <3>1. /\ Keeps(b, {"todo", "flavour"}) /\ build[b].phase = "pack"
          /\ build'[b].phase = "exit" /\ build'[b].mounted = build[b].mounted
      BY <1>10, <2>2, PackEffect DEF Keeps
    <3>2. /\ Len(bundles) + 1 \in DOMAIN bundles'
          /\ build'[b].digest = Len(bundles) + 1
      BY <1>10, <3>1, PackMakes
    <3>3. PICK S : bundles \in Seq(S)
      BY DEF OutDirInv
    <3>4. PICK n \in Nat : n = Len(bundles) /\ DOMAIN bundles = 1..n
      BY <3>3
    <3>5. \A i \in DOMAIN layout : layout[i].digest < n + 1
      BY <1>0, <3>4
    <3>6. IsNewest(build[b].digest)'
      BY <2>0, <3>2, <3>4, <3>5 DEF IsNewest
    <3>7. build'[b].mounted /\ \A o \in orphans' : o.slug # SlugOf(b)'
      BY <1>0, <1>2, <2>0, <3>1 DEF HoldsNewest
    <3> QED
      BY <1>4, <2>0, <3>1, <3>6, <3>7 DEF HoldsNewest
  <2> QED
    BY <2>1, <2>2
<1>11. CASE ContainerExits(b)
  <2>1. /\ Keeps(b, {"todo", "flavour"}) /\ build[b].phase = "exit"
        /\ build'[b].phase = "read"
    BY <1>11, ContainerExitsEffect DEF Keeps
  <2>2. /\ outDir' = [outDir EXCEPT ![SlugOf(b)] = build[b].digest]
        /\ UNCHANGED <<orphans, bundles, layout>>
    BY <1>0, <1>11, <2>1 DEF ContainerExits, HoldsNewest
  <2>3. SlugOf(b)' = SlugOf(b)
    BY <1>2, <2>1
  <2>4. outDir'[SlugOf(b)'] = build[b].digest
    BY <1>1, <2>2, <2>3
  <2>5. IsNewest(outDir[SlugOf(b)])'
    BY <1>0, <2>1, <2>2, <2>4 DEF IsNewest, HoldsNewest
  <2>6. \A o \in orphans' : o.slug # SlugOf(b)'
    BY <1>0, <2>1, <2>2, <2>3 DEF HoldsNewest
  <2> QED
    BY <1>4, <2>1, <2>2, <2>5, <2>6 DEF HoldsNewest
<1>12. CASE ReadBundle(b)
  <2>0. UNCHANGED <<layout, bundles>>
    BY <1>12 DEF ReadBundle
  <2>1. CASE build'[b].phase = "stop"
    BY <1>4, <2>0, <2>1, NewestBefore
  <2>2. CASE build'[b].phase # "stop"
    <3>1. /\ build[b].phase = "read" /\ build'[b].phase = "append"
          /\ build'[b].digest = outDir[SlugOf(b)]
      BY <1>12, <2>2, ReadBundleEffect
    <3>2. IsNewest(build[b].digest)'
      BY <1>0, <2>0, <3>1 DEF IsNewest, HoldsNewest
    <3> QED
      BY <1>4, <2>0, <3>1, <3>2 DEF HoldsNewest
  <2> QED
    BY <2>1, <2>2
<1>13. CASE Push(b)
  <2>1. HoldsNewest(b)'
    BY <1>13, PushEffect, NewestBefore
  <2>2. PICK m : layout' = Append(layout, m) /\ m.digest = build[b].digest
    BY <1>13, PushAlone
  <2>3. m.digest \in DOMAIN bundles /\ bundles' = bundles
    BY <1>0, <1>13, <2>2 DEF Push, HoldsNewest, IsNewest
  <2>4. PICK S : layout \in Seq(S)
    BY DEF AloneInv
  <2>5. /\ DOMAIN layout' = 1..(Len(layout) + 1) /\ layout'[Len(layout) + 1] = m
        /\ \A i \in DOMAIN layout : layout'[i] = layout[i]
        /\ DOMAIN layout = 1..Len(layout) /\ Len(layout) \in Nat
    BY <2>2, <2>4, Appended
  <2>6. \A i \in DOMAIN layout' : i \in DOMAIN layout \/ i = Len(layout) + 1
    BY <2>5
  <2> QED
    BY <1>0, <2>1, <2>3, <2>5, <2>6
<1> QED
  BY <1>6, <1>7, <1>8, <1>9, <1>10, <1>11, <1>12, <1>13 DEF Work

LEMMA NewestStep ==
  Shape /\ TodoInv /\ AloneInv /\ OutDirInv /\ NewestInv /\ [Next]_vars => NewestInv'
<1> SUFFICES ASSUME Shape, TodoInv, AloneInv, OutDirInv, NewestInv, [Next]_vars, ~past'.overlap
             PROVE  /\ \A i \in DOMAIN layout' : layout'[i].digest \in DOMAIN bundles'
                    /\ \A b \in Builders : HoldsNewest(b)'
  BY DEF NewestInv
<1>1. /\ ~past.overlap
      /\ \A i \in DOMAIN layout : layout[i].digest \in DOMAIN bundles
      /\ \A b \in Builders : HoldsNewest(b)
      /\ \A b, c \in Live : b = c
  BY LiveStep DEF NewestInv, AloneInv
<1>2. ASSUME NEW b \in Builders, Work(b)
      PROVE  /\ \A i \in DOMAIN layout' : layout'[i].digest \in DOMAIN bundles'
             /\ \A c \in Builders : HoldsNewest(c)'
  <2>1. ASSUME NEW c \in Builders \ {b} PROVE HoldsNewest(c)'
    <3>1. build[c].phase = "idle"
      BY <1>1, <1>2, OthersKeep DEF Live
    <3>2. build'[c].phase = "idle"
      BY <1>2, <3>1, OthersKeep DEF Keeps, BuildFields
    <3> QED
      BY <3>2, NewestBefore
  <2> QED
    BY <1>1, <1>2, <2>1, WorkNewest
<1>3. ASSUME NEW c \in Builders, build'[c] = build[c], UNCHANGED <<layout, bundles>>,
             \A o \in orphans' : o \in orphans \/ o.slug # SlugOf(c),
             build[c].phase = "read" => outDir'[SlugOf(c)] = outDir[SlugOf(c)]
      PROVE  HoldsNewest(c)'
  <2>1. SlugOf(c)' = SlugOf(c) /\ HoldsNewest(c)
    BY <1>1, <1>3 DEF SlugOf, Item
  <2> QED
    BY <1>3, <2>1 DEF HoldsNewest, IsNewest
<1>4. ASSUME NEW b \in Builders, NEW c \in Cells, NEW f \in Flavours, NEW force \in Forces,
             Begin(b, c, f, force)
      PROVE  /\ \A i \in DOMAIN layout' : layout'[i].digest \in DOMAIN bundles'
             /\ \A d \in Builders : HoldsNewest(d)'
  <2>1. Moves(b) /\ build'[b].phase = "probe"
    BY <1>4, BeginEffect
  <2>2. UNCHANGED <<layout, bundles, outDir, orphans>>
    BY <1>4 DEF Begin
  <2> QED
    BY <1>1, <1>3, <2>1, <2>2, NewestBefore DEF Moves
<1>5. ASSUME NEW b \in Builders, Fail(b) \/ Kill(b)
      PROVE  /\ \A i \in DOMAIN layout' : layout'[i].digest \in DOMAIN bundles'
             /\ \A d \in Builders : HoldsNewest(d)'
  <2>1. Moves(b) /\ build[b].phase # "idle" /\ build'[b].phase \in {"stop", "idle"}
    BY <1>5, FailEffect, KillEffect
  <2>2. UNCHANGED <<bundles, outDir>> /\ layout' \in {layout, <<>>}
    BY <1>5 DEF Fail, Kill
  <2>3. ASSUME NEW c \in Builders \ {b} PROVE HoldsNewest(c)'
    <3>1. build'[c].phase = "idle"
      BY <1>1, <2>1 DEF Live, Moves
    <3> QED
      BY <3>1, NewestBefore
  <2> QED
    BY <1>1, <2>1, <2>2, <2>3, NewestBefore
<1>6. CASE EditTree \/ UNCHANGED vars
  <2>1. UNCHANGED <<layout, bundles, outDir, orphans, build>>
    BY <1>6 DEF EditTree, vars
  <2> QED
    BY <1>1, <1>3, <2>1
<1>7. CASE OrphanExits
  <2>1. PICK o \in orphans : /\ outDir' = [outDir EXCEPT ![o.slug] = o.digest]
                             /\ orphans' = orphans \ {o}
                             /\ UNCHANGED <<layout, bundles, build>>
    BY <1>7 DEF OrphanExits
  <2>2. ASSUME NEW c \in Builders, build[c].phase = "read"
        PROVE  outDir'[SlugOf(c)] = outDir[SlugOf(c)]
    <3>1. o.slug # SlugOf(c)
      BY <1>1, <2>2 DEF HoldsNewest
    <3> QED
      BY <2>1, <3>1
  <2> QED
    BY <1>1, <1>3, <2>1, <2>2
<1> QED
  BY <1>2, <1>4, <1>5, <1>6, <1>7 DEF Next

\* As long as builds do not overlap, the layout implements the promise of the newest
\* builds: each push adds one build, newer than all there are, and replaces in the
\* lockfile the entry of its key only (AppendImage, SynthesizedLockfile).
THEOREM KeepsNewest == Spec => KeepsNewestBuilds
<1> DEFINE Inv == Shape /\ TodoInv /\ AloneInv /\ OutDirInv /\ NewestInv
<1>1. Init => Newest!Init
  <2> SUFFICES ASSUME Init PROVE Newest!Init
    OBVIOUS
  <2>1. layout = <<>> /\ past.overlap = FALSE /\ torn = FALSE
    BY DEF Init
  <2>2. KeysOf(layout) = {} /\ Len(layout) = 0
    BY <2>1 DEF KeysOf
  <2> QED
    BY <2>1, <2>2 DEF Newest!Init, LockfileNow, SynthesizedLockfile
<1>2. ASSUME Inv, [Next]_vars
      PROVE  [Newest!Next]_<<LockfileNow, Len(layout), past.overlap \/ torn>>
  <2>1. CASE past'.overlap \/ torn'
    <3>1. (past'.overlap \/ torn') = TRUE
      BY <2>1
    <3> QED
      BY <3>1 DEF Newest!Next
  <2>2. CASE ~past'.overlap /\ ~torn'
    <3>1. past.overlap = FALSE /\ past'.overlap = FALSE
      BY <1>2, <2>2, LiveStep, ShapeStep DEF Shape
    <3>2. CASE UNCHANGED <<layout, torn>>
      BY <3>1, <3>2 DEF LockfileNow
    <3>3. CASE ~UNCHANGED <<layout, torn>>
      <4>1. PICK b \in Builders : Push(b)
        BY <1>2, <2>2, <3>3, RestLayout, WorkLayout
      <4>9. /\ (past.overlap \/ torn) = FALSE
            /\ (past'.overlap \/ torn') = FALSE
        <5>1. ~torn
          BY <1>2, <3>1, <4>1, PushEffect DEF AloneInv
        <5> QED
          BY <2>2, <3>1, <5>1
      <4>2. PICK m : /\ layout' = Append(layout, m)
                     /\ m.key = BundleKey(Item(b)) /\ m.digest = build[b].digest
        BY <1>2, <3>1, <4>1, PushAlone
      <4>3. PICK S : layout \in Seq(S)
        BY <1>2 DEF AloneInv
      <4>4. m.key # NoKey
        BY <4>2 DEF BundleKey, NoKey
      <4>5. /\ LockfileNow' = [k \in DOMAIN LockfileNow \union {m.key} |->
                                 IF k = m.key THEN [digest |-> m.digest, spec |-> m.spec]
                                 ELSE LockfileNow[k]]
            /\ Len(layout') = Len(layout) + 1
        <5>1. Len(layout') = Len(layout) + 1
          BY <4>2, <4>3, Appended
        <5>2. SynthesizedLockfile(Append(layout, m)) =
                 WithEntry(SynthesizedLockfile(layout), m)
          BY <4>3, <4>4, LockfileOfPush
        <5>3. LockfileNow' = SynthesizedLockfile(Append(layout, m))
          BY <4>2 DEF LockfileNow
        <5> QED
          BY <5>1, <5>2, <5>3 DEF LockfileNow, WithEntry
      <4>6. ASSUME NEW k \in DOMAIN LockfileNow PROVE LockfileNow[k].digest < m.digest
        <5>1. k \in KeysOf(layout)
              /\ LockfileNow[k].digest = layout[LastOf(PlacesOf(layout, k))].digest
          BY <4>6 DEF LockfileNow, SynthesizedLockfile
        <5>2. PlacesOf(layout, k) # {}
          BY <5>1 DEF KeysOf, PlacesOf
        <5>3. LastOf(PlacesOf(layout, k)) \in DOMAIN layout
          <6>1. LastOf(PlacesOf(layout, k)) \in PlacesOf(layout, k)
            BY <4>3, <5>2, LastPlace
          <6> QED
            BY <6>1 DEF PlacesOf
        <5>4. build[b].phase = "append" /\ HoldsNewest(b)
          BY <1>2, <3>1, <4>1, PushEffect DEF NewestInv
        <5> QED
          BY <4>2, <5>1, <5>3, <5>4 DEF HoldsNewest, IsNewest
      <4>7. /\ m.key \in DOMAIN LockfileNow'
            /\ LockfileNow'[m.key] = [digest |-> m.digest, spec |-> m.spec]
        BY <4>5
      <4>8. Newest!Publish(m.key)
        BY <4>5, <4>6, <4>7 DEF Newest!Publish
      <4> QED
        BY <4>7, <4>8, <4>9 DEF Newest!Next
    <3> QED
      BY <3>2, <3>3
  <2> QED
    BY <2>1, <2>2
<1>3. Init => Inv
  BY ShapeInit, TodoInit, AloneInit, OutDirInit, NewestInit
<1>4. Inv /\ [Next]_vars => Inv'
  BY ShapeStep, TodoStep, AloneStep, OutDirStep, NewestStep
<1> QED
  BY <1>1, <1>2, <1>3, <1>4, PTL DEF Spec, KeepsNewestBuilds, Newest!Spec
-----------------------------------------------------------------------------
(* The core that is linked against. *)

\* What the cell's extensions are built against.
ResolvedCore(b) ==
    LookupBySpec(layout, <<"php-core">>, ComputeSpecHash(build[b].cell, Trees[tree]))

\* From the first extension on a process has the core that a lookup finds now, and
\* its container has linked against that one.
HasCore(b) ==
    IsExt(Item(b)) =>
        /\ build[b].core = ResolvedCore(b)
        /\ build[b].phase = "exit" => bundles[build[b].digest].against = build[b].core

LinkInv == ~past.overlap /\ ~past.edited => \A b \in Live : HasCore(b)

\* An extension's push leaves the lookup of the core as it was.
LEMMA WorkResolved ==
  ASSUME Shape, AloneInv, ~past.overlap, NEW b \in Builders, IsExt(Item(b)), Work(b),
         build'[b].cell = build[b].cell
  PROVE  ResolvedCore(b)' = ResolvedCore(b)
<1>1. tree' = tree
  BY WorkShape
<1>2. CASE layout' = layout
  BY <1>1, <1>2 DEF ResolvedCore
<1>3. CASE Push(b)
  <2>1. PICK m : layout' = Append(layout, m) /\ m.name = ImageName(Item(b))
    BY <1>3, PushAlone
  <2>2. PICK S : layout \in Seq(S)
    BY DEF AloneInv
  <2>3. m.name # <<"php-core">>
    BY <2>1 DEF ImageName
  <2> DEFINE spec == ComputeSpecHash(build[b].cell, Trees[tree])
  <2>4. LookupBySpec(Append(layout, m), <<"php-core">>, spec) =
          LookupBySpec(layout, <<"php-core">>, spec)
    BY <2>2, <2>3, LookupOfPush
  <2> QED
    BY <1>1, <2>1, <2>4 DEF ResolvedCore
<1> QED
  BY <1>2, <1>3, WorkLayout

\* A container links against the core its process has resolved.
LEMMA WorkLinked ==
  ASSUME Shape, OutDirInv, NEW b \in Builders, IsServed(b), IsExt(Item(b)), Work(b),
         build'[b].phase = "exit"
  PROVE  bundles'[build'[b].digest].against = build[b].core
<1>1. Pack(b)
  <2>1. CASE SweepStaleSidecars(b) \/ StartSidecar(b) \/ SeedCore(b)
    <3>1. PICK phase \in {"start", "seed", "prepare", "stop"} : Goto(b, phase)
      BY <2>1 DEF SweepStaleSidecars, StartSidecar, SeedCore
    <3> QED
      BY <3>1, GotoEffect
  <2> QED
    BY <2>1, ProbeEffect, PrepareOutDirEffect, DockerRunEffect, ContainerExitsEffect,
       ReadBundleEffect, PushEffect, EndItemEffect, ResolveCoreEffect DEF Work
<1>2. /\ build[b].phase = "pack" /\ build'[b].digest = Len(bundles) + 1 /\ Packs(b)
  BY <1>1, PackEffect
<1>3. PICK r : /\ bundles' = Append(bundles, r)
               /\ r.against \in {s.core : s \in Own(b)} \ {NoDigest}
  BY <1>2 DEF Packs
<1>4. Own(b) = {[owner |-> b, core |-> build[b].core]}
  BY <1>2 DEF IsServed, HasJust, Linking
<1>5. r.against = build[b].core
  BY <1>3, <1>4
<1>6. PICK S : bundles \in Seq(S)
  BY DEF OutDirInv
<1>7. bundles'[Len(bundles) + 1] = r
  BY <1>3, <1>6, Appended
<1> QED
  BY <1>2, <1>5, <1>7

LEMMA WorkHasCore ==
  ASSUME Shape, TodoInv, AloneInv, OutDirInv, CellInv, ~past.overlap, NEW b \in Builders,
         IsServed(b), HasCore(b), Work(b), build'[b].phase # "idle"
  PROVE  HasCore(b)'
<1>1. b \in Live /\ HasTodo(b)
  BY OthersKeep DEF Live, TodoInv
<1>2. CASE Proceeds(b)
  <2>1. /\ build'[b].cell = build[b].cell /\ build'[b].core = build[b].core
        /\ Item(b)' = Item(b)
    BY <1>2 DEF Proceeds, Keeps, Steady, Item
  <2>2. IsExt(Item(b)) => ResolvedCore(b)' = ResolvedCore(b)
    BY <2>1, WorkResolved
  <2>3. IsExt(Item(b)) /\ build'[b].phase = "exit" =>
           bundles'[build'[b].digest].against = build[b].core
    BY WorkLinked
  <2> QED
    BY <2>1, <2>2, <2>3 DEF HasCore
<1>3. CASE Advances(b)
  <2>1. build'[b].phase = "probe" /\ build'[b].cell = build[b].cell
    BY <1>3 DEF Advances, Keeps
  <2>2. CASE build[b].phase = "stop" /\ IsExt(Item(b)) /\ build'[b].core = build[b].core
    BY <2>1, <2>2, WorkResolved DEF HasCore
  <2>3. CASE /\ build[b].phase = "resolve"
             /\ build'[b].core = LookupBySpec(layout, <<"php-core">>,
                                              ComputeSpecHash(Item(b), Trees[tree]))
    <3>1. ~IsExt(Item(b)) /\ OfCell(build[b].todo, build[b].cell)
      BY <1>1, <2>3 DEF CellInv
    <3>2. 1 \in DOMAIN build[b].todo
      <4>1. PICK S : build[b].todo \in Seq(S) \ {<<>>}
        BY <1>1 DEF HasTodo, Live
      <4> QED
        BY <4>1, EmptySeq
    <3>3. Item(b) = build[b].cell
      BY <3>1, <3>2 DEF OfCell, Item
    <3>4. ResolveCore(b)
      BY <2>3 DEF Work, Probe, SweepStaleSidecars, StartSidecar, SeedCore, PrepareOutDir,
                  DockerRun, Pack, ContainerExits, ReadBundle, Push, EndItem
    <3>5. UNCHANGED <<tree, layout>>
      BY <3>4 DEF ResolveCore
    <3>6. build'[b].core = ResolvedCore(b)'
      BY <2>1, <2>3, <3>3, <3>5 DEF ResolvedCore
    <3> QED
      BY <2>1, <3>6 DEF HasCore
  <2> QED
    BY <1>3, <2>2, <2>3 DEF Advances
<1> QED
  BY <1>2, <1>3, WorkGoesOn DEF Finishes

LEMMA LinkStep ==
  Shape /\ TodoInv /\ AloneInv /\ OutDirInv /\ CellInv /\ SidecarInv /\ LinkInv /\ [Next]_vars
     => LinkInv'
<1> SUFFICES ASSUME Shape, TodoInv, AloneInv, OutDirInv, CellInv, SidecarInv, LinkInv,
                    [Next]_vars, ~past'.overlap, ~past'.edited, NEW d \in Live'
             PROVE  HasCore(d)'
  BY DEF LinkInv
<1>1. ~past.overlap /\ d \in Builders /\ build'[d].phase # "idle"
  BY LiveStep DEF Live
<1>2. ASSUME NEW b \in Builders, Work(b)
      PROVE  HasCore(d)'
  <2>1. b \in Live /\ past' = past
    BY <1>2, WorkShape, OthersKeep DEF Live
  <2>2. d = b
    BY <1>1, <1>2, <2>1, OthersKeep DEF AloneInv, Live, Keeps, BuildFields
  <2>3. HasCore(b) /\ IsServed(b)
    BY <1>1, <2>1 DEF LinkInv, SidecarInv
  <2> QED
    BY <1>1, <1>2, <2>2, <2>3, WorkHasCore
<1>3. ASSUME NEW b \in Builders, NEW core \in Cells, NEW f \in Flavours, NEW force \in Forces,
             Begin(b, core, f, force)
      PROVE  HasCore(d)'
  <2>1. Live = {}
    BY <1>3, BeginEffect
  <2>2. d = b
    BY <1>1, <1>3, <2>1, BeginEffect DEF Moves, Live
  <2>3. build'[b].todo = ItemsOf(core, Trees[tree].catalog)
    BY <1>3, BeginEffect
  <2>4. ~IsExt(ItemsOf(core, Trees[tree].catalog)[1])
    <3>1. IsCatalog(Trees[tree].catalog) /\ core \in ExpandPHPMatrix(Trees[tree].catalog)
      BY CatalogAssumption DEF TodoInv
    <3> DEFINE items == ItemsOf(core, Trees[tree].catalog)
    <3>2. items[1] = core /\ ~IsExt(core)
      BY <3>1, ItemsOfCatalog
    <3> QED
      BY <3>2
  <2> QED
    BY <2>2, <2>3, <2>4 DEF HasCore, Item
<1>4. ASSUME NEW b \in Builders, Fail(b) \/ Kill(b)
      PROVE  HasCore(d)'
  <2>1. past'.edited = past.edited /\ Moves(b) /\ build[b].phase # "idle"
    BY <1>4, FailEffect, KillEffect DEF PastFields
  <2>2. d = b
    BY <1>1, <2>1 DEF AloneInv, Live, Moves
  <2>5. UNCHANGED <<tree, layout, bundles>>
    <3>1. Fail(b)
      BY <1>1, <1>4, <2>2, KillEffect
    <3> QED
      BY <3>1 DEF Fail
  <2>3. /\ Keeps(b, {"todo", "cell", "core"}) /\ build'[b].phase = "stop"
    BY <1>1, <1>4, <2>2, FailEffect, KillEffect DEF Keeps
  <2>4. HasCore(b)
    BY <1>1, <2>1 DEF LinkInv, Live
  <2> QED
    BY <2>2, <2>3, <2>4, <2>5 DEF HasCore, ResolvedCore, Item, Keeps
<1>5. CASE EditTree
  <2>1. UNCHANGED build /\ past'.edited = (past.edited \/ Live # {})
    BY <1>5, EditTreeEffect
  <2> QED
    BY <2>1 DEF Live
<1>6. CASE OrphanExits \/ UNCHANGED vars
  <2>1. UNCHANGED <<tree, layout, build, bundles, past>>
    BY <1>6 DEF OrphanExits, vars
  <2>2. HasCore(d)
    BY <1>1, <2>1 DEF LinkInv, Live
  <2> QED
    BY <2>1, <2>2 DEF HasCore, ResolvedCore, Item
<1> QED
  BY <1>2, <1>3, <1>4, <1>5, <1>6 DEF Next

\* A manifest under the key of a cell has its name.
LEMMA KeyGivesName ==
  ASSUME TodoInv, \E S : layout \in Seq(S), InTurn, NEW core \in Cells,
         NEW item \in ItemsNow(core), NEW i \in DOMAIN layout, layout[i].key = BundleKey(item)
  PROVE  layout[i].name = ImageName(item)
<1>1. tree \in DOMAIN Trees /\ item \in AllCells(Trees[tree].catalog)
  BY ItemShape DEF TodoInv, ItemsNow
<1>2. 1..tree \subseteq DOMAIN Trees
  <2>1. PICK S : Trees \in Seq(S)
    BY TreesAssumption
  <2>2. DOMAIN Trees = 1..Len(Trees) /\ Len(Trees) \in Nat
    BY <2>1
  <2> QED
    BY <1>1, <2>2
<1>3. PICK t \in 1..tree : PushedAt(layout[i], t)
  <2>1. DOMAIN layout \subseteq Nat
    OBVIOUS
  <2> QED
    BY <2>1 DEF InTurn
<1>4. PICK c \in Cells : \E x \in Elements(ItemsOf(c, Trees[t].catalog)) :
         layout[i].name = ImageName(x) /\ layout[i].key = BundleKey(x)
  BY <1>3 DEF PushedAt
<1>5. PICK x \in Elements(ItemsOf(c, Trees[t].catalog)) :
         layout[i].name = ImageName(x) /\ layout[i].key = BundleKey(x)
  BY <1>4
<1>6. x \in AllCells(Trees[t].catalog)
  BY <1>2, ItemShape
<1>7. x = item
  BY <1>1, <1>2, <1>5, <1>6, KeyNames
<1> QED
  BY <1>5, <1>7

\* Where there is one build of the core, the first manifest of its spec hash and
\* the last of its key are one.
LEMMA FirstIsLast ==
  ASSUME TodoInv, \E S : layout \in Seq(S), InTurn, NEW core \in Cells,
         core \in ItemsNow(core), ~IsExt(core), ~BuiltAgain(core), ~CameBack(core),
         NEW d, d # NoDigest,
         d = LookupBySpec(layout, <<"php-core">>, ComputeSpecHash(core, Trees[tree]))
  PROVE  /\ BundleKey(core) \in DOMAIN LockfileNow
         /\ LockfileNow[BundleKey(core)].digest = d
<1> DEFINE name == <<"php-core">>
           spec == ComputeSpecHash(core, Trees[tree])
           k == BundleKey(core)
           last == LastOf(PlacesOf(layout, k))
<1>1. ImageName(core) = name
  BY DEF ImageName
<1>2. PICK i \in DOMAIN layout : /\ layout[i].name = name /\ layout[i].spec = spec
                                 /\ d = layout[i].digest
  <2> DEFINE hits == {j \in DOMAIN layout : layout[j].name = name /\ layout[j].spec = spec}
             found == LookupBySpec(layout, name, spec)
  <2> HIDE DEF name, spec
  <2>1. IF hits = {} THEN found = NoDigest ELSE \E j \in hits : found = layout[j].digest
    BY LookupFinds
  <2>2. d = found
    BY DEF name, spec
  <2>3. \E j \in hits : d = layout[j].digest
    <3> HIDE DEF hits, found
    <3> QED
      BY <2>1, <2>2
  <2> QED
    BY <2>3
<1>3. Published(core, tree)
  BY <1>1, <1>2 DEF Published
<1>4. Current(core)
  BY <1>3, LastIsCurrent
<1>5. k \in KeysOf(layout) /\ layout[last].spec = spec
      /\ LockfileNow[k].digest = layout[last].digest
  <2>1. k \in DOMAIN LockfileNow /\ LockfileNow[k].spec = spec
    BY <1>4 DEF Current
  <2>2. /\ DOMAIN LockfileNow = KeysOf(layout)
        /\ k \in KeysOf(layout) => LockfileNow[k] = [digest |-> layout[last].digest,
                                                     spec |-> layout[last].spec]
    BY DEF LockfileNow, SynthesizedLockfile
  <2> HIDE DEF k, spec, last
  <2> QED
    BY <2>1, <2>2
<1>6. last \in DOMAIN layout /\ layout[last].key = k
  <2>1. PlacesOf(layout, k) # {}
    BY <1>5 DEF KeysOf, PlacesOf
  <2>2. last \in PlacesOf(layout, k)
    BY <2>1, LastPlace
  <2> HIDE DEF last
  <2> QED
    BY <2>2 DEF PlacesOf
<1> HIDE DEF last
<1>7. layout[last].name = name
  BY <1>1, <1>6, KeyGivesName
<1>8. last = i
  BY <1>1, <1>2, <1>5, <1>6, <1>7 DEF BuiltAgain
<1> QED
  BY <1>2, <1>4, <1>5, <1>8 DEF Current

\* Where builds do not overlap, what a container has linked an extension against
\* is the core that the lockfile made of the layout names beside it, unless the
\* core was built again or its spec hash came back (BuildCell, LookupBySpec,
\* SeedCore, Synthesize).
THEOREM LinkedIsLocked == Spec => []LinkedAgainstLocked
<1> DEFINE Inv == Shape /\ TodoInv /\ AloneInv /\ OutDirInv /\ DigestInv /\ CellInv
           Rest == SeededInv /\ TreeInv /\ LayoutInv /\ SidecarInv /\ LinkInv
<1>1. Init => Rest
  <2> SUFFICES ASSUME Init PROVE Rest
    OBVIOUS
  <2>1. Live = {} /\ sidecars = {} /\ layout = <<>> /\ bundles = <<>>
    BY IdleIsBuild DEF Init, Live
  <2> QED
    BY <2>1, SidecarInit DEF SeededInv, TreeInv, MadeAsListed, AllLinked, LayoutInv, InTurn,
                             LinkInv
<1>2. Spec => []Inv
  BY BuildInvariant
<1>3. Inv /\ Inv' /\ Rest /\ [Next]_vars => Rest'
  BY SeededStep, TreeStep, LayoutStep, SidecarStep, LinkStep
<1>4. Inv /\ Rest => LinkedAgainstLocked
  <2> SUFFICES ASSUME Inv, Rest, NEW b \in Builders, build[b].phase = "exit", IsExt(Item(b)),
                      ~past.overlap, ~past.edited, NEW core, core = build[b].cell,
                      ~BuiltAgain(core), ~CameBack(core)
               PROVE  /\ BundleKey(core) \in DOMAIN LockfileNow
                      /\ bundles[build[b].digest].against = LockfileNow[BundleKey(core)].digest
    BY DEF LinkedAgainstLocked
  <2>1. b \in Live /\ core \in Cells
    BY DEF Live, CellInv
  <2>2. /\ bundles[build[b].digest].against = build[b].core
        /\ build[b].core =
              LookupBySpec(layout, <<"php-core">>, ComputeSpecHash(core, Trees[tree]))
        /\ build[b].core # NoDigest
    BY <2>1 DEF LinkInv, HasCore, ResolvedCore, TodoInv, HasTodo
  <2>3. ~IsExt(core) /\ core \in ItemsNow(core)
    <3>1. IsCatalog(Trees[tree].catalog) /\ core \in ExpandPHPMatrix(Trees[tree].catalog)
      BY <2>1, CatalogAssumption DEF TodoInv
    <3> DEFINE items == ItemsOf(core, Trees[tree].catalog)
               S == DiscoverExtensionsForCell(Trees[tree].catalog, core.version, core.os,
                                              core.arch, core.ts)
    <3>2. ~IsExt(core) /\ Elements(items) = {core} \union S
      BY <3>1, ItemsOfCatalog
    <3> QED
      BY <3>2 DEF ItemsNow
  <2>4. InTurn /\ TodoInv /\ \E S : layout \in Seq(S)
    BY DEF LayoutInv, AloneInv
  <2> QED
    BY <2>1, <2>2, <2>3, <2>4, FirstIsLast
<1> QED
  BY <1>1, <1>2, <1>3, <1>4, PTL DEF Spec
=============================================================================

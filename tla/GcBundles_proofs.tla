-------------------------- MODULE GcBundles_proofs --------------------------
(***************************************************************************)
(* Proofs about Publish and GcBundles for any trees, jobs and workflow     *)
(* runs, and whatever the bounds are: nothing that is on main is lost; a   *)
(* sweep that keeps clear of runs and reads a fresh clone deletes nothing  *)
(* that the head of main or a release names; nothing names a bundle that   *)
(* was not built; and the lockfile that a run commits, which no other run  *)
(* overlaps, is of the tree it was made for.                               *)
(***************************************************************************)
EXTENDS GcBundles, SharedFacts

-----------------------------------------------------------------------------
(* main. *)

\* A step leaves main as it is or adds one commit, and the commit a run pushes
\* is its own lockfile on the head it checked out.
LEMMA MainGrows ==
  ASSUME NEW S, main \in Seq(S), Next
  PROVE  \/ main' = main
         \/ \E r \in Runs, t \in DOMAIN Trees :
               /\ Merge(r, t)
               /\ main' = Append(main, [main[Len(main)] EXCEPT !.tree = t])
         \/ \E r \in Runs :
               /\ CommitLockfile(r)
               /\ main' = Append(main, [main[Len(main)] EXCEPT !.lock = run[r].lock,
                                                               !.v1 = FALSE])
<1>1. CASE Publishes
  <2>1. ASSUME NEW r \in Runs, NEW t \in DOMAIN Trees, Merge(r, t)
        PROVE  main' = Append(main, [main[Len(main)] EXCEPT !.tree = t])
    BY <2>1 DEF Merge
  <2>2. ASSUME NEW r \in Runs, Dispatch(r) \/ Fail(r) PROVE main' = main
    BY <2>2 DEF Dispatch, Fail
  <2>3. ASSUME NEW r \in Runs, CommitLockfile(r), main' # main
        PROVE  main' = Append(main, [main[Len(main)] EXCEPT !.lock = run[r].lock,
                                                            !.v1 = FALSE])
    <3>1. Len(main) = run[r].base
      BY <2>3 DEF CommitLockfile
    <3>2. SubSeq(main, 1, Len(main)) = main
      BY WholeSeq
    <3> QED
      BY <2>3, <3>1, <3>2 DEF CommitLockfile
  <2>4. ASSUME NEW r \in Runs, NEW j \in DOMAIN Jobs, BuildLayout(r, j)
        PROVE  main' = main
    BY <2>4 DEF BuildLayout
  <2>5. ASSUME NEW r \in Runs, PromoteOne(r) \/ ResolveDigest(r) PROVE main' = main
    BY <2>5 DEF PromoteOne, ResolveDigest
  <2>6. ASSUME NEW j \in DOMAIN Jobs, Evict(j) PROVE main' = main
    BY <2>6 DEF Evict
  <2> QED
    BY <1>1, <2>1, <2>2, <2>3, <2>4, <2>5, <2>6 DEF Publishes, PublishNext, Work
<1>2. CASE Release \/ (\E clone \in DOMAIN main : BeginSweep(clone)) \/ TimePasses
  BY <1>2 DEF Release, BeginSweep, TimePasses, publishVars
<1>3. CASE Sweep
  BY <1>3 DEF Sweep, ListPackageVersions, DeletePackageVersion, EndSweep, publishVars
<1> QED
  BY <1>1, <1>2, <1>3 DEF Next

MainIsSeq == \E S : main \in Seq(S)

LEMMA MainInit == GcInit => MainIsSeq
<1> SUFFICES ASSUME GcInit PROVE MainIsSeq
  OBVIOUS
<1> DEFINE first == [tree |-> 1, lock |-> FirstLock, v1 |-> TRUE]
<1>1. main = <<first>>
  BY DEF GcInit, Init
<1>2. <<first>> \in Seq({first})
  OBVIOUS
<1> QED
  BY <1>1, <1>2 DEF MainIsSeq

LEMMA MainStep ==
  ASSUME MainIsSeq, Next
  PROVE  MainIsSeq' /\ Len(main') >= Len(main) /\ SubSeq(main', 1, Len(main)) = main
<1>1. PICK S : main \in Seq(S)
  BY DEF MainIsSeq
<1>2. CASE main' = main
  BY <1>1, <1>2, WholeSeq DEF MainIsSeq
<1>3. ASSUME NEW x, main' = Append(main, x)
      PROVE  MainIsSeq' /\ Len(main') >= Len(main) /\ SubSeq(main', 1, Len(main)) = main
  <2>1. main' \in Seq(S \union {x}) /\ Len(main') = Len(main) + 1
    BY <1>1, <1>3, Appended
  <2>2. SubSeq(main', 1, Len(main)) = main
    BY <1>1, <1>3, PrefixOfAppend
  <2>3. Len(main) \in Nat
    BY <1>1
  <2> QED
    BY <2>1, <2>2, <2>3 DEF MainIsSeq
<1> QED
  BY <1>1, <1>2, <1>3, MainGrows

\* Nothing that is on main is lost, whatever runs overlap, fail or are dispatched
\* again (CommitLockfile: --force-with-lease).
THEOREM CommitsKept == Spec => NoCommitLost
<1>1. MainIsSeq /\ [Next]_vars => MainIsSeq'
  BY MainStep DEF MainIsSeq, vars, publishVars
<1>2. MainIsSeq /\ [Next]_vars =>
         [/\ Len(main') >= Len(main) /\ SubSeq(main', 1, Len(main)) = main]_main
  BY MainStep DEF vars, publishVars
<1> QED
  BY MainInit, <1>1, <1>2, PTL DEF Spec, NoCommitLost

-----------------------------------------------------------------------------
(* Shapes. *)

\* The head is a commit, and DOMAIN main is 1..Len(main).
LEMMA MainHead ==
  ASSUME MainShape
  PROVE  /\ DOMAIN main = 1..Len(main)
         /\ Len(main) \in DOMAIN main
         /\ Len(main) \in Nat
<1>1. PICK S : main \in Seq(S)
  BY DEF MainShape
<1>2. DOMAIN main = 1..Len(main) /\ Len(main) \in Nat
  BY <1>1
<1>3. Len(main) # 0
  BY <1>1 DEF MainShape
<1> QED
  BY <1>2, <1>3

\* What MainGrows says of a step, commit by commit.
LEMMA CommitByCommit ==
  ASSUME MainShape, Next
  PROVE  /\ MainIsSeq' /\ main' # <<>>
         /\ \/ main' = main
            \/ /\ DOMAIN main' = 1..(Len(main) + 1)
               /\ Len(main') = Len(main) + 1
               /\ \A c \in DOMAIN main : main'[c] = main[c]
               /\ \/ \E r \in Runs, t \in DOMAIN Trees :
                        /\ Merge(r, t)
                        /\ main'[Len(main) + 1] = [main[Len(main)] EXCEPT !.tree = t]
                  \/ \E r \in Runs :
                        /\ CommitLockfile(r)
                        /\ main'[Len(main) + 1] =
                              [main[Len(main)] EXCEPT !.lock = run[r].lock, !.v1 = FALSE]
<1>1. PICK S : main \in Seq(S)
  BY DEF MainShape
<1>2. CASE main' = main
  BY <1>1, <1>2 DEF MainIsSeq, MainShape
<1>3. ASSUME NEW x, main' = Append(main, x)
      PROVE  /\ MainIsSeq' /\ main' # <<>>
             /\ DOMAIN main' = 1..(Len(main) + 1)
             /\ Len(main') = Len(main) + 1
             /\ \A c \in DOMAIN main : main'[c] = main[c]
             /\ main'[Len(main) + 1] = x
  <2>1. main' \in Seq(S \union {x})
    BY <1>1, <1>3, Appended
  <2> QED
    BY <1>1, <1>3, <2>1, Appended DEF MainIsSeq
<1>4. ASSUME NEW r \in Runs, NEW t \in DOMAIN Trees, Merge(r, t),
             main' = Append(main, [main[Len(main)] EXCEPT !.tree = t])
      PROVE  main'[Len(main) + 1] = [main[Len(main)] EXCEPT !.tree = t]
  BY <1>3, <1>4
<1>5. ASSUME NEW r \in Runs, CommitLockfile(r),
             main' = Append(main, [main[Len(main)] EXCEPT !.lock = run[r].lock, !.v1 = FALSE])
      PROVE  main'[Len(main) + 1] =
                [main[Len(main)] EXCEPT !.lock = run[r].lock, !.v1 = FALSE]
  BY <1>3, <1>5
<1> QED
  BY <1>1, <1>2, <1>3, <1>4, <1>5, MainGrows

LEMMA MainShapeStep ==
  ASSUME MainShape, Next
  PROVE  MainShape'
<1>1. MainIsSeq' /\ main' # <<>>
  BY CommitByCommit
<1>2. main' # main => DOMAIN main' = 1..(Len(main) + 1)
  BY CommitByCommit
<1>. DOMAIN main = 1..Len(main) /\ Len(main) \in Nat
  BY MainHead
<1>5. DOMAIN main \subseteq DOMAIN main'
  BY <1>2
<1>3. \A c \in DOMAIN main' : HasFields(main'[c], {"tree", "lock", "v1"})
  <2>1. CASE main' = main
    BY <2>1 DEF MainShape
  <2>2. CASE main' # main
    <3> SUFFICES ASSUME NEW c \in DOMAIN main'
                 PROVE  HasFields(main'[c], {"tree", "lock", "v1"})
      OBVIOUS
    <3>1. CASE c \in DOMAIN main
      BY <2>2, <3>1, CommitByCommit DEF MainShape
    <3>2. CASE c \notin DOMAIN main
      <4>1. c = Len(main) + 1
        BY <2>2, <3>2, <1>2, MainHead
      <4>2. HasFields(main[Len(main)], {"tree", "lock", "v1"})
        BY MainHead DEF MainShape
      <4> QED
        BY <2>2, <4>1, <4>2, CommitByCommit DEF HasFields
    <3> QED
      BY <3>1, <3>2
  <2> QED
    BY <2>1, <2>2
<1>4. releases' \subseteq DOMAIN main'
  <2>1. releases' \subseteq releases \union {Len(main)}
    BY DEF Next, Publishes, Release, BeginSweep, Sweep, ListPackageVersions,
           DeletePackageVersion, EndSweep, TimePasses, gcVars
  <2> QED
    BY <1>5, <2>1, MainHead DEF MainShape
<1> QED
  BY <1>1, <1>3, <1>4 DEF MainShape, MainIsSeq

-----------------------------------------------------------------------------
(* Runs and the registry. *)

IsRun(x) == HasFields(x, RunFields)

\* The conjuncts of the invariant that are about runs and the registry alone.
RunsInv ==
    /\ run = [r \in Runs |-> run[r]]
    /\ \A r \in Runs : HasFields(run[r], RunFields)
    /\ HasFields(registry, {"tags", "present", "old"})
    /\ \A t \in DOMAIN registry.tags : registry.tags[t] \in registry.present
    /\ \A r \in Runs : run[r].phase \in Over => run[r].lock = <<>>

RunLocksPresent == \A r \in Runs : DigestsOf(run[r].lock) \subseteq registry.present

LEMMA NoLockNoDigests == DigestsOf(<<>>) = {}
  BY DEF DigestsOf

LEMMA RunsAreRuns == RunsInv => \A r \in Runs : IsRun(run[r])
  BY DEF RunsInv, IsRun

\* A run that is given a state whose digests are present.
LEMMA SetRun ==
  ASSUME RunsInv, NEW r \in Runs, NEW st, Set(r, st), IsRun(st),
         st.phase \in Over => st.lock = <<>>,
         HasFields(registry', {"tags", "present", "old"}),
         \A t \in DOMAIN registry'.tags : registry'.tags[t] \in registry'.present,
         registry.present \subseteq registry'.present,
         RunLocksPresent => DigestsOf(st.lock) \subseteq registry'.present
  PROVE  RunsInv' /\ (RunLocksPresent => RunLocksPresent')
<1>1. DOMAIN run = Runs
  BY DEF RunsInv
<1>2. run' = [x \in Runs |-> IF x = r THEN st ELSE run[x]]
  BY <1>1 DEF Set
<1>3. \A x \in Runs : IsRun(run'[x])
  BY <1>2, RunsAreRuns
<1>4. \A x \in Runs : run'[x].phase \in Over => run'[x].lock = <<>>
  BY <1>2 DEF RunsInv
<1>5. RunLocksPresent => RunLocksPresent'
  BY <1>2 DEF RunLocksPresent, DigestsOf
<1>6. run' = [x \in Runs |-> run'[x]]
  BY <1>2
<1> QED
  BY <1>3, <1>4, <1>5, <1>6 DEF RunsInv, IsRun

\* Whatever a workflow run does, what it resolved is in the registry afterwards.
LEMMA PublishKeepsRuns ==
  ASSUME RunsInv, PublishNext
  PROVE  /\ RunsInv'
         /\ RunLocksPresent => RunLocksPresent'
         /\ registry.present \subseteq registry'.present
<1> USE NoLockNoDigests
<1>1. ASSUME NEW r \in Runs, NEW st, Set(r, st), IsRun(st), UNCHANGED registry,
             \/ st.lock = <<>>
             \/ st.lock = run[r].lock /\ st.phase \notin Over
      PROVE  RunsInv' /\ (RunLocksPresent => RunLocksPresent')
  <2>1. RunLocksPresent => DigestsOf(st.lock) \subseteq registry'.present
    BY <1>1 DEF RunLocksPresent
  <2>2. st.phase \in Over => st.lock = <<>>
    BY <1>1
  <2> QED
    BY <1>1, <2>1, <2>2, SetRun DEF RunsInv
<1>2. ASSUME NEW r \in Runs, NEW st,
             IsRun(st), st.lock = <<>>, Set(r, st), UNCHANGED registry
      PROVE  RunsInv' /\ (RunLocksPresent => RunLocksPresent')
  BY <1>1, <1>2
<1>3. ASSUME NEW r \in Runs, NEW base, NEW force, Start(r, base, force), UNCHANGED registry
      PROVE  RunsInv' /\ (RunLocksPresent => RunLocksPresent')
  <2> DEFINE st == [Waiting EXCEPT !.phase = "pipeline", !.base = base, !.force = force]
  <2>1. IsRun(st) /\ st.lock = <<>>
    BY DEF IsRun, HasFields, RunFields, Waiting
  <2> QED
    BY <1>2, <1>3, <2>1 DEF Start
<1>4. ASSUME NEW r \in Runs, CommitLockfile(r) \/ Fail(r)
      PROVE  RunsInv' /\ (RunLocksPresent => RunLocksPresent') /\ UNCHANGED registry
  <2>1. PICK phase : Set(r, [Waiting EXCEPT !.phase = phase]) /\ UNCHANGED registry
    BY <1>4 DEF CommitLockfile, Fail
  <2>2. IsRun([Waiting EXCEPT !.phase = phase]) /\ [Waiting EXCEPT !.phase = phase].lock = <<>>
    BY DEF IsRun, HasFields, RunFields, Waiting
  <2> QED
    BY <1>2, <2>1, <2>2
<1>5. ASSUME NEW r \in Runs, NEW j \in DOMAIN Jobs, BuildLayout(r, j)
      PROVE  RunsInv' /\ (RunLocksPresent => RunLocksPresent') /\ UNCHANGED registry
  <2>1. PICK layouts, phase, todo :
           /\ Set(r, [run[r] EXCEPT !.layouts = layouts, !.phase = phase, !.todo = todo])
           /\ phase \in {"pipeline", "promote"}
           /\ UNCHANGED registry
    BY <1>5 DEF BuildLayout
  <2> DEFINE st == [run[r] EXCEPT !.layouts = layouts, !.phase = phase, !.todo = todo]
  <2>2. IsRun(run[r])
    BY RunsAreRuns
  <2>3. IsRun(st) /\ st.lock = run[r].lock /\ st.phase \notin Over
    <3>1. IsRun(st) /\ st.lock = run[r].lock /\ st.phase = phase
      BY <2>2 DEF IsRun, HasFields, RunFields
    <3> QED
      BY <2>1, <3>1 DEF Over
  <2> QED
    BY <1>1, <2>1, <2>3
<1>6. ASSUME NEW r \in Runs, PromoteOne(r)
      PROVE  /\ RunsInv' /\ (RunLocksPresent => RunLocksPresent')
             /\ registry.present \subseteq registry'.present
  <2> DEFINE m == run[r].todo[1]
             tag == CanonicalRefFromBundleKey(m.key)
  <2>1. registry' = [registry EXCEPT
           !.tags = [t \in DOMAIN @ \union {tag} |-> IF t = tag THEN m.digest ELSE @[t]],
           !.present = @ \union {m.digest}]
    BY <1>6 DEF PromoteOne
  <2>2. /\ HasFields(registry', {"tags", "present", "old"})
        /\ registry'.tags = [t \in DOMAIN registry.tags \union {tag} |->
                               IF t = tag THEN m.digest ELSE registry.tags[t]]
        /\ registry'.present = registry.present \union {m.digest}
    <3> HIDE DEF m, tag
    <3> QED
      BY <2>1 DEF RunsInv, HasFields
  <2>3. \A t \in DOMAIN registry'.tags : registry'.tags[t] \in registry'.present
    <3> HIDE DEF m, tag
    <3> QED
      BY <2>2 DEF RunsInv
  <2>4. PICK todo, phase, layouts :
           /\ Set(r, [run[r] EXCEPT !.layouts = layouts, !.phase = phase, !.todo = todo])
           /\ phase \in {"promote", "resolve"}
    <3>1. IsRun(run[r]) /\ run[r].phase = "promote"
      BY <1>6, RunsAreRuns DEF PromoteOne
    <3>2. [run[r] EXCEPT !.todo = Tail(@)] =
             [run[r] EXCEPT !.layouts = run[r].layouts, !.phase = "promote",
                            !.todo = Tail(run[r].todo)]
      BY <3>1 DEF IsRun, HasFields, RunFields
    <3>3. CASE Len(run[r].todo) > 1
      BY <1>6, <3>2, <3>3 DEF PromoteOne
    <3>4. CASE ~(Len(run[r].todo) > 1)
      BY <1>6, <3>4 DEF PromoteOne
    <3> QED
      BY <3>3, <3>4
  <2> DEFINE st == [run[r] EXCEPT !.layouts = layouts, !.phase = phase, !.todo = todo]
  <2>5. IsRun(st) /\ st.lock = run[r].lock /\ st.phase \notin Over
    <3>1. IsRun(st) /\ st.lock = run[r].lock /\ st.phase = phase
      BY RunsAreRuns DEF IsRun, HasFields, RunFields
    <3> QED
      BY <2>4, <3>1 DEF Over
  <2>6. RunLocksPresent => DigestsOf(st.lock) \subseteq registry'.present
    BY <2>2, <2>5 DEF RunLocksPresent
  <2> HIDE DEF st, m, tag
  <2> QED
    BY <2>2, <2>3, <2>4, <2>5, <2>6, SetRun DEF st
<1>7. ASSUME NEW r \in Runs, ResolveDigest(r)
      PROVE  RunsInv' /\ (RunLocksPresent => RunLocksPresent') /\ UNCHANGED registry
  <2> DEFINE cell == run[r].todo[1]
             tag == TagOf(cell)
             key == BundleKey(cell)
             entry == [k \in {key} |->
                         [digest |-> registry.tags[tag],
                          spec |-> <<LockSpecHash(cell, TreeAt(run[r].base))>>]]
             todo == Tail(run[r].todo)
             phase == IF Len(run[r].todo) = 1 THEN "commit" ELSE run[r].phase
             grown == [k \in DOMAIN run[r].lock \union DOMAIN entry |->
                          IF k \in DOMAIN entry THEN entry[k] ELSE run[r].lock[k]]
  <2>1. IsRun(run[r]) /\ run[r].phase = "resolve" /\ UNCHANGED registry
    BY <1>7, RunsAreRuns DEF ResolveDigest
  <2>2. phase \notin Over
    BY <2>1 DEF Over
  <2>3. CASE /\ tag \in DOMAIN registry.tags
             /\ Set(r, [run[r] EXCEPT !.todo = todo, !.phase = phase, !.lock = grown])
    <3> DEFINE st == [run[r] EXCEPT !.todo = todo, !.phase = phase, !.lock = grown]
    <3>1. IsRun(st) /\ st.lock = grown /\ st.phase = phase
      <4> HIDE DEF todo, phase, grown
      <4> QED
        BY <2>1 DEF IsRun, HasFields, RunFields
    <3>2. registry.tags[tag] \in registry.present
      BY <2>3 DEF RunsInv
    <3>3. \A k \in DOMAIN grown : \/ grown[k].digest = registry.tags[tag]
                                  \/ k \in DOMAIN run[r].lock /\ grown[k] = run[r].lock[k]
      <4> HIDE DEF tag, key, cell
      <4> QED
        OBVIOUS
    <3>4. RunLocksPresent => DigestsOf(grown) \subseteq registry.present
      <4> HIDE DEF tag, grown
      <4> QED
        BY <3>2, <3>3 DEF RunLocksPresent, DigestsOf
    <3> HIDE DEF st, grown, phase, tag
    <3> QED
      BY <2>1, <2>2, <2>3, <3>1, <3>4, SetRun DEF st, RunsInv
  <2>4. ASSUME NEW missed,
               Set(r, [run[r] EXCEPT !.todo = todo, !.phase = phase, !.missed = missed])
        PROVE  RunsInv' /\ (RunLocksPresent => RunLocksPresent')
    <3> DEFINE st == [run[r] EXCEPT !.todo = todo, !.phase = phase, !.missed = missed]
    <3>1. IsRun(st) /\ st.lock = run[r].lock /\ st.phase = phase
      <4> HIDE DEF todo, phase
      <4> QED
        BY <2>1 DEF IsRun, HasFields, RunFields
    <3> HIDE DEF st, phase
    <3> QED
      BY <1>1, <2>1, <2>2, <2>4, <3>1 DEF st
  <2>5. \/ /\ tag \in DOMAIN registry.tags
           /\ Set(r, [run[r] EXCEPT !.todo = todo, !.phase = phase, !.lock = grown])
        \/ \E missed :
              Set(r, [run[r] EXCEPT !.todo = todo, !.phase = phase, !.missed = missed])
    BY <1>7, <2>1 DEF ResolveDigest
  <2> QED
    BY <2>1, <2>3, <2>4, <2>5
<1>8. ASSUME NEW j \in DOMAIN Jobs, Evict(j)
      PROVE  RunsInv' /\ (RunLocksPresent => RunLocksPresent') /\ UNCHANGED registry
  BY <1>8 DEF Evict, RunsInv, RunLocksPresent, DigestsOf
<1>9. ASSUME NEW r \in Runs, NEW t \in DOMAIN Trees, Merge(r, t)
      PROVE  RunsInv' /\ (RunLocksPresent => RunLocksPresent') /\ UNCHANGED registry
  BY <1>3, <1>9 DEF Merge
<1>10. ASSUME NEW r \in Runs, Dispatch(r)
       PROVE  RunsInv' /\ (RunLocksPresent => RunLocksPresent') /\ UNCHANGED registry
  BY <1>3, <1>10 DEF Dispatch
<1> QED
  BY <1>4, <1>5, <1>6, <1>7, <1>8, <1>9, <1>10 DEF PublishNext, Work

-----------------------------------------------------------------------------
(* Sweeps. *)

LEMMA GcInvParts ==
  GcInv <=> /\ MainShape /\ RunsInv /\ SweepIsAlone /\ LockedArePresent
            /\ HasFields(sweep, {"phase", "referenced", "packages", "candidates"})
            /\ swept \in [sweeps : Nat, raced : BOOLEAN, stale : BOOLEAN]
            /\ ~swept.raced => RunLocksPresent
  BY DEF GcInv, StateShape, ResolvedArePresent, RunsInv, RunLocksPresent

\* A step after which no run is under way, and before which none was, commits nothing.
LEMMA QuietKeepsMain ==
  ASSUME RunsInv, PublishNext, Active = {}, Active' = {}
  PROVE  main' = main
<1>1. ASSUME NEW r \in Runs, NEW t \in DOMAIN Trees, Merge(r, t) PROVE FALSE
  <2>1. run'[r].phase = "pipeline"
    BY <1>1 DEF Merge, Start, Set, RunsInv, Waiting
  <2> QED
    BY <2>1 DEF Active, Over
<1>2. ASSUME NEW r \in Runs, CommitLockfile(r) PROVE FALSE
  BY <1>2 DEF CommitLockfile, Active, Over
<1>3. ASSUME NEW r \in Runs, \/ Dispatch(r) \/ Fail(r) \/ PromoteOne(r) \/ ResolveDigest(r)
      PROVE  main' = main
  BY <1>3 DEF Dispatch, Fail, PromoteOne, ResolveDigest
<1>4. ASSUME NEW r \in Runs, NEW j \in DOMAIN Jobs, BuildLayout(r, j) PROVE main' = main
  BY <1>4 DEF BuildLayout
<1>5. ASSUME NEW j \in DOMAIN Jobs, Evict(j) PROVE main' = main
  BY <1>5 DEF Evict
<1> QED
  BY <1>1, <1>2, <1>3, <1>4, <1>5 DEF PublishNext, Work

LEMMA PublishesStep ==
  ASSUME GcInv, Publishes
  PROVE  GcInv'
<1> USE GcInvParts
<1>1. Next /\ PublishNext /\ UNCHANGED <<releases, sweep>>
  BY DEF Publishes, Next
<1>2. MainShape'
  BY <1>1, MainShapeStep
<1>3. /\ RunsInv'
      /\ RunLocksPresent => RunLocksPresent'
      /\ registry.present \subseteq registry'.present
  BY <1>1, PublishKeepsRuns
<1>4. /\ swept' \in [sweeps : Nat, raced : BOOLEAN, stale : BOOLEAN]
      /\ swept'.stale = swept.stale
      /\ ~swept'.raced => ~swept.raced /\ (sweep.phase # "idle" => Active' = {})
  BY DEF Publishes
<1>5. SweepIsAlone'
  <2>1. ~swept'.raced /\ sweep'.phase # "idle" => main' = main
    BY <1>1, <1>4, QuietKeepsMain DEF SweepIsAlone
  <2>2. \A c \in releases' \union {Len(main')} :
           ~swept'.raced /\ ~swept'.stale /\ sweep'.phase # "idle" /\ ~main'[c].v1 =>
              DigestsOf(main'[c].lock) \subseteq sweep'.referenced
    BY <1>1, <1>4, <2>1 DEF SweepIsAlone, DigestsOf
  <2> QED
    BY <1>1, <1>4, <2>2 DEF SweepIsAlone, DigestsOf, Active, Over
<1>6. LockedArePresent'
  <2> SUFFICES ASSUME ~swept'.raced, ~swept'.stale,
                      NEW c \in releases \union {Len(main')}, ~main'[c].v1
               PROVE  DigestsOf(main'[c].lock) \subseteq registry'.present
    BY <1>1 DEF LockedArePresent, DigestsOf
  <2>1. \A d \in releases \union {Len(main)} :
           ~main[d].v1 => DigestsOf(main[d].lock) \subseteq registry'.present
    BY <1>3, <1>4 DEF LockedArePresent
  <2>2. CASE main' = main
    BY <2>1, <2>2
  <2>3. CASE main' # main
    <3>1. DOMAIN main = 1..Len(main) /\ Len(main) \in Nat /\ Len(main) \in DOMAIN main
      BY MainHead
    <3>2. Len(main') = Len(main) + 1 /\ \A d \in DOMAIN main : main'[d] = main[d]
      BY <1>1, <2>3, CommitByCommit
    <3>3. CASE c \in DOMAIN main
      BY <2>1, <3>1, <3>2, <3>3
    <3>4. CASE c \notin DOMAIN main
      <4>1. c = Len(main) + 1
        BY <3>2, <3>4 DEF MainShape
      <4>2. HasFields(main[Len(main)], {"tree", "lock", "v1"})
        BY <3>1 DEF MainShape
      <4>3. CASE \E t : main'[c] = [main[Len(main)] EXCEPT !.tree = t]
        <5>1. main'[c].v1 = main[Len(main)].v1 /\ main'[c].lock = main[Len(main)].lock
          BY <4>2, <4>3 DEF HasFields
        <5> QED
          BY <2>1, <5>1
      <4>4. CASE \E r \in Runs :
                    main'[c] = [main[Len(main)] EXCEPT !.lock = run[r].lock, !.v1 = FALSE]
        <5>1. PICK r \in Runs : main'[c].lock = run[r].lock
          BY <4>2, <4>4 DEF HasFields
        <5>2. DigestsOf(run[r].lock) \subseteq registry.present
          BY <1>4 DEF RunLocksPresent
        <5> QED
          BY <1>3, <5>1, <5>2
      <4> QED
        BY <1>1, <2>3, <4>1, <4>3, <4>4, CommitByCommit
    <3> QED
      BY <3>3, <3>4
  <2> QED
    BY <2>2, <2>3
<1> QED
  BY <1>1, <1>2, <1>3, <1>4, <1>5, <1>6 DEF GcInv, StateShape,
     ResolvedArePresent, RunsInv, RunLocksPresent

LEMMA ReleaseStep ==
  ASSUME GcInv, Release
  PROVE  GcInv'
<1> USE GcInvParts
<1>1. releases' = releases \union {Len(main)} /\ UNCHANGED <<publishVars, sweep, swept>>
  BY DEF Release
<1>2. MainShape'
  BY MainShapeStep DEF Next
<1>3. RunsInv' /\ (RunLocksPresent => RunLocksPresent')
  BY <1>1 DEF RunsInv, RunLocksPresent, publishVars, DigestsOf
<1>4. SweepIsAlone'
  BY <1>1 DEF SweepIsAlone, publishVars, DigestsOf, Active
<1>5. LockedArePresent'
  BY <1>1 DEF LockedArePresent, publishVars, DigestsOf
<1> QED
  BY <1>1, <1>2, <1>3, <1>4, <1>5 DEF GcInv, StateShape,
     ResolvedArePresent, RunsInv, RunLocksPresent

LEMMA BeginSweepStep ==
  ASSUME GcInv, NEW clone \in DOMAIN main, BeginSweep(clone)
  PROVE  GcInv'
<1> USE GcInvParts
<1>1. /\ UNCHANGED <<publishVars, releases>>
      /\ swept' = [sweeps |-> swept.sweeps + 1, raced |-> swept.raced \/ Active # {},
                   stale |-> swept.stale \/ clone < Len(main)]
      /\ sweep' = [NoSweep EXCEPT !.phase = "list",
                      !.referenced = EnumerateReferencedDigests(clone),
                      !.packages = {CanonicalRefFromBundleKey(made[d].key)[1] :
                                    d \in registry.present}]
  BY DEF BeginSweep
<1>2. MainShape'
  BY MainShapeStep DEF Next
<1>3. RunsInv' /\ (RunLocksPresent => RunLocksPresent')
  BY <1>1 DEF RunsInv, RunLocksPresent, publishVars, DigestsOf
<1>4. swept' \in [sweeps : Nat, raced : BOOLEAN, stale : BOOLEAN]
  BY <1>1
<1>5. /\ HasFields(sweep', {"phase", "referenced", "packages", "candidates"})
      /\ sweep'.phase = "list" /\ sweep'.candidates = {}
      /\ sweep'.referenced = EnumerateReferencedDigests(clone)
  BY <1>1 DEF NoSweep, HasFields
<1>6. ~swept'.stale => clone = Len(main) /\ ~swept.stale
  <2>1. DOMAIN main = 1..Len(main) /\ Len(main) \in Nat
    BY MainHead
  <2>2. swept'.stale = (swept.stale \/ clone < Len(main)) /\ swept.stale \in BOOLEAN
    BY <1>1
  <2>3. clone \in 1..Len(main)
    BY <2>1
  <2>4. ~(clone < Len(main)) => clone = Len(main)
    BY <2>1, <2>3
  <2> QED
    BY <2>2, <2>4
<1>7. ~swept'.stale =>
         \A c \in releases \union {Len(main)} :
            ~main[c].v1 => DigestsOf(main[c].lock) \subseteq sweep'.referenced
  <2> SUFFICES ASSUME ~swept'.stale, NEW c \in releases \union {Len(main)}, ~main[c].v1
               PROVE  DigestsOf(main[c].lock) \subseteq sweep'.referenced
    OBVIOUS
  <2>1. c <= clone /\ clone = Len(main)
    BY <1>6, MainHead DEF MainShape
  <2>2. ExtractDigestsAt(c) = DigestsOf(main[c].lock)
    BY DEF ExtractDigestsAt
  <2> QED
    BY <1>5, <2>1, <2>2 DEF EnumerateReferencedDigests
<1>8. SweepIsAlone'
  <2>1. ~swept'.raced => Active' = {}
    BY <1>1 DEF Active, publishVars
  <2>2. \A c \in releases' \union {Len(main')} :
           ~swept'.stale /\ ~main'[c].v1 => DigestsOf(main'[c].lock) \subseteq sweep'.referenced
    BY <1>1, <1>7 DEF publishVars, DigestsOf
  <2> QED
    BY <1>5, <2>1, <2>2 DEF SweepIsAlone, DigestsOf, Active
<1>9. LockedArePresent'
  <2>1. (~swept'.raced => ~swept.raced) /\ (~swept'.stale => ~swept.stale)
    BY <1>1
  <2> QED
    BY <1>1, <2>1 DEF LockedArePresent, publishVars, DigestsOf
<1>10. ~swept'.raced => ~swept.raced
  BY <1>1
<1> QED
  BY <1>1, <1>2, <1>3, <1>4, <1>5, <1>8, <1>9, <1>10 DEF GcInv, StateShape,
     ResolvedArePresent, RunsInv, RunLocksPresent

\* Listing a package and ending a sweep delete nothing; a candidate was not named.
LEMMA ListStep ==
  ASSUME GcInv, (\E p \in sweep.packages : ListPackageVersions(p)) \/ EndSweep
  PROVE  GcInv'
<1> USE GcInvParts
<1>1. UNCHANGED <<main, registry, run, releases, swept>>
  BY DEF ListPackageVersions, EndSweep, publishVars
<1>2. MainShape'
  BY MainShapeStep DEF Next, Sweep
<1>3. RunsInv' /\ (RunLocksPresent => RunLocksPresent') /\ LockedArePresent'
  BY <1>1 DEF RunsInv, RunLocksPresent, LockedArePresent, DigestsOf
<1>4. CASE EndSweep
  <2>1. /\ HasFields(sweep', {"phase", "referenced", "packages", "candidates"})
        /\ sweep'.phase = "idle" /\ sweep'.candidates = {}
    BY <1>4 DEF EndSweep, NoSweep, HasFields
  <2>2. SweepIsAlone'
    BY <2>1 DEF SweepIsAlone
  <2> QED
    BY <1>1, <1>2, <1>3, <2>1, <2>2 DEF GcInv, StateShape, ResolvedArePresent, RunsInv,
       RunLocksPresent
<1>5. ASSUME NEW p \in sweep.packages, ListPackageVersions(p) PROVE GcInv'
  <2>1. /\ HasFields(sweep', {"phase", "referenced", "packages", "candidates"})
        /\ sweep.phase = "list" /\ sweep'.phase = sweep.phase
        /\ sweep'.referenced = sweep.referenced
        /\ sweep'.candidates = Candidates(p) \/ sweep'.candidates = sweep.candidates
    BY <1>5 DEF ListPackageVersions, HasFields
  <2>2. Candidates(p) \intersect sweep.referenced = {}
    BY DEF Candidates
  <2>3. SweepIsAlone'
    BY <1>1, <2>1, <2>2 DEF SweepIsAlone, DigestsOf, Active
  <2> QED
    BY <1>1, <1>2, <1>3, <2>1, <2>3 DEF GcInv, StateShape, ResolvedArePresent, RunsInv,
       RunLocksPresent
<1> QED
  BY <1>4, <1>5

\* A deletion takes what neither the head nor a release names, and no run is there.
LEMMA DeleteStep ==
  ASSUME GcInv, NEW d \in sweep.candidates, DeletePackageVersion(d)
  PROVE  GcInv'
<1> USE GcInvParts
<1>1. /\ UNCHANGED <<main, run, releases, swept>>
      /\ sweep' = [sweep EXCEPT !.candidates = @ \ {d}]
      /\ sweep.phase # "idle" /\ d \notin sweep.referenced
  BY DEF DeletePackageVersion, SweepIsAlone
<1>2. MainShape'
  BY MainShapeStep DEF Next, Sweep
<1>3. /\ HasFields(sweep', {"phase", "referenced", "packages", "candidates"})
      /\ sweep'.phase = sweep.phase /\ sweep'.referenced = sweep.referenced
      /\ sweep'.candidates = sweep.candidates \ {d}
  BY <1>1 DEF HasFields
<1>4. SweepIsAlone'
  BY <1>1, <1>3 DEF SweepIsAlone, DigestsOf, Active
<1>5. /\ HasFields(registry', {"tags", "present", "old"})
      /\ registry.present \ {d} \subseteq registry'.present
      /\ \A t \in DOMAIN registry'.tags : registry'.tags[t] \in registry'.present
  <2>1. CASE UNCHANGED registry
    BY <2>1 DEF RunsInv
  <2>2. CASE registry' = [tags |-> [t \in {u \in DOMAIN registry.tags : registry.tags[u] # d}
                                      |-> registry.tags[t]],
                          present |-> registry.present \ {d}, old |-> registry.old \ {d}]
    BY <2>2 DEF RunsInv, HasFields
  <2> QED
    BY <2>1, <2>2 DEF DeletePackageVersion
<1>6. RunsInv'
  BY <1>1, <1>5 DEF RunsInv
<1>7. ~swept'.raced => RunLocksPresent'
  <2> SUFFICES ASSUME ~swept.raced, NEW r \in Runs
               PROVE  DigestsOf(run'[r].lock) \subseteq registry'.present
    BY <1>1 DEF RunLocksPresent
  <2>1. run[r].phase \in Over
    BY <1>1 DEF SweepIsAlone, Active
  <2>2. run'[r].lock = <<>>
    BY <1>1, <2>1 DEF RunsInv
  <2> QED
    BY <2>2, NoLockNoDigests
<1>8. LockedArePresent'
  BY <1>1, <1>5 DEF LockedArePresent, SweepIsAlone, DigestsOf
<1> QED
  BY <1>1, <1>2, <1>3, <1>4, <1>6, <1>7, <1>8 DEF GcInv, StateShape, ResolvedArePresent,
     RunsInv, RunLocksPresent

LEMMA TimeStep ==
  ASSUME GcInv, TimePasses
  PROVE  GcInv'
<1> USE GcInvParts
<1>1. /\ UNCHANGED <<main, run, releases, sweep, swept>>
      /\ registry' = [registry EXCEPT !.old = registry.present]
  BY DEF TimePasses, gcVars
<1>2. MainShape'
  BY MainShapeStep DEF Next
<1>3. /\ HasFields(registry', {"tags", "present", "old"})
      /\ registry'.tags = registry.tags /\ registry'.present = registry.present
  BY <1>1 DEF RunsInv, HasFields
<1>4. RunsInv' /\ (RunLocksPresent => RunLocksPresent')
  BY <1>1, <1>3 DEF RunsInv, RunLocksPresent, DigestsOf
<1>5. SweepIsAlone' /\ LockedArePresent'
  BY <1>1, <1>3 DEF SweepIsAlone, LockedArePresent, DigestsOf, Active
<1> QED
  BY <1>1, <1>2, <1>4, <1>5 DEF GcInv, StateShape, ResolvedArePresent, RunsInv,
     RunLocksPresent

LEMMA GcInvInit == GcInit => GcInv
<1> SUFFICES ASSUME GcInit PROVE GcInv
  OBVIOUS
<1> DEFINE first == [tree |-> 1, lock |-> FirstLock, v1 |-> TRUE]
<1>1. main = <<first>> /\ releases = {1}
  BY DEF GcInit, Init
<1>2. MainShape
  <2> HIDE DEF first
  <2>1. <<first>> \in Seq({first}) /\ <<first>> # <<>> /\ DOMAIN <<first>> = {1}
        /\ <<first>>[1] = first
    OBVIOUS
  <2>2. HasFields(first, {"tree", "lock", "v1"})
    BY DEF first, HasFields
  <2> QED
    BY <1>1, <2>1, <2>2 DEF MainShape
<1>3. run = [r \in Runs |-> Waiting] /\ swept = [sweeps |-> 0, raced |-> FALSE, stale |-> FALSE]
  BY DEF GcInit, Init
<1>4. \A r \in Runs : /\ HasFields(run[r], RunFields) /\ run[r].lock = <<>>
                      /\ run[r].phase = "waiting"
  BY <1>3 DEF Waiting, HasFields, RunFields
<1>5. /\ HasFields(registry, {"tags", "present", "old"})
      /\ \A t \in DOMAIN registry.tags : registry.tags[t] \in registry.present
  <2> DEFINE tags == {TagOf(c) : c \in Elements(FirstCells)}
  <2>1. registry = [tags |-> [t \in tags |->
                                CHOOSE i \in DOMAIN FirstCells : TagOf(FirstCells[i]) = t],
                    present |-> DOMAIN FirstCells, old |-> DOMAIN FirstCells]
    BY DEF GcInit, Init
  <2>2. \A t \in tags : \E i \in DOMAIN FirstCells : TagOf(FirstCells[i]) = t
    BY DEF Elements
  <2>3. \A t \in tags :
           (CHOOSE i \in DOMAIN FirstCells : TagOf(FirstCells[i]) = t) \in DOMAIN FirstCells
    BY <2>2
  <2> HIDE DEF tags
  <2> QED
    BY <2>1, <2>3 DEF HasFields
<1>6. /\ HasFields(sweep, {"phase", "referenced", "packages", "candidates"})
      /\ sweep.phase = "idle" /\ sweep.candidates = {}
  BY DEF GcInit, NoSweep, HasFields
<1>7. SweepIsAlone
  BY <1>6 DEF SweepIsAlone
<1>8. LockedArePresent
  BY <1>1 DEF LockedArePresent
<1>9. RunLocksPresent
  BY <1>4, NoLockNoDigests DEF RunLocksPresent
<1> QED
  BY <1>2, <1>3, <1>4, <1>5, <1>6, <1>7, <1>8, <1>9
     DEF GcInv, StateShape, ResolvedArePresent, RunLocksPresent

LEMMA GcInvStep == GcInv /\ [Next]_vars => GcInv'
<1> SUFFICES ASSUME GcInv, [Next]_vars PROVE GcInv'
  OBVIOUS
<1>1. CASE UNCHANGED vars
  <2>1. UNCHANGED <<main, registry, run, releases, sweep, swept>>
    BY <1>1 DEF vars, publishVars, gcVars
  <2>2. MainShape'
    BY <2>1 DEF GcInv, MainShape, HasFields
  <2>3. StateShape'
    BY <2>1 DEF GcInv, StateShape, HasFields
  <2>4. ResolvedArePresent' /\ LockedArePresent'
    BY <2>1 DEF GcInv, ResolvedArePresent, LockedArePresent, DigestsOf
  <2>5. SweepIsAlone'
    BY <2>1 DEF GcInv, SweepIsAlone, DigestsOf, Active
  <2> QED
    BY <2>2, <2>3, <2>4, <2>5 DEF GcInv
<1>2. CASE Next
  BY <1>2, PublishesStep, ReleaseStep, BeginSweepStep, ListStep, DeleteStep, TimeStep
     DEF Next, Sweep
<1> QED
  BY <1>1, <1>2

\* Whatever the head of main or a release names is in the registry, as long as
\* sweeps keep clear of runs and read a fresh clone and the lockfile is of the
\* current schema (EnumerateReferencedDigests, Candidates).
THEOREM SweepsSpareTheLocked == Spec => []LockedArePresent
<1>1. GcInv => LockedArePresent
  BY DEF GcInv
<1> QED
  BY <1>1, GcInvInit, GcInvStep, PTL DEF Spec

-----------------------------------------------------------------------------
(* What each step of a run does to it. *)

Others(r) == \A q \in Runs \ {r} : run'[q] = run[q]

LEMMA SetEffect ==
  ASSUME RunsInv, NEW r \in Runs, NEW st, Set(r, st)
  PROVE  run'[r] = st /\ Others(r)
<1>1. DOMAIN run = Runs
  BY DEF RunsInv
<1> QED
  BY <1>1 DEF Set, Others

LEMMA StartEffect ==
  ASSUME RunsInv, NEW r \in Runs, NEW base, NEW force, Start(r, base, force)
  PROVE  /\ run[r].phase = "waiting" /\ Others(r)
         /\ run'[r].phase = "pipeline" /\ run'[r].base = base
         /\ run'[r].layouts = <<>> /\ run'[r].todo = <<>> /\ run'[r].lock = <<>>
         /\ run'[r].missed = FALSE
         /\ past' = [past EXCEPT !.overlap = @ \/ Active # {}]
<1> DEFINE st == [Waiting EXCEPT !.phase = "pipeline", !.base = base, !.force = force]
<1>1. /\ st.phase = "pipeline" /\ st.base = base /\ st.layouts = <<>> /\ st.todo = <<>>
      /\ st.lock = <<>> /\ st.missed = FALSE
  BY DEF Waiting
<1>2. Set(r, st)
  BY DEF Start
<1> HIDE DEF st
<1>3. run'[r] = st /\ Others(r)
  BY <1>2, SetEffect
<1> QED
  BY <1>1, <1>3 DEF Start

\* What a job builds, and the layout it leaves.
TreeOfRun(r) == main[run[r].base].tree

NeededFor(r, j) ==
    LET t     == TreeOfRun(r)
        items == ItemsOfJob(j, t)
    IN  {i \in DOMAIN items :
            \/ run[r].force
            \/ LookupBySpec(Restored(j, t), ImageName(items[i]),
                            ComputeSpecHash(items[i], Trees[t])) = NoDigest}

BuiltFor(r, j) == At(ItemsOfJob(j, TreeOfRun(r)), NeededFor(r, j))

ImagesFor(r, j) ==
    [i \in DOMAIN BuiltFor(r, j) |-> Image(BuiltFor(r, j)[i], TreeOfRun(r), Len(made) + i)]

AfterJob(r, j) == Restored(j, TreeOfRun(r)) \o ImagesFor(r, j)

LEMMA BuildLayoutEffect ==
  ASSUME RunsInv, NEW r \in Runs, NEW j \in DOMAIN Jobs, BuildLayout(r, j)
  PROVE  /\ run[r].phase = "pipeline" /\ j = Len(run[r].layouts) + 1 /\ Others(r)
         /\ made' = made \o [i \in DOMAIN BuiltFor(r, j) |->
                               Bundle(BuiltFor(r, j)[i], TreeOfRun(r), RunnerOS[Jobs[j].os])]
         /\ caches' = [caches EXCEPT ![j] = Saved(j, TreeOfRun(r), AfterJob(r, j))]
         /\ run'[r].phase = IF j = Len(Jobs) THEN "promote" ELSE "pipeline"
         /\ run'[r].todo = run[r].todo \o ListKeyed(AfterJob(r, j))
         /\ run'[r].layouts = Append(run[r].layouts, AfterJob(r, j))
         /\ run'[r].base = run[r].base /\ run'[r].lock = run[r].lock
         /\ run'[r].missed = run[r].missed
         /\ UNCHANGED <<main, registry, past>>
<1> DEFINE after == AfterJob(r, j)
           st == [run[r] EXCEPT !.layouts = Append(@, after),
                    !.phase = IF j = Len(Jobs) THEN "promote" ELSE @,
                    !.todo = @ \o ListKeyed(after)]
<1>1. /\ run[r].phase = "pipeline" /\ j = Len(run[r].layouts) + 1
      /\ made' = made \o [i \in DOMAIN BuiltFor(r, j) |->
                            Bundle(BuiltFor(r, j)[i], TreeOfRun(r), RunnerOS[Jobs[j].os])]
      /\ caches' = [caches EXCEPT ![j] = Saved(j, TreeOfRun(r), after)]
      /\ Set(r, st)
      /\ UNCHANGED <<main, registry, past>>
  BY DEF BuildLayout, TreeOfRun, NeededFor, BuiltFor, ImagesFor, AfterJob
<1>2. IsRun(run[r])
  BY RunsAreRuns
<1> HIDE DEF after
<1>3. /\ st.phase = (IF j = Len(Jobs) THEN "promote" ELSE "pipeline")
      /\ st.todo = run[r].todo \o ListKeyed(after)
      /\ st.layouts = Append(run[r].layouts, after)
      /\ st.base = run[r].base /\ st.lock = run[r].lock /\ st.missed = run[r].missed
  BY <1>1, <1>2 DEF IsRun, HasFields, RunFields
<1> HIDE DEF st
<1>4. run'[r] = st /\ Others(r)
  BY <1>1, SetEffect
<1> QED
  BY <1>1, <1>3, <1>4 DEF after

LEMMA PromoteOneEffect ==
  ASSUME RunsInv, NEW r \in Runs, PromoteOne(r)
  PROVE  LET m == run[r].todo[1]
             tag == CanonicalRefFromBundleKey(m.key)
         IN  /\ run[r].phase = "promote" /\ Others(r)
             /\ registry'.tags = [t \in DOMAIN registry.tags \union {tag} |->
                                    IF t = tag THEN m.digest ELSE registry.tags[t]]
             /\ registry'.present = registry.present \union {m.digest}
             /\ registry'.old = registry.old
             /\ IF Len(run[r].todo) > 1
                THEN run'[r].phase = "promote" /\ run'[r].todo = Tail(run[r].todo)
                ELSE /\ run'[r].phase = "resolve"
                     /\ run'[r].todo = InOrder(AllCells(TreeAt(run[r].base).catalog))
             /\ run'[r].base = run[r].base /\ run'[r].lock = run[r].lock
             /\ run'[r].missed = run[r].missed
             /\ UNCHANGED <<main, made, caches, past>>
<1> DEFINE m == run[r].todo[1]
           tag == CanonicalRefFromBundleKey(m.key)
           cells == InOrder(AllCells(TreeAt(run[r].base).catalog))
           st == IF Len(run[r].todo) > 1 THEN [run[r] EXCEPT !.todo = Tail(@)]
                 ELSE [run[r] EXCEPT !.phase = "resolve", !.layouts = <<>>, !.todo = cells]
<1>1. /\ run[r].phase = "promote"
      /\ registry' = [registry EXCEPT
            !.tags = [t \in DOMAIN @ \union {tag} |-> IF t = tag THEN m.digest ELSE @[t]],
            !.present = @ \union {m.digest}]
      /\ Set(r, st)
      /\ UNCHANGED <<main, made, caches, past>>
  BY DEF PromoteOne
<1>2. IsRun(run[r]) /\ HasFields(registry, {"tags", "present", "old"})
  BY RunsAreRuns DEF RunsInv
<1> HIDE DEF m, tag, cells
<1>3. /\ registry'.tags = [t \in DOMAIN registry.tags \union {tag} |->
                             IF t = tag THEN m.digest ELSE registry.tags[t]]
      /\ registry'.present = registry.present \union {m.digest}
      /\ registry'.old = registry.old
  BY <1>1, <1>2 DEF HasFields
<1>4. /\ IF Len(run[r].todo) > 1
         THEN st.phase = "promote" /\ st.todo = Tail(run[r].todo)
         ELSE st.phase = "resolve" /\ st.todo = cells
      /\ st.base = run[r].base /\ st.lock = run[r].lock /\ st.missed = run[r].missed
  BY <1>1, <1>2 DEF IsRun, HasFields, RunFields
<1> HIDE DEF st
<1>5. run'[r] = st /\ Others(r)
  BY <1>1, SetEffect
<1> QED
  BY <1>1, <1>3, <1>4, <1>5 DEF m, tag, cells

LEMMA ResolveDigestEffect ==
  ASSUME RunsInv, NEW r \in Runs, ResolveDigest(r)
  PROVE  LET cell == run[r].todo[1]
             key == BundleKey(cell)
             found == TagOf(cell) \in DOMAIN registry.tags
         IN  /\ run[r].phase = "resolve" /\ Others(r)
             /\ run'[r].phase = IF Len(run[r].todo) = 1 THEN "commit" ELSE "resolve"
             /\ run'[r].todo = Tail(run[r].todo) /\ run'[r].base = run[r].base
             /\ \/ /\ found /\ run'[r].missed = run[r].missed
                   /\ DOMAIN run'[r].lock = DOMAIN run[r].lock \union {key}
                   /\ run'[r].lock[key].digest = registry.tags[TagOf(cell)]
                   /\ \A k \in DOMAIN run[r].lock \ {key} : run'[r].lock[k] = run[r].lock[k]
                   /\ past' = past
                \/ /\ run'[r].lock = run[r].lock /\ run'[r].missed = (run[r].missed \/ found)
                   /\ \/ past' = past
                      \/ /\ past.faults + past.evicted < MaxMishaps
                         /\ past' = [past EXCEPT !.faults = @ + 1]
             /\ UNCHANGED <<main, made, registry, caches>>
<1> DEFINE cell == run[r].todo[1]
           key == BundleKey(cell)
           found == TagOf(cell) \in DOMAIN registry.tags
           digest == registry.tags[TagOf(cell)]
           spec == <<LockSpecHash(cell, TreeAt(run[r].base))>>
           entry == [k \in {key} |-> [digest |-> digest, spec |-> spec]]
           next  == [run[r] EXCEPT !.todo = Tail(@),
                       !.phase = IF Len(run[r].todo) = 1 THEN "commit" ELSE @]
           grown == [k \in DOMAIN run[r].lock \union DOMAIN entry |->
                       IF k \in DOMAIN entry THEN entry[k] ELSE run[r].lock[k]]
<1>1. IsRun(run[r]) /\ run[r].phase = "resolve"
  BY RunsAreRuns DEF ResolveDigest
<1>2. /\ HasFields(next, RunFields)
      /\ next.phase = (IF Len(run[r].todo) = 1 THEN "commit" ELSE "resolve")
      /\ next.todo = Tail(run[r].todo) /\ next.base = run[r].base
      /\ next.lock = run[r].lock /\ next.missed = run[r].missed
  BY <1>1 DEF IsRun, HasFields, RunFields
<1>3. /\ \/ /\ found
            /\ Set(r, [next EXCEPT !.lock = [k \in DOMAIN @ \union DOMAIN entry |->
                                              IF k \in DOMAIN entry THEN entry[k] ELSE @[k]]])
            /\ past' = past
         \/ /\ ~found \/ past.faults + past.evicted < MaxMishaps
            /\ Set(r, [next EXCEPT !.missed = @ \/ found])
            /\ past' = IF found THEN [past EXCEPT !.faults = @ + 1] ELSE past
      /\ UNCHANGED <<main, made, registry, caches>>
  BY DEF ResolveDigest
<1>4. /\ DOMAIN grown = DOMAIN run[r].lock \union {key} /\ grown[key].digest = digest
      /\ \A k \in DOMAIN run[r].lock \ {key} : grown[k] = run[r].lock[k]
  <2> HIDE DEF key, digest, spec
  <2> QED
    OBVIOUS
<1> HIDE DEF next, key, digest, spec, found
<1>5. ASSUME found, past' = past,
             Set(r, [next EXCEPT !.lock = [k \in DOMAIN @ \union DOMAIN entry |->
                                             IF k \in DOMAIN entry THEN entry[k] ELSE @[k]]])
      PROVE  /\ Others(r) /\ run'[r].phase = next.phase /\ run'[r].todo = next.todo
             /\ run'[r].base = next.base /\ run'[r].lock = grown
             /\ run'[r].missed = next.missed
  <2> DEFINE st == [next EXCEPT !.lock = grown]
  <2>1. Set(r, st)
    <3> HIDE DEF entry
    <3> QED
      BY <1>2, <1>5 DEF HasFields, RunFields
  <2>2. /\ st.phase = next.phase /\ st.todo = next.todo /\ st.base = next.base
        /\ st.lock = grown /\ st.missed = next.missed
    <3> HIDE DEF grown
    <3> QED
      BY <1>2 DEF HasFields, RunFields
  <2> HIDE DEF st, grown
  <2>3. run'[r] = st /\ Others(r)
    BY <2>1, SetEffect
  <2> QED
    BY <2>2, <2>3
<1>6. ASSUME Set(r, [next EXCEPT !.missed = @ \/ found])
      PROVE  /\ Others(r) /\ run'[r].phase = next.phase /\ run'[r].todo = next.todo
             /\ run'[r].base = next.base /\ run'[r].lock = next.lock
             /\ run'[r].missed = (next.missed \/ found)
  <2> DEFINE st == [next EXCEPT !.missed = @ \/ found]
  <2>1. /\ st.phase = next.phase /\ st.todo = next.todo /\ st.base = next.base
        /\ st.lock = next.lock /\ st.missed = (next.missed \/ found)
    BY <1>2 DEF HasFields, RunFields
  <2> HIDE DEF st
  <2>2. run'[r] = st /\ Others(r)
    BY <1>6, SetEffect DEF st
  <2> QED
    BY <2>1, <2>2
<1> HIDE DEF grown, entry
<1>7. CASE /\ found /\ past' = past
           /\ Set(r, [next EXCEPT !.lock = [k \in DOMAIN @ \union DOMAIN entry |->
                                             IF k \in DOMAIN entry THEN entry[k] ELSE @[k]]])
  BY <1>1, <1>2, <1>3, <1>4, <1>5, <1>7 DEF found, key, digest
<1>8. CASE /\ ~found \/ past.faults + past.evicted < MaxMishaps
           /\ Set(r, [next EXCEPT !.missed = @ \/ found])
           /\ past' = IF found THEN [past EXCEPT !.faults = @ + 1] ELSE past
  BY <1>1, <1>2, <1>3, <1>6, <1>8 DEF found, key, digest
<1> QED
  BY <1>3, <1>7, <1>8

LEMMA EndsEffect ==
  ASSUME RunsInv, NEW r \in Runs, CommitLockfile(r) \/ Fail(r)
  PROVE  /\ Others(r) /\ run[r].phase \notin Over
         /\ run'[r].phase \in {"done", "failed"} /\ run'[r].base = 0 /\ run'[r].lock = <<>>
         /\ run'[r].todo = <<>>
         /\ UNCHANGED <<made, registry, caches>>
         /\ \/ past' = past
            \/ /\ past.faults + past.evicted < MaxMishaps
               /\ past' = [past EXCEPT !.faults = @ + 1]
<1>1. PICK phase \in {"done", "failed"} : Set(r, [Waiting EXCEPT !.phase = phase])
  BY DEF CommitLockfile, Fail
<1> DEFINE st == [Waiting EXCEPT !.phase = phase]
<1>2. st.phase = phase /\ st.base = 0 /\ st.lock = <<>> /\ st.todo = <<>>
  BY DEF Waiting
<1> HIDE DEF st
<1>3. run'[r] = st /\ Others(r)
  BY <1>1, SetEffect DEF st
<1>4. run[r].phase \notin Over
  BY DEF CommitLockfile, Fail, Active, Over
<1> QED
  BY <1>1, <1>2, <1>3, <1>4 DEF CommitLockfile, Fail

-----------------------------------------------------------------------------
(* Types. *)

\* A manifest that a job pushed for an item of the tree of a commit.
PushedAt(m, j, c) ==
    \E x \in Elements(ItemsOfJob(j, main[c].tree)) :
       /\ m.name = ImageName(x) /\ m.key = BundleKey(x)
       /\ m.spec = ComputeSpecHash(x, TreeAt(c))

\* Its digest is of a bundle that was made under its key and its spec hash.
AsMade(m) ==
    m.digest \in DOMAIN made /\ made[m.digest].key = m.key /\ made[m.digest].spec = m.spec

IsManifest(m, j) == AsMade(m) /\ \E c \in DOMAIN main : PushedAt(m, j, c)

IsLayout(L, j) ==
    /\ \E S : L \in Seq(S)
    /\ \A i \in DOMAIN L : IsManifest(L[i], j)

\* What is left to promote comes from the layouts of all jobs.
IsQueue(L) ==
    /\ \E S : L \in Seq(S)
    /\ \A i \in DOMAIN L : \E j \in DOMAIN Jobs : IsManifest(L[i], j)

CachesInv ==
    /\ DOMAIN caches = DOMAIN Jobs
    /\ \A j \in DOMAIN Jobs :
          /\ \E S : caches[j] \in Seq(S)
          /\ \A i \in DOMAIN caches[j] : IsLayout(caches[j][i].layout, j)

RunPhases == Over \union {"pipeline", "promote", "resolve", "commit"}

RunOk(r) ==
    /\ run[r].phase \in RunPhases
    /\ run[r].base \in 0..Len(main)
    /\ run[r].phase \notin Over => run[r].base \in DOMAIN main
    /\ DigestsOf(run[r].lock) \subseteq DOMAIN made
    /\ run[r].phase = "pipeline" => \E S : run[r].layouts \in Seq(S)
    /\ run[r].phase \in {"pipeline", "promote"} => IsQueue(run[r].todo)
    /\ run[r].phase = "promote" => run[r].todo # <<>> /\ Jobs # <<>>
    /\ run[r].phase = "resolve" =>
          run[r].todo # <<>> /\ run[r].todo \in Seq(AllCells(TreeAt(run[r].base).catalog))
    /\ run[r].phase = "commit" => run[r].todo = <<>>

TypeInv ==
    /\ \E S : made \in Seq(S)
    /\ \A c \in DOMAIN main : /\ main[c].tree \in DOMAIN Trees
                              /\ DigestsOf(main[c].lock) \subseteq DOMAIN made
    /\ registry.old \subseteq registry.present
    /\ registry.present \subseteq DOMAIN made
    /\ sweep.candidates \subseteq DOMAIN made
    /\ past \in Past
    /\ CachesInv
    /\ \A r \in Runs : RunOk(r)

\* Commits and bundles stay as they are.
Grown ==
    /\ \A c \in DOMAIN main : c \in DOMAIN main' /\ main'[c] = main[c]
    /\ \A d \in DOMAIN made : d \in DOMAIN made' /\ made'[d] = made[d]

LEMMA ManifestKept ==
  ASSUME Grown, NEW m, NEW j, IsManifest(m, j)
  PROVE  IsManifest(m, j)'
<1>1. m.digest \in DOMAIN made' /\ made'[m.digest].key = m.key /\ made'[m.digest].spec = m.spec
  BY DEF Grown, IsManifest, AsMade
<1>2. PICK c \in DOMAIN main : PushedAt(m, j, c)
  BY DEF IsManifest
<1>3. c \in DOMAIN main' /\ main'[c] = main[c]
  BY DEF Grown
<1>4. \E x \in Elements(ItemsOfJob(j, main'[c].tree)) :
         /\ m.name = ImageName(x) /\ m.key = BundleKey(x)
         /\ m.spec = ComputeSpecHash(x, Trees[main'[c].tree])
  BY <1>2, <1>3 DEF PushedAt, TreeAt
<1>5. PushedAt(m, j, c)'
  BY <1>4 DEF PushedAt, TreeAt
<1> QED
  BY <1>1, <1>3, <1>5 DEF IsManifest, AsMade

LEMMA LayoutKept ==
  ASSUME Grown, NEW L, NEW j
  PROVE  /\ IsLayout(L, j) => IsLayout(L, j)'
         /\ IsQueue(L) => IsQueue(L)'
<1>1. \A m, i : IsManifest(m, i) => IsManifest(m, i)'
  BY ManifestKept
<1> QED
  BY <1>1 DEF IsLayout, IsQueue

\* What a job builds of a tree.
LEMMA JobItems ==
  ASSUME NEW t \in DOMAIN Trees, NEW j \in DOMAIN Jobs
  PROVE  /\ IsCatalog(Trees[t].catalog) /\ Jobs[j].core \in ExpandPHPMatrix(Trees[t].catalog)
         /\ ItemsOfJob(j, t) \in Seq(AllCells(Trees[t].catalog))
         /\ ItemsOfJob(j, t) # <<>>
         /\ Elements(ItemsOfJob(j, t)) \subseteq AllCells(Trees[t].catalog)
<1>1. IsCatalog(Trees[t].catalog) /\ Jobs[j].core \in ExpandPHPMatrix(Trees[t].catalog)
  BY PublishAssumption
<1> DEFINE items == ItemsOfJob(j, t)
<1>2. items \in Seq(AllCells(Trees[t].catalog)) /\ items # <<>>
  BY <1>1, ItemsOfCatalog DEF ItemsOfJob
<1> HIDE DEF items
<1>3. Elements(items) \subseteq AllCells(Trees[t].catalog)
  BY <1>2 DEF Elements
<1> QED
  BY <1>1, <1>2, <1>3 DEF items

\* What a job restores is a layout of the job: of the exact key if one is saved.
LEMMA RestoredIsSaved ==
  ASSUME CachesInv, NEW j \in DOMAIN Jobs, NEW t
  PROVE  /\ \/ \E i \in DOMAIN caches[j] : Restored(j, t) = caches[j][i].layout
            \/ Restored(j, t) = <<>> /\ caches[j] = <<>>
         /\ (\E i \in DOMAIN caches[j] : caches[j][i].tree = t) =>
               \E i \in DOMAIN caches[j] :
                  caches[j][i].tree = t /\ Restored(j, t) = caches[j][i].layout
<1> DEFINE saved == {i \in DOMAIN caches[j] : caches[j][i].tree = t}
<1>1. PICK S : caches[j] \in Seq(S)
  BY DEF CachesInv
<1>2. CASE saved # {}
  <2>1. saved \in SUBSET Nat
    BY <1>1
  <2> HIDE DEF saved
  <2>2. FirstOf(saved) \in saved
    <3>1. \E i \in saved : \A k \in saved : i <= k
      BY <1>2, <2>1, SmallestIndex
    <3> QED
      BY <3>1 DEF FirstOf
  <2> USE DEF saved
  <2>3. Restored(j, t) = caches[j][FirstOf(saved)].layout
    BY <1>2 DEF Restored
  <2> HIDE DEF saved
  <2> QED
    BY <2>2, <2>3 DEF saved
<1>3. CASE saved = {}
  <2>1. ~(\E i \in DOMAIN caches[j] : caches[j][i].tree = t)
    BY <1>3
  <2>2. CASE caches[j] # <<>>
    <3>1. Len(caches[j]) \in DOMAIN caches[j]
      BY <1>1, <2>2
    <3>2. Restored(j, t) = caches[j][Len(caches[j])].layout
      BY <1>3, <2>2 DEF Restored
    <3> QED
      BY <2>1, <3>1, <3>2
  <2>3. CASE caches[j] = <<>>
    <3>1. Restored(j, t) = <<>>
      BY <1>3, <2>3 DEF Restored
    <3> QED
      BY <2>1, <2>3, <3>1
  <2> QED
    BY <2>2, <2>3
<1> QED
  BY <1>2, <1>3

LEMMA EmptyLayout ==
  /\ DOMAIN <<>> = {}
  /\ \A name, spec : LookupBySpec(<<>>, name, spec) = NoDigest
  /\ \A j : IsLayout(<<>>, j)
<1>1. DOMAIN <<>> = {}
  OBVIOUS
<1>2. \A name, spec : LookupBySpec(<<>>, name, spec) = NoDigest
  BY <1>1 DEF LookupBySpec
<1>3. \A j : IsLayout(<<>>, j)
  <2>1. <<>> \in Seq({})
    OBVIOUS
  <2> QED
    BY <1>1, <2>1 DEF IsLayout
<1> QED
  BY <1>1, <1>2, <1>3

LEMMA RestoredIsLayout ==
  ASSUME CachesInv, NEW j \in DOMAIN Jobs, NEW t
  PROVE  IsLayout(Restored(j, t), j)
  BY RestoredIsSaved, EmptyLayout DEF CachesInv

\* A run's base is a commit of a tree, and what it builds are items of that tree.
LEMMA RunTree ==
  ASSUME TypeInv, NEW r \in Runs, run[r].phase \notin Over
  PROVE  /\ run[r].base \in DOMAIN main /\ TreeOfRun(r) \in DOMAIN Trees
         /\ TreeAt(run[r].base) = Trees[TreeOfRun(r)]
  BY DEF TypeInv, RunOk, TreeOfRun, TreeAt

LEMMA BuiltAreItems ==
  ASSUME TypeInv, NEW r \in Runs, run[r].phase \notin Over, NEW j \in DOMAIN Jobs
  PROVE  /\ BuiltFor(r, j) \in Seq(Elements(ItemsOfJob(j, TreeOfRun(r))))
         /\ Elements(BuiltFor(r, j)) =
               {ItemsOfJob(j, TreeOfRun(r))[i] : i \in NeededFor(r, j)}
<1> DEFINE items == ItemsOfJob(j, TreeOfRun(r))
           S == NeededFor(r, j)
<1>1. TreeOfRun(r) \in DOMAIN Trees
  BY RunTree
<1>2. items \in Seq(AllCells(Trees[TreeOfRun(r)].catalog))
  BY <1>1, JobItems
<1>3. S \in SUBSET DOMAIN items
  BY DEF NeededFor
<1> HIDE DEF items, S
<1>4. At(items, S) \in Seq({items[i] : i \in S}) /\ Elements(At(items, S)) = {items[i] : i \in S}
  <2>1. At(items, S) \in Seq({items[i] : i \in S})
    BY <1>2, <1>3, AtPlaces
  <2>2. Elements(At(items, S)) = {items[i] : i \in S}
    BY <1>2, <1>3, ElementsAt
  <2> QED
    BY <2>1, <2>2
<1>5. {items[i] : i \in S} \subseteq Elements(items)
  BY <1>3 DEF Elements
<1>6. At(items, S) \in Seq(Elements(items))
  <2> DEFINE T == {items[i] : i \in S}
  <2> HIDE DEF T
  <2>1. At(items, S) \in Seq(T) /\ T \subseteq Elements(items)
    BY <1>4, <1>5 DEF T
  <2> QED
    BY <2>1
<1> QED
  BY <1>4, <1>6 DEF items, S, BuiltFor

\* What a job makes, and the manifests it adds for it.
LEMMA JobMakes ==
  ASSUME TypeInv, RunsInv, NEW r \in Runs, NEW j \in DOMAIN Jobs, BuildLayout(r, j)
  PROVE  /\ Grown /\ \E S : made' \in Seq(S)
         /\ \A i \in DOMAIN BuiltFor(r, j) :
               /\ Len(made) + i \in DOMAIN made'
               /\ made'[Len(made) + i] =
                     Bundle(BuiltFor(r, j)[i], TreeOfRun(r), RunnerOS[Jobs[j].os])
         /\ \A d \in DOMAIN made' :
               d \in DOMAIN made \/ \E i \in DOMAIN BuiltFor(r, j) : d = Len(made) + i
<1> DEFINE built == BuiltFor(r, j)
           b(i) == Bundle(built[i], TreeOfRun(r), RunnerOS[Jobs[j].os])
           new == [i \in DOMAIN built |-> b(i)]
<1>1. made' = made \o new /\ main' = main
  BY BuildLayoutEffect
<1>2. PICK S : made \in Seq(S)
  BY DEF TypeInv
<1>3. PICK n \in Nat : DOMAIN built = 1..n
  <2>1. run[r].phase \notin Over
    BY DEF BuildLayout, Over
  <2>2. PICK T : built \in Seq(T)
    BY <2>1, BuiltAreItems
  <2> HIDE DEF built
  <2> QED
    BY <2>2
<1> HIDE DEF built, b
<1> DEFINE T == S \union {b(i) : i \in 1..n}
<1>4. new \in Seq(T) /\ Len(new) = n /\ \A i \in 1..n : new[i] = b(i)
  BY <1>3
<1>5. made \in Seq(T)
  BY <1>2
<1> HIDE DEF T, new
<1>6. /\ made' \in Seq(T) /\ DOMAIN made = 1..Len(made) /\ DOMAIN made' = 1..(Len(made) + n)
      /\ Len(made) \in Nat
      /\ \A d \in 1..Len(made) : made'[d] = made[d]
      /\ \A i \in 1..n : made'[Len(made) + i] = new[i]
  BY <1>1, <1>4, <1>5
<1>7. Grown
  BY <1>1, <1>6 DEF Grown
<1>8. \A i \in 1..n : Len(made) + i \in DOMAIN made' /\ made'[Len(made) + i] = b(i)
  BY <1>4, <1>6
<1>9. ASSUME NEW d \in DOMAIN made' PROVE d \in DOMAIN made \/ \E i \in 1..n : d = Len(made) + i
  <2>1. d \in 1..(Len(made) + n) /\ DOMAIN made = 1..Len(made) /\ Len(made) \in Nat
    BY <1>6, <1>9
  <2>2. CASE d > Len(made)
    <3>1. d - Len(made) \in 1..n /\ d = Len(made) + (d - Len(made))
      BY <2>1, <2>2, <1>3
    <3> QED
      BY <3>1
  <2> QED
    BY <2>1, <2>2
<1> QED
  BY <1>3, <1>6, <1>7, <1>8, <1>9 DEF built, b

LEMMA ImagesAreOf ==
  ASSUME TypeInv, NEW r \in Runs, run[r].phase \notin Over, NEW j \in DOMAIN Jobs
  PROVE  /\ \E S : ImagesFor(r, j) \in Seq(S)
         /\ DOMAIN ImagesFor(r, j) = DOMAIN BuiltFor(r, j)
         /\ \A i \in DOMAIN BuiltFor(r, j) :
               /\ BuiltFor(r, j)[i] \in Elements(ItemsOfJob(j, TreeOfRun(r)))
               /\ ImagesFor(r, j)[i] = Image(BuiltFor(r, j)[i], TreeOfRun(r), Len(made) + i)
<1> DEFINE built == BuiltFor(r, j)
           image(i) == Image(built[i], TreeOfRun(r), Len(made) + i)
           images == [i \in DOMAIN built |-> image(i)]
<1>1. built \in Seq(Elements(ItemsOfJob(j, TreeOfRun(r))))
  BY BuiltAreItems
<1>2. ImagesFor(r, j) = images
  BY DEF ImagesFor
<1> HIDE DEF built, image
<1>3. PICK n \in Nat : DOMAIN built = 1..n
  BY <1>1
<1>4. images \in Seq({image(i) : i \in 1..n})
  BY <1>3
<1>5. \A i \in DOMAIN built : built[i] \in Elements(ItemsOfJob(j, TreeOfRun(r)))
  BY <1>1
<1> HIDE DEF images
<1>6. \E S : ImagesFor(r, j) \in Seq(S)
  BY <1>2, <1>4
<1> QED
  BY <1>2, <1>5, <1>6 DEF images, built, image

\* The layout a job leaves: what it restored, then what it built.
LEMMA AfterJobIs ==
  ASSUME TypeInv, NEW r \in Runs, run[r].phase \notin Over, NEW j \in DOMAIN Jobs
  PROVE  LET old == Restored(j, TreeOfRun(r))
             new == ImagesFor(r, j)
             L == AfterJob(r, j)
         IN  /\ \E S : L \in Seq(S)
             /\ Len(old) \in Nat /\ DOMAIN old = 1..Len(old)
             /\ Len(new) \in Nat /\ DOMAIN new = 1..Len(new)
             /\ DOMAIN L = 1..(Len(old) + Len(new))
             /\ \A i \in DOMAIN old : L[i] = old[i]
             /\ \A i \in DOMAIN new : L[Len(old) + i] = new[i]
             /\ \A i \in DOMAIN L : i \in DOMAIN old \/ i - Len(old) \in DOMAIN new
<1> DEFINE old == Restored(j, TreeOfRun(r))
           new == ImagesFor(r, j)
<1>1. IsLayout(old, j)
  BY RestoredIsLayout DEF TypeInv
<1>2. PICK S : old \in Seq(S)
  BY <1>1 DEF IsLayout
<1>3. PICK T : new \in Seq(T)
  BY ImagesAreOf
<1>4. AfterJob(r, j) = old \o new
  BY DEF AfterJob
<1> HIDE DEF old, new
<1>5. old \in Seq(S \union T) /\ new \in Seq(S \union T)
  BY <1>2, <1>3
<1>6. /\ old \o new \in Seq(S \union T)
      /\ Len(old) \in Nat /\ DOMAIN old = 1..Len(old)
      /\ Len(new) \in Nat /\ DOMAIN new = 1..Len(new)
      /\ DOMAIN (old \o new) = 1..(Len(old) + Len(new))
      /\ \A i \in 1..Len(old) : (old \o new)[i] = old[i]
      /\ \A i \in 1..Len(new) : (old \o new)[Len(old) + i] = new[i]
  BY <1>5
<1>7. \A i \in 1..(Len(old) + Len(new)) : i \in 1..Len(old) \/ i - Len(old) \in 1..Len(new)
  BY <1>6
<1> QED
  BY <1>4, <1>6, <1>7 DEF old, new

LEMMA KeysAreKeys == \A x : BundleKey(x) # NoKey
<1> SUFFICES ASSUME NEW x PROVE BundleKey(x) # NoKey
  OBVIOUS
<1>1. BundleKey(x)[1] \in {"ext", "php"} /\ 1 \in DOMAIN BundleKey(x)
  BY DEF BundleKey
<1> QED
  BY <1>1, EmptyLayout DEF NoKey

LEMMA AfterIsLayout ==
  ASSUME TypeInv, RunsInv, NEW r \in Runs, NEW j \in DOMAIN Jobs, BuildLayout(r, j),
         NEW L, L = AfterJob(r, j)
  PROVE  IsLayout(L, j)' /\ L # <<>> /\ ListKeyed(L) = L
<1> DEFINE old == Restored(j, TreeOfRun(r))
           new == ImagesFor(r, j)
           built == BuiltFor(r, j)
           t == TreeOfRun(r)
<1>0. run[r].phase \notin Over /\ main' = main
  BY BuildLayoutEffect DEF Over
<1>1. run[r].base \in DOMAIN main /\ t \in DOMAIN Trees /\ TreeAt(run[r].base) = Trees[t]
  BY <1>0, RunTree
<1>2. ASSUME NEW i \in DOMAIN old PROVE IsManifest(L[i], j)'
  <2>1. IsManifest(old[i], j)
    BY RestoredIsLayout DEF TypeInv, IsLayout
  <2>2. L[i] = old[i]
    BY <1>0, AfterJobIs
  <2> QED
    BY <2>1, <2>2, JobMakes, ManifestKept
<1>3. ASSUME NEW i \in DOMAIN new, NEW n, n = Len(old) + i PROVE IsManifest(L[n], j)'
  <2> DEFINE m == Image(built[i], t, Len(made) + i)
  <2>1. /\ L[n] = m /\ i \in DOMAIN built
        /\ built[i] \in Elements(ItemsOfJob(j, t))
    BY <1>0, <1>3, AfterJobIs, ImagesAreOf
  <2>2. /\ m.name = ImageName(built[i]) /\ m.key = BundleKey(built[i])
        /\ m.spec = ComputeSpecHash(built[i], Trees[t]) /\ m.digest = Len(made) + i
    BY DEF Image
  <2>3. m.digest \in DOMAIN made' /\ made'[m.digest].key = m.key
        /\ made'[m.digest].spec = m.spec
    <3>1. /\ Len(made) + i \in DOMAIN made'
          /\ made'[Len(made) + i] = Bundle(built[i], t, RunnerOS[Jobs[j].os])
      BY <2>1, JobMakes
    <3> QED
      BY <2>2, <3>1 DEF Bundle
  <2> HIDE DEF m, built, t
  <2>4. AsMade(L[n])'
    BY <2>1, <2>3 DEF AsMade
  <2>5. \E x \in Elements(ItemsOfJob(j, main'[run[r].base].tree)) :
            /\ L[n].name = ImageName(x) /\ L[n].key = BundleKey(x)
            /\ L[n].spec = ComputeSpecHash(x, Trees[main'[run[r].base].tree])
    BY <1>0, <2>1, <2>2 DEF t, TreeOfRun
  <2>6. \E c \in DOMAIN main' : PushedAt(L[n], j, c)'
    BY <1>0, <1>1, <2>5 DEF PushedAt, TreeAt
  <2> QED
    BY <2>4, <2>6 DEF IsManifest
<1>4. \E S : L \in Seq(S)
  BY <1>0, AfterJobIs
<1>5. \A i \in DOMAIN L : IsManifest(L[i], j)'
  <2> SUFFICES ASSUME NEW i \in DOMAIN L PROVE IsManifest(L[i], j)'
    OBVIOUS
  <2>1. i \in DOMAIN old \/ i - Len(old) \in DOMAIN new
    BY <1>0, AfterJobIs
  <2>2. i = Len(old) + (i - Len(old))
    <3>1. i \in Int /\ Len(old) \in Int
      BY <1>0, AfterJobIs
    <3> HIDE DEF old
    <3> QED
      BY <3>1
  <2> HIDE DEF old, new
  <2>3. CASE i \in DOMAIN old
    BY <1>2, <2>3
  <2>4. ASSUME NEW k \in DOMAIN new, k = i - Len(old) PROVE IsManifest(L[i], j)'
    BY <1>3, <2>2, <2>4
  <2> QED
    BY <2>1, <2>3, <2>4
<1>6. IsLayout(L, j)'
  BY <1>4, <1>5 DEF IsLayout
<1>7. L # <<>>
  <2>1. CASE old # <<>>
    <3>1. Len(old) # 0
      <4>1. IsLayout(old, j)
        BY RestoredIsLayout DEF TypeInv
      <4>2. PICK S : old \in Seq(S)
        BY <4>1 DEF IsLayout
      <4> HIDE DEF old
      <4> QED
        BY <2>1, <4>2, EmptySeq
    <3>2. DOMAIN L = 1..(Len(old) + Len(new)) /\ Len(old) \in Nat /\ Len(new) \in Nat
      BY <1>0, AfterJobIs
    <3> HIDE DEF old, new
    <3>3. 1 \in DOMAIN L
      BY <3>1, <3>2
    <3> QED
      BY <3>3, EmptyLayout
  <2>2. CASE old = <<>>
    <3> DEFINE items == ItemsOfJob(j, t)
    <3>1. items # <<>> /\ items \in Seq(AllCells(Trees[t].catalog))
      BY <1>1, JobItems
    <3>2. 1 \in DOMAIN items
      <4> HIDE DEF items
      <4> QED
        BY <3>1, EmptySeq
    <3>3. 1 \in NeededFor(r, j)
      BY <2>2, <3>2, EmptyLayout DEF NeededFor
    <3>4. items[1] \in Elements(built)
      BY <1>0, <3>3, BuiltAreItems
    <3>5. PICK i \in DOMAIN new : TRUE
      BY <1>0, <3>4, ImagesAreOf DEF Elements
    <3>6. DOMAIN L = 1..(Len(old) + Len(new)) /\ Len(old) \in Nat /\ Len(new) \in Nat
          /\ DOMAIN new = 1..Len(new)
      BY <1>0, AfterJobIs
    <3> HIDE DEF old, new
    <3>7. 1 \in DOMAIN L
      BY <3>5, <3>6
    <3> QED
      BY <3>7, EmptyLayout
  <2> QED
    BY <2>1, <2>2
<1>8. ListKeyed(L) = L
  <2>1. ASSUME NEW i \in DOMAIN L PROVE L[i].key # NoKey
    <3>1. \E x : L[i].key = BundleKey(x)
      BY <1>5 DEF IsManifest, PushedAt
    <3> QED
      BY <3>1, KeysAreKeys
  <2> QED
    BY <1>4, <2>1, AllKeyed
<1> QED
  BY <1>6, <1>7, <1>8

\* The cells of the first tree, each once for whichever jobs build it.
LEMMA FirstCellsAre ==
  /\ FirstCells \in Seq(BuiltCells(1))
  /\ Elements(FirstCells) = BuiltCells(1)
  /\ BuiltCells(1) \subseteq AllCells(Trees[1].catalog)
<1>1. 1 \in DOMAIN Trees /\ IsFiniteSet(AllCells(Trees[1].catalog))
  BY PublishAssumption
<1>2. BuiltCells(1) \subseteq AllCells(Trees[1].catalog)
  BY <1>1, JobItems DEF BuiltCells
<1>3. IsFiniteSet(BuiltCells(1))
  BY <1>1, <1>2, FS_Subset
<1> QED
  BY <1>2, <1>3, ElementsInOrder DEF FirstCells

LEMMA FirstLayoutIs ==
  ASSUME NEW j \in DOMAIN Jobs
  PROVE  LET L == FirstLayout(j) IN
         /\ \E S : L \in Seq(S)
         /\ \A n \in DOMAIN L : \E i \in DOMAIN FirstCells :
               /\ FirstCells[i] \in Elements(ItemsOfJob(j, 1))
               /\ L[n] = Image(FirstCells[i], 1, i)
         /\ \A x \in Elements(ItemsOfJob(j, 1)) : \E n \in DOMAIN L : L[n].key = BundleKey(x)
<1> DEFINE image(i) == Image(FirstCells[i], 1, i)
           images == [i \in DOMAIN FirstCells |-> image(i)]
           S == {i \in DOMAIN FirstCells : FirstCells[i] \in Elements(ItemsOfJob(j, 1))}
           L == At(images, S)
<1>1. FirstLayout(j) = L
  BY DEF FirstLayout
<1>2. images \in Seq({image(i) : i \in DOMAIN FirstCells}) /\ DOMAIN images = DOMAIN FirstCells
  <2>1. PICK n \in Nat : DOMAIN FirstCells = 1..n
    BY FirstCellsAre
  <2> HIDE DEF image
  <2> QED
    BY <2>1
<1>3. S \in SUBSET DOMAIN images
  BY <1>2
<1>4. \A x \in Elements(ItemsOfJob(j, 1)) : \E i \in S : FirstCells[i] = x
  <2> SUFFICES ASSUME NEW x \in Elements(ItemsOfJob(j, 1)) PROVE \E i \in S : FirstCells[i] = x
    OBVIOUS
  <2>1. x \in BuiltCells(1)
    BY DEF BuiltCells
  <2>2. PICK i \in DOMAIN FirstCells : FirstCells[i] = x
    BY <2>1, FirstCellsAre DEF Elements
  <2> QED
    BY <2>2
<1>5. \A i \in S : /\ images[i] = image(i) /\ i \in DOMAIN FirstCells
                   /\ FirstCells[i] \in Elements(ItemsOfJob(j, 1))
  BY <1>2
<1> HIDE DEF images, S
<1>6. /\ L \in Seq({images[i] : i \in S})
      /\ \A i \in S : \E n \in DOMAIN L : L[n] = images[i]
      /\ \A n \in DOMAIN L : Nth(S, n) \in S /\ L[n] = images[Nth(S, n)]
  <2> PICK X : X = {image(i) : i \in DOMAIN FirstCells}
    OBVIOUS
  <2>1. images \in Seq(X)
    BY <1>2
  <2> HIDE DEF image
  <2> QED
    BY <1>3, <2>1, AtPlaces
<1> HIDE DEF L
<1>7. \A n \in DOMAIN L : \E i \in DOMAIN FirstCells :
         FirstCells[i] \in Elements(ItemsOfJob(j, 1)) /\ L[n] = Image(FirstCells[i], 1, i)
  BY <1>5, <1>6
<1>8. ASSUME NEW x \in Elements(ItemsOfJob(j, 1)) PROVE \E n \in DOMAIN L : L[n].key = BundleKey(x)
  <2>1. PICK i \in S : FirstCells[i] = x
    BY <1>4
  <2>2. PICK n \in DOMAIN L : L[n] = images[i]
    BY <1>6
  <2>3. image(i).key = BundleKey(x)
    BY <2>1 DEF Image
  <2> HIDE DEF image
  <2> QED
    BY <1>5, <2>2, <2>3
<1> QED
  BY <1>1, <1>6, <1>7, <1>8

LEMMA TypeInit == GcInit => TypeInv
<1> SUFFICES ASSUME GcInit PROVE TypeInv
  OBVIOUS
<1> DEFINE bundle(i) == Bundle(FirstCells[i], 1, Trees[1].builderOS)
           first == [tree |-> 1, lock |-> FirstLock, v1 |-> TRUE]
<1>1. /\ made = [i \in DOMAIN FirstCells |-> bundle(i)] /\ DOMAIN made = DOMAIN FirstCells
      /\ main = <<first>> /\ DOMAIN main = {1} /\ Len(main) = 1 /\ main[1] = first
  BY DEF GcInit, Init
<1>2. \E S : made \in Seq(S)
  <2>1. PICK n \in Nat : DOMAIN FirstCells = 1..n
    BY FirstCellsAre
  <2> HIDE DEF bundle
  <2>2. made \in Seq({bundle(i) : i \in 1..n})
    BY <1>1, <2>1
  <2> QED
    BY <2>2
<1>3. 1 \in DOMAIN Trees
  BY PublishAssumption
<1>4. DigestsOf(FirstLock) \subseteq DOMAIN made
  <2> DEFINE K == {BundleKey(c) : c \in Elements(FirstCells)}
             at(k) == CHOOSE i \in DOMAIN FirstCells : BundleKey(FirstCells[i]) = k
  <2>1. \A k \in K : \E i \in DOMAIN FirstCells : BundleKey(FirstCells[i]) = k
    BY DEF Elements
  <2>2. \A k \in K : at(k) \in DOMAIN FirstCells
    BY <2>1
  <2>3. FirstLock = [k \in K |-> [digest |-> at(k), spec |-> <<>>]]
    BY DEF FirstLock
  <2> HIDE DEF K, at
  <2>4. \A k \in DOMAIN FirstLock : FirstLock[k].digest \in DOMAIN FirstCells
    BY <2>2, <2>3
  <2> QED
    BY <1>1, <2>4 DEF DigestsOf
<1>5. \A c \in DOMAIN main : /\ main[c].tree \in DOMAIN Trees
                             /\ DigestsOf(main[c].lock) \subseteq DOMAIN made
  BY <1>1, <1>3, <1>4
<1>6. registry.old \subseteq registry.present /\ registry.present \subseteq DOMAIN made
  BY <1>1 DEF GcInit, Init
<1>7. sweep.candidates \subseteq DOMAIN made
  BY DEF GcInit, NoSweep
<1>8. past \in Past
  BY PublishAssumption DEF GcInit, Init, Past
<1>9. ASSUME NEW j \in DOMAIN Jobs PROVE IsLayout(FirstLayout(j), j)
  <2> DEFINE L == FirstLayout(j)
  <2>1. \E S : L \in Seq(S)
    BY FirstLayoutIs
  <2>2. ASSUME NEW n \in DOMAIN L PROVE IsManifest(L[n], j)
    <3>1. PICK i \in DOMAIN FirstCells :
             FirstCells[i] \in Elements(ItemsOfJob(j, 1)) /\ L[n] = Image(FirstCells[i], 1, i)
      BY FirstLayoutIs
    <3> HIDE DEF L
    <3>2. /\ L[n].digest = i /\ L[n].name = ImageName(FirstCells[i])
          /\ L[n].key = BundleKey(FirstCells[i])
          /\ L[n].spec = ComputeSpecHash(FirstCells[i], Trees[1])
      BY <3>1 DEF Image
    <3>3. made[i].key = BundleKey(FirstCells[i])
          /\ made[i].spec = ComputeSpecHash(FirstCells[i], Trees[1])
      BY <1>1 DEF Bundle
    <3>4. PushedAt(L[n], j, 1)
      BY <1>1, <3>1, <3>2 DEF PushedAt, TreeAt
    <3> QED
      BY <1>1, <3>2, <3>3, <3>4 DEF IsManifest, AsMade
  <2> HIDE DEF L
  <2>3. IsLayout(L, j)
    BY <2>1, <2>2 DEF IsLayout
  <2> QED
    BY <2>3 DEF L
<1>10. CachesInv
  <2>1. caches = [j \in DOMAIN Jobs |-> <<[tree |-> 1, layout |-> FirstLayout(j)]>>]
    BY DEF GcInit, Init
  <2>2. ASSUME NEW x PROVE <<x>> \in Seq({x}) /\ DOMAIN <<x>> = {1} /\ <<x>>[1] = x
    OBVIOUS
  <2>3. ASSUME NEW j \in DOMAIN Jobs
        PROVE  /\ \E S : caches[j] \in Seq(S)
               /\ \A i \in DOMAIN caches[j] : IsLayout(caches[j][i].layout, j)
    <3> DEFINE e == [tree |-> 1, layout |-> FirstLayout(j)]
    <3>1. caches[j] = <<e>> /\ e.layout = FirstLayout(j)
      BY <2>1
    <3>2. IsLayout(e.layout, j)
      BY <1>9, <3>1
    <3> HIDE DEF e
    <3>3. <<e>> \in Seq({e}) /\ DOMAIN <<e>> = {1} /\ <<e>>[1] = e
      BY <2>2
    <3>4. \A i \in DOMAIN caches[j] : caches[j][i] = e
      BY <3>1, <3>3
    <3> QED
      BY <3>1, <3>2, <3>3, <3>4
  <2> QED
    BY <2>1, <2>3 DEF CachesInv
<1>11. \A r \in Runs : RunOk(r)
  <2>1. run = [r \in Runs |-> Waiting]
    BY DEF GcInit, Init
  <2>2. \A r \in Runs : run[r].phase = "waiting" /\ run[r].base = 0 /\ run[r].lock = <<>>
    BY <2>1 DEF Waiting
  <2> QED
    BY <1>1, <2>2, NoLockNoDigests DEF RunOk, RunPhases, Over
<1> QED
  BY <1>2, <1>5, <1>6, <1>7, <1>8, <1>10, <1>11 DEF TypeInv

\* Which steps change what.
LEMMA Frame ==
  ASSUME Next
  PROVE  /\ made' = made \/ \E r \in Runs, j \in DOMAIN Jobs : BuildLayout(r, j)
         /\ \/ caches' = caches
            \/ \E r \in Runs, j \in DOMAIN Jobs : BuildLayout(r, j)
            \/ \E j \in DOMAIN Jobs : Evict(j)
         /\ \/ registry' = registry
            \/ \E r \in Runs : PromoteOne(r)
            \/ \E d \in sweep.candidates : DeletePackageVersion(d)
            \/ TimePasses
         /\ \/ run' = run
            \/ \E r \in Runs : \/ \E t \in DOMAIN Trees : Merge(r, t)
                               \/ Dispatch(r) \/ Work(r) \/ Fail(r)
         /\ \/ past' = past
            \/ \E r \in Runs : \/ \E t \in DOMAIN Trees : Merge(r, t)
                               \/ Dispatch(r) \/ ResolveDigest(r) \/ Fail(r)
            \/ \E j \in DOMAIN Jobs : Evict(j)
            \/ /\ past.faults + past.evicted < MaxMishaps
               /\ past' = [past EXCEPT !.faults = @ + 1]
<1>1. CASE Publishes
  <2>1. ASSUME NEW r \in Runs, NEW t \in DOMAIN Trees, Merge(r, t)
        PROVE  UNCHANGED <<made, caches, registry>>
    BY <2>1 DEF Merge
  <2>2. ASSUME NEW r \in Runs, Dispatch(r)
        PROVE  UNCHANGED <<made, caches, registry>>
    BY <2>2 DEF Dispatch
  <2>3. ASSUME NEW r \in Runs, CommitLockfile(r)
        PROVE  UNCHANGED <<made, caches, registry, past>>
    BY <2>3 DEF CommitLockfile
  <2>4. ASSUME NEW r \in Runs, Fail(r)
        PROVE  UNCHANGED <<made, caches, registry>>
    BY <2>4 DEF Fail
  <2>5. ASSUME NEW r \in Runs, NEW j \in DOMAIN Jobs, BuildLayout(r, j)
        PROVE  UNCHANGED <<registry, past>>
    BY <2>5 DEF BuildLayout
  <2>6. ASSUME NEW r \in Runs, PromoteOne(r)
        PROVE  UNCHANGED <<made, caches, past>>
    BY <2>6 DEF PromoteOne
  <2>7. ASSUME NEW r \in Runs, ResolveDigest(r)
        PROVE  UNCHANGED <<made, caches, registry>>
    BY <2>7 DEF ResolveDigest
  <2>8. ASSUME NEW j \in DOMAIN Jobs, Evict(j)
        PROVE  UNCHANGED <<made, registry, run>>
    BY <2>8 DEF Evict
  <2>9. \/ \E r \in Runs : \/ \E t \in DOMAIN Trees : Merge(r, t)
                           \/ Dispatch(r) \/ Work(r) \/ Fail(r)
        \/ \E j \in DOMAIN Jobs : Evict(j)
    BY <1>1 DEF Publishes, PublishNext
  <2>10. CASE \E j \in DOMAIN Jobs : Evict(j)
    BY <2>8, <2>10
  <2>11. ASSUME NEW r \in Runs, (\E t \in DOMAIN Trees : Merge(r, t)) \/ Dispatch(r) \/ Fail(r)
         PROVE  UNCHANGED <<made, caches, registry>>
    BY <2>1, <2>2, <2>4, <2>11
  <2>12. ASSUME NEW r \in Runs, Work(r)
         PROVE  /\ made' = made \/ \E j \in DOMAIN Jobs : BuildLayout(r, j)
                /\ caches' = caches \/ \E j \in DOMAIN Jobs : BuildLayout(r, j)
                /\ registry' = registry \/ PromoteOne(r)
                /\ past' = past \/ ResolveDigest(r)
    BY <2>3, <2>5, <2>6, <2>7, <2>12 DEF Work
  <2> QED
    BY <2>9, <2>10, <2>11, <2>12
<1>2. CASE Release \/ (\E clone \in DOMAIN main : BeginSweep(clone)) \/ TimePasses \/ EndSweep
  BY <1>2 DEF Release, BeginSweep, TimePasses, EndSweep, publishVars
<1>3. ASSUME NEW p \in sweep.packages, ListPackageVersions(p)
      PROVE  /\ UNCHANGED <<made, caches, registry, run>>
             /\ \/ past' = past
                \/ /\ past.faults + past.evicted < MaxMishaps
                   /\ past' = [past EXCEPT !.faults = @ + 1]
  BY <1>3 DEF ListPackageVersions
<1>4. ASSUME NEW d \in sweep.candidates, DeletePackageVersion(d)
      PROVE  /\ UNCHANGED <<made, caches, run>>
             /\ \/ past' = past
                \/ /\ past.faults + past.evicted < MaxMishaps
                   /\ past' = [past EXCEPT !.faults = @ + 1]
  BY <1>4 DEF DeletePackageVersion
<1> QED
  BY <1>1, <1>2, <1>3, <1>4 DEF Next, Sweep

LEMMA NextGrows ==
  ASSUME MainShape, RunsInv, TypeInv, Next
  PROVE  /\ Grown /\ \E S : made' \in Seq(S)
         /\ Len(main') \in Nat /\ Len(main) \in Nat /\ Len(main) <= Len(main')
         /\ DOMAIN main' = 1..Len(main')
<1>0. /\ DOMAIN main = 1..Len(main) /\ Len(main) \in Nat
      /\ \/ main' = main
         \/ /\ DOMAIN main' = 1..(Len(main) + 1) /\ Len(main') = Len(main) + 1
            /\ \A c \in DOMAIN main : main'[c] = main[c]
  BY CommitByCommit, MainHead
<1>1. \A c \in DOMAIN main : c \in DOMAIN main' /\ main'[c] = main[c]
  BY <1>0
<1>2. (\E S : made' \in Seq(S)) /\ \A d \in DOMAIN made : d \in DOMAIN made' /\ made'[d] = made[d]
  <2>1. CASE made' = made
    BY <2>1 DEF TypeInv
  <2>2. ASSUME NEW r \in Runs, NEW j \in DOMAIN Jobs, BuildLayout(r, j)
        PROVE  (\E S : made' \in Seq(S))
               /\ \A d \in DOMAIN made : d \in DOMAIN made' /\ made'[d] = made[d]
    BY <2>2, JobMakes DEF Grown
  <2> QED
    BY <2>1, <2>2, Frame
<1>3. /\ Len(main') \in Nat /\ Len(main) \in Nat /\ Len(main) <= Len(main')
      /\ DOMAIN main' = 1..Len(main')
  <2>1. CASE main' = main
    BY <1>0, <2>1
  <2>2. CASE main' # main
    <3> DEFINE n == Len(main)
               m == Len(main')
    <3>1. n \in Nat /\ m = n + 1 /\ DOMAIN main' = 1..m
      BY <1>0, <2>2
    <3> HIDE DEF n, m
    <3>2. m \in Nat /\ n <= m
      BY <3>1
    <3> QED
      BY <3>1, <3>2 DEF n, m
  <2> QED
    BY <2>1, <2>2
<1> QED
  BY <1>1, <1>2, <1>3 DEF Grown

\* A run that does not move is what it was.
LEMMA RunOkKept ==
  ASSUME Grown, Len(main) \in Nat, Len(main') \in Nat, Len(main) <= Len(main'),
         NEW r \in Runs, RunOk(r), run'[r] = run[r]
  PROVE  RunOk(r)'
<1>1. run[r].base \in 0..Len(main')
  <2>1. run[r].base \in 0..Len(main)
    BY DEF RunOk
  <2> QED
    BY <2>1
<1>2. run[r].phase \notin Over =>
         /\ run[r].base \in DOMAIN main' /\ TreeAt(run[r].base)' = TreeAt(run[r].base)
  BY DEF RunOk, Grown, TreeAt
<1>3. DigestsOf(run'[r].lock) \subseteq DOMAIN made'
  BY DEF RunOk, Grown, DigestsOf
<1>4. run[r].phase \in {"pipeline", "promote"} => IsQueue(run[r].todo)'
  <2>1. ASSUME NEW L, L = run[r].todo, IsQueue(L) PROVE IsQueue(run[r].todo)'
    <3>1. IsQueue(L)'
      BY <2>1, LayoutKept
    <3> QED
      BY <2>1, <3>1
  <2> QED
    BY <2>1 DEF RunOk
<1>5. run[r].phase = "resolve" => run[r].phase \notin Over
  BY DEF Over
<1>6. run'[r].phase = "resolve" =>
         /\ run'[r].todo # <<>>
         /\ run'[r].todo \in Seq(AllCells(TreeAt(run[r].base)'.catalog))
  BY <1>2, <1>5 DEF RunOk
<1> QED
  BY <1>1, <1>2, <1>3, <1>4, <1>6, LayoutKept DEF RunOk

LEMMA StartRunOk ==
  ASSUME MainShape, RunsInv, TypeInv, Next, NEW r \in Runs,
         (\E t \in DOMAIN Trees : Merge(r, t)) \/ Dispatch(r)
  PROVE  RunOk(r)'
<1>1. /\ run'[r].phase = "pipeline" /\ run'[r].layouts = <<>> /\ run'[r].todo = <<>>
      /\ run'[r].lock = <<>> /\ run'[r].base \in DOMAIN main'
  <2>0. ASSUME NEW base \in DOMAIN main', NEW force, Start(r, base, force)
        PROVE  /\ run'[r].phase = "pipeline" /\ run'[r].layouts = <<>> /\ run'[r].todo = <<>>
               /\ run'[r].lock = <<>> /\ run'[r].base \in DOMAIN main'
    BY <2>0, StartEffect
  <2>1. ASSUME NEW t \in DOMAIN Trees, Merge(r, t)
        PROVE  \E base \in DOMAIN main' : Start(r, base, FALSE)
    <3>1. main' = Append(main, [main[Len(main)] EXCEPT !.tree = t])
      BY <2>1 DEF Merge
    <3>2. PICK S : main \in Seq(S)
      BY DEF MainShape
    <3>3. DOMAIN main' = 1..(Len(main) + 1) /\ Len(main) \in Nat
      BY <3>1, <3>2, Appended, MainHead
    <3> DEFINE n == Len(main)
    <3>4. Start(r, n + 1, FALSE)
      BY <2>1 DEF Merge
    <3> HIDE DEF n
    <3>5. n + 1 \in 1..(n + 1)
      BY <3>3 DEF n
    <3> QED
      BY <3>3, <3>4, <3>5 DEF n
  <2>2. ASSUME Dispatch(r)
        PROVE  \E base \in DOMAIN main' : Start(r, base, TRUE)
    BY <2>2, MainHead DEF Dispatch
  <2> QED
    BY <2>0, <2>1, <2>2
<1>2. run'[r].base \in 0..Len(main')
  <2>1. DOMAIN main' = 1..Len(main') /\ Len(main') \in Nat
    BY NextGrows
  <2> QED
    BY <1>1, <2>1
<1>3. <<>> \in Seq({}) /\ DOMAIN <<>> = {}
  OBVIOUS
<1>4. IsQueue(run[r].todo)'
  BY <1>1, <1>3 DEF IsQueue
<1> QED
  BY <1>1, <1>2, <1>3, <1>4, NoLockNoDigests DEF RunOk, RunPhases, Over, DigestsOf

LEMMA BuildRunOk ==
  ASSUME MainShape, RunsInv, TypeInv, Next, NEW r \in Runs, NEW j \in DOMAIN Jobs,
         BuildLayout(r, j)
  PROVE  RunOk(r)'
<1>1. PICK L : L = AfterJob(r, j)
  OBVIOUS
<1>2. IsLayout(L, j)' /\ L # <<>> /\ ListKeyed(L) = L
  BY <1>1, AfterIsLayout
<1>3. /\ run[r].phase = "pipeline" /\ run'[r].phase \in {"pipeline", "promote"}
      /\ run'[r].todo = run[r].todo \o L /\ run'[r].layouts = Append(run[r].layouts, L)
      /\ run'[r].base = run[r].base /\ run'[r].lock = run[r].lock
  BY <1>1, <1>2, BuildLayoutEffect
<1>4. Grown /\ Len(main) <= Len(main') /\ Len(main) \in Nat /\ Len(main') \in Nat
  BY NextGrows
<1>5. RunOk(r)
  BY DEF TypeInv
<1>6. run'[r].base \in 0..Len(main') /\ run'[r].base \in DOMAIN main'
  BY <1>3, <1>4, <1>5 DEF RunOk, Grown, Over
<1>7. DigestsOf(run'[r].lock) \subseteq DOMAIN made'
  BY <1>3, <1>4, <1>5 DEF RunOk, Grown, DigestsOf
<1>8. \E S : run'[r].layouts \in Seq(S)
  <2>1. PICK S : run[r].layouts \in Seq(S)
    BY <1>3, <1>5 DEF RunOk
  <2>2. Append(run[r].layouts, L) \in Seq(S \union {L})
    BY <2>1, Appended
  <2> QED
    BY <1>3, <2>2
<1>9. PICK Q : Q = run[r].todo
  OBVIOUS
<1>10. IsQueue(Q)'
  BY <1>3, <1>4, <1>5, <1>9, LayoutKept DEF RunOk
<1>11. PICK S : Q \in Seq(S)
  BY <1>10 DEF IsQueue
<1>12. PICK T : L \in Seq(T)
  BY <1>2 DEF IsLayout
<1>13. /\ Q \o L \in Seq(S \union T)
       /\ \A i \in DOMAIN Q : (Q \o L)[i] = Q[i]
       /\ \A i \in DOMAIN L : Len(Q) + i \in DOMAIN (Q \o L) /\ (Q \o L)[Len(Q) + i] = L[i]
       /\ \A i \in DOMAIN (Q \o L) : i \in DOMAIN Q \/ \E k \in DOMAIN L : i = Len(Q) + k
  <2> HIDE <1>1, <1>2, <1>3, <1>9, <1>10
  <2>1. Q \in Seq(S) /\ L \in Seq(T)
    BY <1>11, <1>12
  <2>2. Q \o L \in Seq(S \union T)
    BY <2>1, Concatenated
  <2>3. \A i \in DOMAIN Q : (Q \o L)[i] = Q[i]
    BY <2>1, Concatenated
  <2>4. \A i \in DOMAIN L : Len(Q) + i \in DOMAIN (Q \o L) /\ (Q \o L)[Len(Q) + i] = L[i]
    BY <2>1, Concatenated
  <2>5. \A i \in DOMAIN (Q \o L) : i \in DOMAIN Q \/ \E k \in DOMAIN L : i = Len(Q) + k
    BY <2>1, Concatenated
  <2> QED
    BY <2>2, <2>3, <2>4, <2>5
<1>14. Q \o L # <<>>
  <2>1. 1 \in DOMAIN L
    BY <1>2, <1>12, EmptySeq
  <2> QED
    BY <1>13, <2>1, EmptyLayout
<1>15. \A i \in DOMAIN (Q \o L) : \E k \in DOMAIN Jobs : IsManifest((Q \o L)[i], k)'
  <2>1. \A i \in DOMAIN Q : \E k \in DOMAIN Jobs : IsManifest(Q[i], k)'
    BY <1>10 DEF IsQueue
  <2>2. \A i \in DOMAIN L : IsManifest(L[i], j)'
    BY <1>2 DEF IsLayout
  <2> QED
    BY <1>13, <2>1, <2>2
<1>16. IsQueue(Q \o L)'
  BY <1>13, <1>15 DEF IsQueue
<1>17. IsQueue(run[r].todo)' /\ run'[r].todo # <<>>
  BY <1>3, <1>9, <1>14, <1>16
<1>18. Jobs # <<>>
  BY EmptyLayout
<1> QED
  BY <1>3, <1>6, <1>7, <1>8, <1>17, <1>18 DEF RunOk, RunPhases

LEMMA PromoteRunOk ==
  ASSUME MainShape, RunsInv, TypeInv, Next, NEW r \in Runs, PromoteOne(r)
  PROVE  /\ RunOk(r)'
         /\ \E j \in DOMAIN Jobs : IsManifest(run[r].todo[1], j)
<1> DEFINE t == TreeOfRun(r)
           cells == InOrder(AllCells(Trees[t].catalog))
<1>1. RunOk(r) /\ run[r].phase = "promote" /\ run[r].phase \notin Over
  BY DEF TypeInv, PromoteOne, Over
<1>2. /\ run[r].base \in DOMAIN main /\ t \in DOMAIN Trees /\ TreeAt(run[r].base) = Trees[t]
  BY <1>1, RunTree
<1>3. Grown /\ Len(main) <= Len(main') /\ Len(main) \in Nat /\ Len(main') \in Nat
  BY NextGrows
<1>4. run'[r].base = run[r].base /\ run'[r].lock = run[r].lock
  BY PromoteOneEffect
<1>5. run'[r].base \in 0..Len(main') /\ run'[r].base \in DOMAIN main'
      /\ TreeAt(run[r].base)' = Trees[t]
  BY <1>1, <1>2, <1>3, <1>4 DEF RunOk, Grown, TreeAt
<1>6. DigestsOf(run'[r].lock) \subseteq DOMAIN made'
  BY <1>1, <1>3, <1>4 DEF RunOk, Grown, DigestsOf
<1>7. PICK Q : Q = run[r].todo
  OBVIOUS
<1>8. IsQueue(Q) /\ IsQueue(Q)' /\ Q # <<>> /\ Jobs # <<>>
  BY <1>1, <1>3, <1>7, LayoutKept DEF RunOk
<1>9. PICK S : Q \in Seq(S)
  BY <1>8 DEF IsQueue
<1>10. ASSUME Len(Q) > 1 PROVE RunOk(r)'
  <2>1. run'[r].phase = "promote" /\ run'[r].todo = Tail(Q)
    BY <1>7, <1>10, PromoteOneEffect
  <2>2. /\ Tail(Q) \in Seq(S) /\ Tail(Q) # <<>>
        /\ \A i \in DOMAIN Tail(Q) : i + 1 \in DOMAIN Q /\ Tail(Q)[i] = Q[i + 1]
    BY <1>8, <1>9, <1>10, TailPlaces
  <2>3. IsQueue(Tail(Q))'
    BY <1>8, <2>2 DEF IsQueue
  <2>4. IsQueue(run[r].todo)'
    BY <2>1, <2>3
  <2> QED
    BY <1>5, <1>6, <1>8, <2>1, <2>2, <2>4 DEF RunOk, RunPhases
<1>11. ASSUME ~(Len(Q) > 1) PROVE RunOk(r)'
  <2>1. run'[r].phase = "resolve" /\ run'[r].todo = cells
    BY <1>2, <1>7, <1>11, PromoteOneEffect
  <2> DEFINE all == AllCells(Trees[t].catalog)
  <2>2. IsFiniteSet(all)
    BY <1>2, PublishAssumption
  <2>3. all # {}
    <3>1. PICK j \in DOMAIN Jobs : TRUE
      <4>1. PICK T : Jobs \in Seq(T)
        BY PublishAssumption
      <4> QED
        BY <1>8, <4>1, EmptySeq
    <3> QED
      BY <1>2, <3>1, JobItems DEF AllCells
  <2> HIDE DEF all
  <2>4. InOrder(all) \in Seq(all) /\ Elements(InOrder(all)) = all
    BY <2>2, ElementsInOrder
  <2>5. InOrder(all) # <<>>
    BY <2>3, <2>4, EmptyLayout DEF Elements
  <2>6. /\ run'[r].todo # <<>>
        /\ run'[r].todo \in Seq(AllCells(TreeAt(run[r].base)'.catalog))
    BY <1>5, <2>1, <2>4, <2>5 DEF all
  <2>7. RunOk(r)'
    BY <1>4, <1>5, <1>6, <2>1, <2>6 DEF RunOk, RunPhases, Over
  <2> QED
    BY <2>7
<1>12. \E j \in DOMAIN Jobs : IsManifest(run[r].todo[1], j)
  <2>1. 1 \in DOMAIN Q
    BY <1>8, <1>9, TailPlaces
  <2> QED
    BY <1>7, <1>8, <2>1 DEF IsQueue
<1> QED
  BY <1>10, <1>11, <1>12

LEMMA ResolveRunOk ==
  ASSUME GcInv, TypeInv, Next, NEW r \in Runs, ResolveDigest(r)
  PROVE  RunOk(r)'
<1>0. MainShape /\ RunsInv
  BY GcInvParts
<1> DEFINE C == AllCells(TreeAt(run[r].base).catalog)
<1>1. /\ RunOk(r) /\ run[r].phase = "resolve" /\ run[r].phase \notin Over
      /\ registry.present \subseteq DOMAIN made
      /\ \A t \in DOMAIN registry.tags : registry.tags[t] \in registry.present
  BY <1>0 DEF TypeInv, ResolveDigest, Over, RunsInv
<1>2. Grown /\ Len(main) <= Len(main') /\ Len(main) \in Nat /\ Len(main') \in Nat
  BY <1>0, NextGrows
<1>3. /\ run'[r].base = run[r].base /\ run'[r].todo = Tail(run[r].todo)
      /\ run'[r].phase = IF Len(run[r].todo) = 1 THEN "commit" ELSE "resolve"
  BY <1>0, ResolveDigestEffect
<1>4. /\ run'[r].base \in 0..Len(main') /\ run'[r].base \in DOMAIN main'
      /\ TreeAt(run[r].base)' = TreeAt(run[r].base)
  BY <1>1, <1>2, <1>3 DEF RunOk, Grown, TreeAt
<1>5. PICK Q : Q = run[r].todo
  OBVIOUS
<1>6. Q # <<>> /\ Q \in Seq(C)
  BY <1>1, <1>5 DEF RunOk
<1> HIDE DEF C
<1>7. /\ Tail(Q) \in Seq(C) /\ Len(Q) \in Nat
      /\ Len(Q) > 1 => Tail(Q) # <<>>
      /\ ~(Len(Q) > 1) => Tail(Q) = <<>>
  BY <1>6, TailPlaces
<1>8. DigestsOf(run'[r].lock) \subseteq DOMAIN made'
  <2>1. DigestsOf(run[r].lock) \subseteq DOMAIN made /\ DOMAIN made \subseteq DOMAIN made'
    BY <1>1, <1>2 DEF RunOk, Grown
  <2> DEFINE key == BundleKey(run[r].todo[1])
             tag == TagOf(run[r].todo[1])
  <2>2. \/ run'[r].lock = run[r].lock
        \/ /\ tag \in DOMAIN registry.tags
           /\ DOMAIN run'[r].lock = DOMAIN run[r].lock \union {key}
           /\ run'[r].lock[key].digest = registry.tags[tag]
           /\ \A k \in DOMAIN run[r].lock \ {key} : run'[r].lock[k] = run[r].lock[k]
    BY <1>0, ResolveDigestEffect
  <2> HIDE DEF key, tag
  <2>3. tag \in DOMAIN registry.tags => registry.tags[tag] \in DOMAIN made
    BY <1>1
  <2> QED
    BY <2>1, <2>2, <2>3 DEF DigestsOf
<1>9. run'[r].phase = "commit" => run'[r].todo = <<>>
  <2>1. Len(Q) = 1 => Tail(Q) = <<>>
    BY <1>7
  <2>2. run'[r].phase = "commit" => Len(Q) = 1
    BY <1>3, <1>5
  <2> QED
    BY <1>3, <1>5, <2>1, <2>2
<1>10. run'[r].phase = "resolve" => run'[r].todo # <<>> /\ run'[r].todo \in Seq(C)
  <2>1. Len(Q) # 1 => Len(Q) > 1
    BY <1>6, <1>7, TailPlaces, EmptySeq
  <2> QED
    BY <1>3, <1>5, <1>7, <2>1
<1>11. run'[r].phase \in {"commit", "resolve"}
  BY <1>3
<1> QED
  BY <1>3, <1>4, <1>8, <1>9, <1>10, <1>11 DEF RunOk, RunPhases, Over, C

LEMMA EndsRunOk ==
  ASSUME MainShape, RunsInv, TypeInv, Next, NEW r \in Runs, CommitLockfile(r) \/ Fail(r)
  PROVE  RunOk(r)'
<1>1. run'[r].phase \in {"done", "failed"} /\ run'[r].base = 0 /\ run'[r].lock = <<>>
  BY EndsEffect
<1>2. 0 \in 0..Len(main')
  BY NextGrows
<1> QED
  BY <1>1, <1>2, NoLockNoDigests DEF RunOk, RunPhases, Over

\* Every run keeps to its type, the one that moves and the others.
LEMMA RunsStayOk ==
  ASSUME GcInv, TypeInv, Next
  PROVE  \A r \in Runs : RunOk(r)'
<1>0. MainShape /\ RunsInv
  BY GcInvParts
<1>1. Grown /\ Len(main) <= Len(main') /\ Len(main) \in Nat /\ Len(main') \in Nat
  BY <1>0, NextGrows
<1>2. ASSUME NEW r \in Runs, run'[r] = run[r] PROVE RunOk(r)'
  BY <1>1, <1>2, RunOkKept DEF TypeInv
<1>3. CASE run' = run
  BY <1>2, <1>3
<1>4. ASSUME NEW r \in Runs,
             (\E t \in DOMAIN Trees : Merge(r, t)) \/ Dispatch(r) \/ Work(r) \/ Fail(r)
      PROVE  RunOk(r)' /\ Others(r)
  <2>1. ASSUME NEW t \in DOMAIN Trees, Merge(r, t) PROVE RunOk(r)' /\ Others(r)
    <3>1. Start(r, Len(main) + 1, FALSE)
      BY <2>1 DEF Merge
    <3> QED
      BY <1>0, <2>1, <3>1, StartRunOk, StartEffect
  <2>2. CASE Dispatch(r)
    <3>1. Start(r, Len(main), TRUE)
      BY <2>2 DEF Dispatch
    <3> QED
      BY <1>0, <2>2, <3>1, StartRunOk, StartEffect
  <2>3. ASSUME NEW j \in DOMAIN Jobs, BuildLayout(r, j) PROVE RunOk(r)' /\ Others(r)
    BY <1>0, <2>3, BuildRunOk, BuildLayoutEffect
  <2>4. CASE PromoteOne(r)
    BY <1>0, <2>4, PromoteRunOk, PromoteOneEffect
  <2>5. CASE ResolveDigest(r)
    BY <1>0, <2>5, ResolveRunOk, ResolveDigestEffect
  <2>6. CASE CommitLockfile(r) \/ Fail(r)
    BY <1>0, <2>6, EndsRunOk, EndsEffect
  <2> QED
    BY <1>4, <2>1, <2>2, <2>3, <2>4, <2>5, <2>6 DEF Work
<1> QED
  BY <1>2, <1>3, <1>4, Frame DEF Others

EntryFor(r, j) == [tree |-> TreeOfRun(r), layout |-> AfterJob(r, j)]

\* What a step does to the layouts that are saved for a job.
LEMMA CachesChange ==
  ASSUME CachesInv, RunsInv, Next, NEW j \in DOMAIN Jobs
  PROVE  /\ DOMAIN caches' = DOMAIN caches
         /\ \/ caches'[j] = caches[j]
            \/ \E r \in Runs :
                  /\ BuildLayout(r, j)
                  /\ \A i \in DOMAIN caches[j] : caches[j][i].tree # TreeOfRun(r)
                  /\ caches'[j] = Append(caches[j], EntryFor(r, j))
            \/ Evict(j) /\ caches[j] # <<>> /\ caches'[j] = Tail(caches[j])
<1>1. DOMAIN caches = DOMAIN Jobs
  BY DEF CachesInv
<1>2. ASSUME NEW r \in Runs, NEW k \in DOMAIN Jobs, BuildLayout(r, k)
      PROVE  /\ DOMAIN caches' = DOMAIN caches
             /\ \/ caches'[j] = caches[j]
                \/ /\ BuildLayout(r, j)
                   /\ \A i \in DOMAIN caches[j] : caches[j][i].tree # TreeOfRun(r)
                   /\ caches'[j] = Append(caches[j], EntryFor(r, j))
  <2> DEFINE new == Saved(k, TreeOfRun(r), AfterJob(r, k))
  <2>1. caches' = [caches EXCEPT ![k] = new]
    BY <1>2, BuildLayoutEffect
  <2>2. DOMAIN caches' = DOMAIN caches /\ (k # j => caches'[j] = caches[j]) /\ caches'[k] = new
    <3> HIDE DEF new
    <3> QED
      BY <1>1, <2>1
  <2>3. CASE \E i \in DOMAIN caches[k] : caches[k][i].tree = TreeOfRun(r)
    BY <2>2, <2>3 DEF Saved
  <2>4. CASE ~\E i \in DOMAIN caches[k] : caches[k][i].tree = TreeOfRun(r)
    BY <1>2, <2>2, <2>4 DEF Saved, EntryFor
  <2> QED
    BY <2>3, <2>4
<1>3. ASSUME NEW k \in DOMAIN Jobs, Evict(k)
      PROVE  /\ DOMAIN caches' = DOMAIN caches
             /\ \/ caches'[j] = caches[j]
                \/ Evict(j) /\ caches[j] # <<>> /\ caches'[j] = Tail(caches[j])
  BY <1>1, <1>3 DEF Evict
<1> QED
  BY <1>2, <1>3, Frame

LEMMA CachesStep ==
  ASSUME MainShape, RunsInv, TypeInv, Next
  PROVE  CachesInv'
<1>0. Grown /\ CachesInv
  BY NextGrows DEF TypeInv
<1>1. DOMAIN caches' = DOMAIN Jobs
  <2>1. CASE DOMAIN Jobs = {}
    BY <1>0, <2>1, Frame DEF CachesInv
  <2>2. CASE DOMAIN Jobs # {}
    BY <1>0, <2>2, CachesChange DEF CachesInv
  <2> QED
    BY <2>1, <2>2
<1>2. ASSUME NEW j \in DOMAIN Jobs, NEW L, NEW i \in DOMAIN caches[j], L = caches[j][i].layout
      PROVE  IsLayout(L, j)'
  BY <1>0, <1>2, LayoutKept DEF CachesInv
<1>3. ASSUME NEW j \in DOMAIN Jobs
      PROVE  /\ \E S : caches'[j] \in Seq(S)
             /\ \A i \in DOMAIN caches'[j] : IsLayout(caches[j][i].layout, j)'
  <2>1. PICK S : caches[j] \in Seq(S)
    BY <1>0 DEF CachesInv
  <2>2. CASE caches'[j] = caches[j]
    <3>1. ASSUME NEW i \in DOMAIN caches[j], NEW L, L = caches[j][i].layout
          PROVE  IsLayout(caches[j][i].layout, j)'
      <4>1. IsLayout(L, j)'
        BY <1>2, <3>1
      <4> QED
        BY <2>2, <3>1, <4>1
    <3> QED
      BY <2>1, <2>2, <3>1
  <2>3. ASSUME NEW r \in Runs, BuildLayout(r, j),
               NEW e, e = EntryFor(r, j),
               caches'[j] = Append(caches[j], e)
        PROVE  /\ \E T : caches'[j] \in Seq(T)
               /\ \A i \in DOMAIN caches'[j] : IsLayout(caches[j][i].layout, j)'
    <3>1. PICK L : L = AfterJob(r, j)
      OBVIOUS
    <3>2. IsLayout(L, j)' /\ e.layout = L
      BY <2>3, <3>1, AfterIsLayout DEF EntryFor
    <3>3. /\ caches'[j] \in Seq(S \union {e})
          /\ DOMAIN caches'[j] = 1..(Len(caches[j]) + 1)
          /\ DOMAIN caches[j] = 1..Len(caches[j]) /\ Len(caches[j]) \in Nat
          /\ \A i \in DOMAIN caches[j] : caches'[j][i] = caches[j][i]
          /\ caches'[j][Len(caches[j]) + 1] = e
      BY <2>1, <2>3, Appended
    <3>4. \A i \in DOMAIN caches'[j] : i \in DOMAIN caches[j] \/ caches'[j][i] = e
      <4> DEFINE n == Len(caches[j])
      <4>1. n \in Nat /\ DOMAIN caches'[j] = 1..(n + 1) /\ DOMAIN caches[j] = 1..n
            /\ caches'[j][n + 1] = e
        BY <3>3
      <4> HIDE DEF n
      <4>2. \A i \in 1..(n + 1) : i \in 1..n \/ i = n + 1
        BY <4>1
      <4> QED
        BY <4>1, <4>2
    <3>5. ASSUME NEW i \in DOMAIN caches'[j], NEW M, M = caches'[j][i].layout
          PROVE  IsLayout(caches[j][i].layout, j)'
      <4>1. IsLayout(M, j)'
        BY <1>2, <3>2, <3>3, <3>4, <3>5
      <4> QED
        BY <3>5, <4>1
    <3> QED
      BY <3>3, <3>5
  <2>4. ASSUME caches[j] # <<>>, caches'[j] = Tail(caches[j])
        PROVE  /\ \E T : caches'[j] \in Seq(T)
               /\ \A i \in DOMAIN caches'[j] : IsLayout(caches[j][i].layout, j)'
    <3>1. /\ caches'[j] \in Seq(S)
          /\ \A i \in DOMAIN caches'[j] : i + 1 \in DOMAIN caches[j]
                                         /\ caches'[j][i] = caches[j][i + 1]
      BY <2>1, <2>4, TailPlaces
    <3>2. ASSUME NEW i \in DOMAIN caches'[j], NEW M, M = caches'[j][i].layout
          PROVE  IsLayout(caches[j][i].layout, j)'
      <4>1. IsLayout(M, j)'
        BY <1>2, <3>1, <3>2
      <4> QED
        BY <3>2, <4>1
    <3> QED
      BY <3>1, <3>2
  <2>5. ASSUME NEW r \in Runs, BuildLayout(r, j),
               caches'[j] = Append(caches[j], EntryFor(r, j))
        PROVE  /\ \E T : caches'[j] \in Seq(T)
               /\ \A i \in DOMAIN caches'[j] : IsLayout(caches[j][i].layout, j)'
    <3>1. PICK e : e = EntryFor(r, j)
      OBVIOUS
    <3>2. caches'[j] = Append(caches[j], e)
      BY <2>5, <3>1
    <3> QED
      BY <2>3, <2>5, <3>1, <3>2
  <2>6. \/ caches'[j] = caches[j]
        \/ \E r \in Runs : BuildLayout(r, j) /\ caches'[j] = Append(caches[j], EntryFor(r, j))
        \/ caches[j] # <<>> /\ caches'[j] = Tail(caches[j])
    BY <1>0, CachesChange
  <2> QED
    BY <2>2, <2>4, <2>5, <2>6
<1> QED
  BY <1>1, <1>3 DEF CachesInv

\* A commit adds no tree and no bundle of its own.
LEMMA CommitsStayOk ==
  ASSUME GcInv, TypeInv, Next, NEW c \in DOMAIN main'
  PROVE  main'[c].tree \in DOMAIN Trees /\ DigestsOf(main'[c].lock) \subseteq DOMAIN made'
<1>0. MainShape /\ RunsInv
  BY GcInvParts
<1>1. Grown
  BY <1>0, NextGrows
<1>2. DOMAIN made \subseteq DOMAIN made'
  BY <1>1 DEF Grown
<1>3. ASSUME c \in DOMAIN main
      PROVE  main'[c].tree \in DOMAIN Trees /\ DigestsOf(main'[c].lock) \subseteq DOMAIN made'
  BY <1>1, <1>2, <1>3 DEF TypeInv, Grown
<1> DEFINE n == Len(main)
<1>4. /\ n \in DOMAIN main /\ DOMAIN main = 1..n /\ n \in Nat
      /\ HasFields(main[n], {"tree", "lock", "v1"})
      /\ main[n].tree \in DOMAIN Trees /\ DigestsOf(main[n].lock) \subseteq DOMAIN made
  BY <1>0, MainHead DEF MainShape, TypeInv
<1>5. ASSUME c \notin DOMAIN main
      PROVE  /\ c = n + 1
             /\ \/ \E r \in Runs, t \in DOMAIN Trees : main'[c] = [main[n] EXCEPT !.tree = t]
                \/ \E r \in Runs : /\ CommitLockfile(r)
                                   /\ main'[c] = [main[n] EXCEPT !.lock = run[r].lock,
                                                                 !.v1 = FALSE]
  <2>1. /\ DOMAIN main' = 1..(n + 1)
        /\ \/ \E r \in Runs, t \in DOMAIN Trees : main'[n + 1] = [main[n] EXCEPT !.tree = t]
           \/ \E r \in Runs : /\ CommitLockfile(r)
                              /\ main'[n + 1] = [main[n] EXCEPT !.lock = run[r].lock,
                                                                !.v1 = FALSE]
    BY <1>0, <1>5, CommitByCommit
  <2> HIDE DEF n
  <2>2. c \in 1..(n + 1) /\ c \notin 1..n
    BY <1>4, <1>5, <2>1
  <2>3. c = n + 1
    BY <1>4, <2>2
  <2> QED
    BY <2>1, <2>3
<1> HIDE DEF n
<1>6. ASSUME NEW t \in DOMAIN Trees, main'[c] = [main[n] EXCEPT !.tree = t]
      PROVE  main'[c].tree \in DOMAIN Trees /\ DigestsOf(main'[c].lock) \subseteq DOMAIN made'
  <2>1. main'[c].tree = t /\ main'[c].lock = main[n].lock
    BY <1>4, <1>6 DEF HasFields
  <2> QED
    BY <1>2, <1>4, <2>1
<1>7. ASSUME NEW r \in Runs, CommitLockfile(r),
             main'[c] = [main[n] EXCEPT !.lock = run[r].lock, !.v1 = FALSE]
      PROVE  main'[c].tree \in DOMAIN Trees /\ DigestsOf(main'[c].lock) \subseteq DOMAIN made'
  <2>1. main'[c].tree = main[n].tree /\ main'[c].lock = run[r].lock
    BY <1>4, <1>7 DEF HasFields
  <2>2. DigestsOf(run[r].lock) \subseteq DOMAIN made
    BY DEF TypeInv, RunOk
  <2> QED
    BY <1>2, <1>4, <2>1, <2>2
<1> QED
  BY <1>3, <1>5, <1>6, <1>7

LEMMA RegistryStep ==
  ASSUME GcInv, TypeInv, Next
  PROVE  registry'.old \subseteq registry'.present /\ registry'.present \subseteq DOMAIN made'
<1>0. MainShape /\ RunsInv
  BY GcInvParts
<1>1. Grown
  BY <1>0, NextGrows
<1>2. /\ DOMAIN made \subseteq DOMAIN made'
      /\ registry.old \subseteq registry.present /\ registry.present \subseteq DOMAIN made
      /\ HasFields(registry, {"tags", "present", "old"})
  BY <1>0, <1>1 DEF Grown, TypeInv, RunsInv
<1>3. ASSUME NEW r \in Runs, PromoteOne(r)
      PROVE  registry'.old \subseteq registry'.present /\ registry'.present \subseteq DOMAIN made'
  <2>1. \E j \in DOMAIN Jobs : IsManifest(run[r].todo[1], j)
    BY <1>0, <1>3, PromoteRunOk
  <2>2. run[r].todo[1].digest \in DOMAIN made
    BY <2>1 DEF IsManifest, AsMade
  <2>3. /\ registry'.present = registry.present \union {run[r].todo[1].digest}
        /\ registry'.old = registry.old
    BY <1>0, <1>3, PromoteOneEffect
  <2> QED
    BY <1>2, <2>2, <2>3
<1>4. ASSUME NEW d \in sweep.candidates, DeletePackageVersion(d)
      PROVE  registry'.old \subseteq registry'.present /\ registry'.present \subseteq DOMAIN made'
  <2>1. \/ UNCHANGED registry
        \/ registry' = [tags |-> [t \in {u \in DOMAIN registry.tags : registry.tags[u] # d}
                                      |-> registry.tags[t]],
                        present |-> registry.present \ {d}, old |-> registry.old \ {d}]
    BY <1>4 DEF DeletePackageVersion
  <2> QED
    BY <1>2, <2>1
<1>5. ASSUME TimePasses
      PROVE  registry'.old \subseteq registry'.present /\ registry'.present \subseteq DOMAIN made'
  <2>1. registry' = [registry EXCEPT !.old = registry.present]
    BY <1>5 DEF TimePasses
  <2>2. registry'.old = registry.present /\ registry'.present = registry.present
    BY <1>2, <2>1 DEF HasFields
  <2> QED
    BY <1>2, <2>2
<1> QED
  BY <1>2, <1>3, <1>4, <1>5, Frame

LEMMA CandidatesStep ==
  ASSUME GcInv, TypeInv, Next
  PROVE  sweep'.candidates \subseteq DOMAIN made'
<1>0. /\ MainShape /\ RunsInv
      /\ HasFields(sweep, {"phase", "referenced", "packages", "candidates"})
  BY GcInvParts
<1>1. Grown
  BY <1>0, NextGrows
<1>2. /\ DOMAIN made \subseteq DOMAIN made' /\ sweep.candidates \subseteq DOMAIN made
      /\ registry.present \subseteq DOMAIN made
  BY <1>1 DEF Grown, TypeInv
<1>3. \/ sweep'.candidates \subseteq sweep.candidates
      \/ \E p \in sweep.packages : sweep'.candidates = Candidates(p)
  <2>1. CASE Publishes \/ Release \/ TimePasses
    BY <2>1 DEF Publishes, Release, TimePasses, gcVars
  <2>2. CASE EndSweep \/ \E clone \in DOMAIN main : BeginSweep(clone)
    <3>1. sweep'.candidates = {}
      <4>1. CASE EndSweep
        BY <4>1 DEF EndSweep, NoSweep
      <4>2. ASSUME NEW clone \in DOMAIN main, BeginSweep(clone) PROVE sweep'.candidates = {}
        <5> DEFINE referenced == EnumerateReferencedDigests(clone)
                   packages == {CanonicalRefFromBundleKey(made[d].key)[1] : d \in registry.present}
        <5>1. sweep' = [NoSweep EXCEPT !.phase = "list", !.referenced = referenced,
                                       !.packages = packages]
          BY <4>2 DEF BeginSweep
        <5> HIDE DEF referenced, packages
        <5> QED
          BY <5>1 DEF NoSweep
      <4> QED
        BY <2>2, <4>1, <4>2
    <3> QED
      BY <3>1
  <2>3. ASSUME NEW p \in sweep.packages, ListPackageVersions(p)
        PROVE  sweep'.candidates = Candidates(p) \/ sweep'.candidates \subseteq sweep.candidates
    BY <1>0, <2>3 DEF ListPackageVersions, HasFields
  <2>4. ASSUME NEW d \in sweep.candidates, DeletePackageVersion(d)
        PROVE  sweep'.candidates \subseteq sweep.candidates
    BY <1>0, <2>4 DEF DeletePackageVersion, HasFields
  <2> QED
    BY <2>1, <2>2, <2>3, <2>4 DEF Next, Sweep
<1>4. \A p : Candidates(p) \subseteq registry.present
  BY DEF Candidates
<1> QED
  BY <1>2, <1>3, <1>4

LEMMA PastStep ==
  ASSUME GcInv, TypeInv, Next
  PROVE  past' \in Past
<1>0. MainShape /\ RunsInv
  BY GcInvParts
<1>1. /\ past = [faults |-> past.faults, evicted |-> past.evicted, overlap |-> past.overlap]
      /\ past.faults \in 0..MaxMishaps /\ past.evicted \in 0..MaxMishaps
      /\ past.overlap \in BOOLEAN /\ MaxMishaps \in Nat
  BY PublishAssumption DEF TypeInv, Past
<1>2. ASSUME past.faults + past.evicted < MaxMishaps, past' = [past EXCEPT !.faults = @ + 1]
      PROVE  past' \in Past
  <2>1. past.faults + 1 \in 0..MaxMishaps
    BY <1>1, <1>2
  <2> QED
    BY <1>1, <1>2, <2>1 DEF Past
<1>3. ASSUME past.faults + past.evicted < MaxMishaps, past' = [past EXCEPT !.evicted = @ + 1]
      PROVE  past' \in Past
  <2>1. past.evicted + 1 \in 0..MaxMishaps
    BY <1>1, <1>3
  <2> QED
    BY <1>1, <1>3, <2>1 DEF Past
<1>4. ASSUME NEW r, NEW base, NEW force, Start(r, base, force)
      PROVE  past' \in Past
  <2> DEFINE o == past.overlap \/ Active # {}
  <2>1. past' = [past EXCEPT !.overlap = o]
    BY <1>4 DEF Start
  <2>2. o \in BOOLEAN
    OBVIOUS
  <2> HIDE DEF o
  <2> QED
    BY <1>1, <2>1, <2>2 DEF Past
<1>5. ASSUME NEW r \in Runs, NEW t \in DOMAIN Trees, Merge(r, t) PROVE past' \in Past
  <2>1. Start(r, Len(main) + 1, FALSE)
    BY <1>5 DEF Merge
  <2> QED
    BY <1>4, <2>1
<1>6. ASSUME NEW r \in Runs, Dispatch(r) PROVE past' \in Past
  <2>1. Start(r, Len(main), TRUE)
    BY <1>6 DEF Dispatch
  <2> QED
    BY <1>4, <2>1
<1>7. ASSUME NEW r \in Runs, ResolveDigest(r) PROVE past' \in Past
  <2>1. \/ past' = past
        \/ /\ past.faults + past.evicted < MaxMishaps
           /\ past' = [past EXCEPT !.faults = @ + 1]
    BY <1>0, <1>7, ResolveDigestEffect
  <2> QED
    BY <1>2, <2>1 DEF TypeInv
<1>8. ASSUME NEW r \in Runs, Fail(r) PROVE past' \in Past
  BY <1>2, <1>8 DEF Fail
<1>9. ASSUME NEW j \in DOMAIN Jobs, Evict(j) PROVE past' \in Past
  BY <1>3, <1>9 DEF Evict
<1> QED
  BY <1>2, <1>5, <1>6, <1>7, <1>8, <1>9, Frame DEF TypeInv

LEMMA TypeStep ==
  ASSUME GcInv, TypeInv, [Next]_vars
  PROVE  TypeInv'
<1>0. MainShape /\ RunsInv
  BY GcInvParts
<1>1. CASE Next
  <2>1. \E S : made' \in Seq(S)
    BY <1>0, <1>1, NextGrows
  <2>2. \A c \in DOMAIN main' : /\ main'[c].tree \in DOMAIN Trees
                                /\ DigestsOf(main'[c].lock) \subseteq DOMAIN made'
    BY <1>1, CommitsStayOk
  <2>3. \A c \in DOMAIN main' : DigestsOf(main[c].lock)' \subseteq DOMAIN made'
    BY <2>2 DEF DigestsOf
  <2>4. registry'.old \subseteq registry'.present /\ registry'.present \subseteq DOMAIN made'
    BY <1>1, RegistryStep
  <2>5. sweep'.candidates \subseteq DOMAIN made'
    BY <1>1, CandidatesStep
  <2>6. past' \in Past
    BY <1>1, PastStep
  <2>7. CachesInv'
    BY <1>0, <1>1, CachesStep
  <2>8. \A r \in Runs : RunOk(r)'
    BY <1>1, RunsStayOk
  <2> QED
    BY <2>1, <2>2, <2>3, <2>4, <2>5, <2>6, <2>7, <2>8 DEF TypeInv, Past
<1>2. CASE UNCHANGED vars
  <2>1. UNCHANGED <<main, made, registry, caches, run, past, sweep>>
    BY <1>2 DEF vars, publishVars, gcVars
  <2>2. Grown /\ Len(main) \in Nat /\ Len(main') \in Nat /\ Len(main) <= Len(main')
    BY <1>0, <2>1, MainHead DEF Grown
  <2>3. \A r \in Runs : RunOk(r)'
    BY <2>1, <2>2, RunOkKept DEF TypeInv
  <2>4. CachesInv'
    <3>1. ASSUME NEW j \in DOMAIN Jobs, NEW i \in DOMAIN caches[j], NEW L,
                 L = caches[j][i].layout
          PROVE  IsLayout(caches[j][i].layout, j)'
      <4>1. IsLayout(L, j)'
        BY <2>2, <3>1, LayoutKept DEF TypeInv, CachesInv
      <4> QED
        BY <2>1, <3>1, <4>1
    <3>2. ASSUME NEW j \in DOMAIN Jobs
          PROVE  /\ \E S : caches'[j] \in Seq(S)
                 /\ \A i \in DOMAIN caches'[j] : IsLayout(caches[j][i].layout, j)'
      BY <2>1, <3>1 DEF TypeInv, CachesInv
    <3> QED
      BY <2>1, <3>2 DEF TypeInv, CachesInv
  <2>5. \A c \in DOMAIN main' : DigestsOf(main[c].lock)' \subseteq DOMAIN made'
    BY <2>1 DEF TypeInv, DigestsOf
  <2> QED
    BY <2>1, <2>3, <2>4, <2>5 DEF TypeInv, Past
<1> QED
  BY <1>1, <1>2

\* Every manifest that a layout, a run or a lockfile names is of a bundle that was
\* made, and runs, sweeps and the registry keep to their types, whatever overlaps,
\* fails or is dropped.
THEOREM TypeCorrect == Spec => []TypeOK
<1>1. GcInv /\ TypeInv => TypeOK
  <2> SUFFICES ASSUME GcInv, TypeInv PROVE TypeOK
    OBVIOUS
  <2>1. MainShape /\ RunsInv
    BY GcInvParts
  <2>2. \A r \in Runs : /\ run[r].base \in 0..Len(main)
                        /\ run[r].phase \in {"promote", "resolve"} => run[r].todo # <<>>
    BY DEF TypeInv, RunOk
  <2> QED
    BY <2>1, <2>2 DEF TypeOK, TypeInv, MainShape, RunsInv
<1>2. GcInit => GcInv /\ TypeInv
  BY GcInvInit, TypeInit
<1>3. GcInv /\ TypeInv /\ [Next]_vars => (GcInv /\ TypeInv)'
  BY GcInvStep, TypeStep
<1> QED
  BY <1>1, <1>2, <1>3, PTL DEF Spec

-----------------------------------------------------------------------------
(* The lockfile and the tree it was made of. *)

\* Runs that do not overlap start at the head and keep it until they end.
AloneInv ==
    ~past.overlap => /\ \A q, r \in Active : q = r
                     /\ \A r \in Active : run[r].base = Len(main)

IsSaved(j, c) == \E i \in DOMAIN caches[j] : caches[j][i].tree = main[c].tree

\* Later manifests are of later commits, whose layouts were all saved.
InTurn(L, j) ==
    \A i, k \in DOMAIN L : i <= k =>
       \E c, d \in DOMAIN main :
          c <= d /\ PushedAt(L[i], j, c) /\ PushedAt(L[k], j, d) /\ IsSaved(j, c) /\ IsSaved(j, d)

LastOfKey(L, k, i) == L[i].key = k /\ \A n \in DOMAIN L : L[n].key = k => n <= i

\* A layout holds a cell, and the last manifest with its key is of the tree.
Fresh(L, x, t) ==
    /\ \E i \in DOMAIN L : L[i].key = BundleKey(x)
    /\ \A i \in DOMAIN L : LastOfKey(L, BundleKey(x), i) =>
          CameBack(x, t) \/ L[i].spec = ComputeSpecHash(x, Trees[t])

SavedInv ==
    ~past.overlap /\ past.evicted = 0 =>
       \A j \in DOMAIN Jobs : \A i \in DOMAIN caches[j] :
          /\ InTurn(caches[j][i].layout, j)
          /\ \A x \in Elements(ItemsOfJob(j, caches[j][i].tree)) :
                Fresh(caches[j][i].layout, x, caches[j][i].tree)

\* The tag of a cell names a bundle of the tree.
TagIsFresh(x, t) ==
    /\ TagOf(x) \in DOMAIN registry.tags
    /\ CameBack(x, t) \/ LET d == registry.tags[TagOf(x)]
                         IN  /\ made[d].key = BundleKey(x)
                             /\ made[d].spec = ComputeSpecHash(x, Trees[t])

\* What a run that goes on alone has done of its tree.
Keeping(r) ==
    LET t    == main[run[r].base].tree
        lock == run[r].lock
        todo == run[r].todo
    IN
    /\ run[r].phase = "pipeline" =>
          \A j \in DOMAIN Jobs : j <= Len(run[r].layouts) =>
             \A x \in Elements(ItemsOfJob(j, t)) : Fresh(todo, x, t)
    /\ run[r].phase = "promote" =>
          \A x \in BuiltCells(t) :
             \/ Fresh(todo, x, t)
             \/ TagIsFresh(x, t) /\ \A i \in DOMAIN todo : todo[i].key # BundleKey(x)
    /\ run[r].phase \in {"pipeline", "promote"} => DOMAIN lock = {}
    /\ run[r].phase \in {"resolve", "commit"} =>
          \A x \in BuiltCells(t) :
             /\ TagIsFresh(x, t)
             /\ x \in Elements(todo) \/ BundleKey(x) \in DOMAIN lock \/ run[r].missed
             /\ BundleKey(x) \in DOMAIN lock =>
                   lock[BundleKey(x)].digest = registry.tags[TagOf(x)]

Quiet == ~past.overlap /\ ~swept.raced /\ past.evicted = 0

KeepingInv == Quiet => \A r \in Active : Keeping(r)

LEMMA PushedKept ==
  ASSUME Grown, NEW m, NEW j, NEW c \in DOMAIN main, PushedAt(m, j, c)
  PROVE  c \in DOMAIN main' /\ PushedAt(m, j, c)'
<1>1. c \in DOMAIN main' /\ main'[c] = main[c]
  BY DEF Grown
<1>2. \E x \in Elements(ItemsOfJob(j, main'[c].tree)) :
         /\ m.name = ImageName(x) /\ m.key = BundleKey(x)
         /\ m.spec = ComputeSpecHash(x, Trees[main'[c].tree])
  BY <1>1 DEF PushedAt, TreeAt
<1> QED
  BY <1>1, <1>2 DEF PushedAt, TreeAt

LEMMA CameBackKept ==
  ASSUME Grown, NEW x, NEW t, CameBack(x, t)
  PROVE  CameBack(x, t)'
<1>1. PICK c \in DOMAIN main, d \in DOMAIN main :
         /\ c < d /\ main[c].tree # t
         /\ x \in BuiltCells(main[c].tree) \intersect BuiltCells(main[d].tree)
         /\ ComputeSpecHash(x, Trees[main[c].tree]) = ComputeSpecHash(x, Trees[t])
         /\ ComputeSpecHash(x, Trees[main[d].tree]) # ComputeSpecHash(x, Trees[t])
  BY DEF CameBack, TreeAt
<1>2. c \in DOMAIN main' /\ main'[c] = main[c] /\ d \in DOMAIN main' /\ main'[d] = main[d]
  BY DEF Grown
<1>3. \E n, o \in DOMAIN main' :
         /\ n < o /\ main'[n].tree # t
         /\ x \in BuiltCells(main'[n].tree) \intersect BuiltCells(main'[o].tree)
         /\ ComputeSpecHash(x, Trees[main'[n].tree]) = ComputeSpecHash(x, Trees[t])
         /\ ComputeSpecHash(x, Trees[main'[o].tree]) # ComputeSpecHash(x, Trees[t])
  BY <1>1, <1>2
<1> QED
  BY <1>3 DEF CameBack, TreeAt

LEMMA FreshKept ==
  ASSUME Grown, NEW L, NEW x, NEW t, Fresh(L, x, t)
  PROVE  Fresh(L, x, t)'
<1>1. CameBack(x, t) => CameBack(x, t)'
  BY CameBackKept
<1> QED
  BY <1>1 DEF Fresh

\* No layout of the job is dropped.
CacheGrows(j) ==
    \A i \in DOMAIN caches[j] : i \in DOMAIN caches'[j] /\ caches'[j][i] = caches[j][i]

LEMMA SavedKept ==
  ASSUME Grown, NEW j, CacheGrows(j), NEW c \in DOMAIN main, IsSaved(j, c)
  PROVE  IsSaved(j, c)'
<1>1. main'[c] = main[c]
  BY DEF Grown
<1>2. \E i \in DOMAIN caches'[j] : caches'[j][i].tree = main'[c].tree
  BY <1>1 DEF IsSaved, CacheGrows
<1> QED
  BY <1>2 DEF IsSaved

LEMMA InTurnKept ==
  ASSUME Grown, NEW j, CacheGrows(j), NEW L, InTurn(L, j)
  PROVE  InTurn(L, j)'
<1> SUFFICES ASSUME NEW i \in DOMAIN L, NEW k \in DOMAIN L, i <= k
             PROVE  \E c, d \in DOMAIN main' :
                       /\ c <= d /\ PushedAt(L[i], j, c)' /\ PushedAt(L[k], j, d)'
                       /\ IsSaved(j, c)' /\ IsSaved(j, d)'
  BY DEF InTurn
<1>1. PICK c \in DOMAIN main, d \in DOMAIN main :
         c <= d /\ PushedAt(L[i], j, c) /\ PushedAt(L[k], j, d) /\ IsSaved(j, c) /\ IsSaved(j, d)
  BY DEF InTurn
<1>2. c \in DOMAIN main' /\ PushedAt(L[i], j, c)' /\ IsSaved(j, c)'
  BY <1>1, PushedKept, SavedKept
<1>3. d \in DOMAIN main' /\ PushedAt(L[k], j, d)' /\ IsSaved(j, d)'
  BY <1>1, PushedKept, SavedKept
<1> QED
  BY <1>1, <1>2, <1>3

\* A bundle of a tree is only of the cell that its key names.
LEMMA KeyOfPushed ==
  ASSUME TypeInv, NEW m, NEW j \in DOMAIN Jobs, NEW c \in DOMAIN main, PushedAt(m, j, c),
         NEW t \in DOMAIN Trees, NEW x \in AllCells(Trees[t].catalog), m.key = BundleKey(x)
  PROVE  /\ x \in Elements(ItemsOfJob(j, main[c].tree)) /\ x \in BuiltCells(main[c].tree)
         /\ m.name = ImageName(x) /\ m.spec = ComputeSpecHash(x, TreeAt(c))
<1>1. main[c].tree \in DOMAIN Trees
  BY DEF TypeInv
<1>2. PICK y \in Elements(ItemsOfJob(j, main[c].tree)) :
         /\ m.name = ImageName(y) /\ m.key = BundleKey(y)
         /\ m.spec = ComputeSpecHash(y, TreeAt(c))
  BY DEF PushedAt
<1>3. y \in AllCells(Trees[main[c].tree].catalog) /\ IsCatalog(Trees[main[c].tree].catalog)
  BY <1>1, JobItems
<1>4. IsCatalog(Trees[t].catalog)
  BY PublishAssumption
<1>5. x = y
  BY <1>2, <1>3, <1>4, KeyNamesCell
<1> QED
  BY <1>2, <1>5 DEF BuiltCells

\* What two jobs build, each builds of every tree that has it.
LEMMA SharedItem ==
  ASSUME NEW t \in DOMAIN Trees, NEW u \in DOMAIN Trees,
         NEW j \in DOMAIN Jobs, NEW k \in DOMAIN Jobs,
         NEW x \in Elements(ItemsOfJob(j, u)), x \in Elements(ItemsOfJob(k, t))
  PROVE  x \in Elements(ItemsOfJob(j, t))
<1> DEFINE a == Jobs[j].core
           b == Jobs[k].core
           S(c, v) == DiscoverExtensionsForCell(Trees[v].catalog, c.version, c.os, c.arch, c.ts)
<1>1. /\ Elements(ItemsOfJob(j, u)) = {a} \union S(a, u) /\ a \in AllCells(Trees[u].catalog)
      /\ Elements(ItemsOfJob(j, t)) = {a} \union S(a, t) /\ ~IsExt(a)
  BY JobItems, ItemsOfCatalog DEF ItemsOfJob
<1>2. /\ Elements(ItemsOfJob(k, t)) = {b} \union S(b, t) /\ b \in AllCells(Trees[t].catalog)
      /\ ~IsExt(b)
  BY JobItems, ItemsOfCatalog DEF ItemsOfJob
<1>3. IsCatalog(Trees[t].catalog) /\ IsCatalog(Trees[u].catalog)
  BY PublishAssumption
<1>4. \A y \in S(a, u) : IsExt(y) /\ y = ExtCell(y.extension, y.version, a.version, a.os, a.arch, a.ts)
  BY <1>3, DiscoveredOfCatalog
<1>5. \A y \in S(b, t) : IsExt(y) /\ y = ExtCell(y.extension, y.version, b.version, b.os, b.arch, b.ts)
  BY <1>3, DiscoveredOfCatalog
<1> HIDE DEF a, b, S
<1>6. CASE IsExt(x)
  <2>1. x \in S(a, u) /\ x \in S(b, t)
    BY <1>1, <1>2, <1>6
  <2>2. /\ x = ExtCell(x.extension, x.version, a.version, a.os, a.arch, a.ts)
        /\ x = ExtCell(x.extension, x.version, b.version, b.os, b.arch, b.ts)
    BY <1>4, <1>5, <2>1
  <2>3. /\ x.php = a.version /\ x.os = a.os /\ x.arch = a.arch /\ x.ts = a.ts
        /\ x.php = b.version /\ x.os = b.os /\ x.arch = b.arch /\ x.ts = b.ts
    BY <2>2 DEF ExtCell
  <2>4. S(a, t) = S(b, t)
    BY <2>3 DEF S
  <2> QED
    BY <1>1, <2>1, <2>4
<1>7. CASE ~IsExt(x)
  <2>1. x = a
    BY <1>1, <1>4, <1>7
  <2> QED
    BY <1>1, <2>1
<1> QED
  BY <1>6, <1>7

LEMMA PastGrows ==
  ASSUME RunsInv, TypeInv, Next
  PROVE  /\ past.overlap => past'.overlap
         /\ past'.evicted = 0 =>
               past.evicted = 0 /\ \A j \in DOMAIN Jobs : ~Evict(j)
<1>1. /\ past = [faults |-> past.faults, evicted |-> past.evicted, overlap |-> past.overlap]
      /\ past.evicted \in Nat
  BY PublishAssumption DEF TypeInv, Past
<1>2. ASSUME NEW j \in DOMAIN Jobs, Evict(j)
      PROVE  past'.overlap = past.overlap /\ past'.evicted # 0
  <2>1. past' = [past EXCEPT !.evicted = @ + 1]
    BY <1>2 DEF Evict
  <2>2. past'.overlap = past.overlap /\ past'.evicted = past.evicted + 1
    BY <1>1, <2>1
  <2> QED
    BY <1>1, <2>2
<1>3. ASSUME past' = [past EXCEPT !.faults = @ + 1]
      PROVE  past'.overlap = past.overlap /\ past'.evicted = past.evicted
  BY <1>1, <1>3
<1>4. ASSUME NEW r, NEW base, NEW force, Start(r, base, force)
      PROVE  (past.overlap => past'.overlap) /\ past'.evicted = past.evicted
  <2> DEFINE o == past.overlap \/ Active # {}
  <2>1. past' = [past EXCEPT !.overlap = o]
    BY <1>4 DEF Start
  <2> HIDE DEF o
  <2>2. past'.overlap = o /\ past'.evicted = past.evicted
    BY <1>1, <2>1
  <2> QED
    BY <2>2 DEF o
<1>5. ASSUME NEW r \in Runs, (\E t \in DOMAIN Trees : Merge(r, t)) \/ Dispatch(r)
      PROVE  (past.overlap => past'.overlap) /\ past'.evicted = past.evicted
  BY <1>4, <1>5 DEF Merge, Dispatch
<1>6. ASSUME NEW r \in Runs, ResolveDigest(r) \/ Fail(r)
      PROVE  past'.overlap = past.overlap /\ past'.evicted = past.evicted
  BY <1>3, <1>6, ResolveDigestEffect, EndsEffect
<1> QED
  BY <1>2, <1>3, <1>5, <1>6, Frame

\* What a run starts from.
LEMMA Starts ==
  ASSUME MainShape, RunsInv, TypeInv, Next, NEW r \in Runs,
         (\E t \in DOMAIN Trees : Merge(r, t)) \/ Dispatch(r)
  PROVE  /\ run[r].phase = "waiting" /\ run'[r].phase = "pipeline" /\ Others(r)
         /\ run'[r].base = Len(main') /\ run'[r].layouts = <<>> /\ run'[r].lock = <<>>
         /\ ~past'.overlap => Active = {}
         /\ UNCHANGED <<made, registry, caches>>
<1>1. past = [faults |-> past.faults, evicted |-> past.evicted, overlap |-> past.overlap]
  BY DEF TypeInv, Past
<1>2. ASSUME NEW base, NEW force, Start(r, base, force)
      PROVE  /\ run[r].phase = "waiting" /\ run'[r].phase = "pipeline" /\ Others(r)
             /\ run'[r].base = base /\ run'[r].layouts = <<>> /\ run'[r].lock = <<>>
             /\ ~past'.overlap => Active = {}
  <2> DEFINE o == past.overlap \/ Active # {}
  <2>1. past' = [past EXCEPT !.overlap = o]
    BY <1>2, StartEffect
  <2>2. past'.overlap = o
    <3> HIDE DEF o
    <3> QED
      BY <1>1, <2>1
  <2> QED
    BY <1>2, <2>2, StartEffect
<1>3. ASSUME NEW t \in DOMAIN Trees, Merge(r, t)
      PROVE  Start(r, Len(main'), FALSE) /\ UNCHANGED <<made, registry, caches>>
  <2>1. PICK S : main \in Seq(S)
    BY DEF MainShape
  <2>2. main' = Append(main, [main[Len(main)] EXCEPT !.tree = t])
    BY <1>3 DEF Merge
  <2>3. Len(main') = Len(main) + 1
    BY <2>1, <2>2, Appended
  <2> QED
    BY <1>3, <2>3 DEF Merge
<1>4. ASSUME Dispatch(r)
      PROVE  Start(r, Len(main'), TRUE) /\ UNCHANGED <<made, registry, caches>>
  BY <1>4 DEF Dispatch
<1> QED
  BY <1>2, <1>3, <1>4

LEMMA MovesNoRun ==
  ASSUME MainShape, RunsInv, Next, run' = run
  PROVE  main' = main
<1>1. ASSUME NEW r \in Runs, NEW t \in DOMAIN Trees, Merge(r, t) PROVE FALSE
  <2>1. Start(r, Len(main) + 1, FALSE)
    BY <1>1 DEF Merge
  <2> QED
    BY <2>1, StartEffect
<1>2. ASSUME NEW r \in Runs, CommitLockfile(r) PROVE FALSE
  <2>1. run[r].phase = "commit"
    BY <1>2 DEF CommitLockfile
  <2> QED
    BY <1>2, <2>1, EndsEffect
<1> QED
  BY <1>1, <1>2, CommitByCommit

LEMMA AloneStep ==
  ASSUME GcInv, TypeInv, AloneInv, Next
  PROVE  AloneInv'
<1>0. MainShape /\ RunsInv
  BY GcInvParts
<1> SUFFICES ASSUME ~past'.overlap
             PROVE  /\ \A q, r \in Active' : q = r
                    /\ \A r \in Active' : run'[r].base = Len(main')
  BY DEF AloneInv
<1>1. /\ \A q, r \in Active : q = r
      /\ \A r \in Active : run[r].base = Len(main)
  BY <1>0, PastGrows DEF AloneInv
<1>2. CASE run' = run
  BY <1>0, <1>1, <1>2, MovesNoRun DEF Active
<1>3. ASSUME NEW r \in Runs, (\E t \in DOMAIN Trees : Merge(r, t)) \/ Dispatch(r)
      PROVE  /\ \A q, p \in Active' : q = p
             /\ \A q \in Active' : run'[q].base = Len(main')
  <2>1. Active = {} /\ Others(r) /\ run'[r].base = Len(main')
    BY <1>0, <1>3, Starts
  <2>2. \A q \in Active' : q = r
    BY <2>1 DEF Active, Others
  <2> QED
    BY <2>1, <2>2
<1>4. ASSUME NEW r \in Runs, CommitLockfile(r) \/ Fail(r)
      PROVE  Active' = {}
  <2>1. Others(r) /\ r \in Active /\ run'[r].phase \in Over
    BY <1>0, <1>4, EndsEffect DEF Active, Over
  <2> QED
    BY <1>1, <2>1 DEF Active, Others
<1>5. ASSUME NEW r \in Runs, Others(r), main' = main, r \in Active,
             run'[r].base = run[r].base
      PROVE  /\ \A q, p \in Active' : q = p
             /\ \A q \in Active' : run'[q].base = Len(main')
  <2>1. \A q \in Active' : q \in Active /\ run'[q].base = run[q].base
    BY <1>5 DEF Active, Others
  <2> QED
    BY <1>1, <1>5, <2>1
<1>6. ASSUME NEW r \in Runs, NEW j \in DOMAIN Jobs, BuildLayout(r, j)
      PROVE  Others(r) /\ main' = main /\ r \in Active /\ run'[r].base = run[r].base
  BY <1>0, <1>6, BuildLayoutEffect DEF Active, Over
<1>7. ASSUME NEW r \in Runs, PromoteOne(r)
      PROVE  Others(r) /\ main' = main /\ r \in Active /\ run'[r].base = run[r].base
  BY <1>0, <1>7, PromoteOneEffect DEF Active, Over
<1>8. ASSUME NEW r \in Runs, ResolveDigest(r)
      PROVE  Others(r) /\ main' = main /\ r \in Active /\ run'[r].base = run[r].base
  BY <1>0, <1>8, ResolveDigestEffect DEF Active, Over
<1>9. ASSUME NEW r \in Runs, Work(r)
      PROVE  /\ \A q, p \in Active' : q = p
             /\ \A q \in Active' : run'[q].base = Len(main')
  BY <1>4, <1>5, <1>6, <1>7, <1>8, <1>9 DEF Work
<1> QED
  BY <1>2, <1>3, <1>4, <1>9, Frame

LEMMA FirstAreSaved ==
  ASSUME GcInit
  PROVE  AloneInv /\ SavedInv /\ KeepingInv
<1>0. TypeInv
  BY TypeInit
<1>1. Active = {}
  <2>1. run = [r \in Runs |-> Waiting]
    BY DEF GcInit, Init
  <2>2. \A r \in Runs : run[r].phase = "waiting"
    BY <2>1 DEF Waiting
  <2> QED
    BY <2>2 DEF Active, Over
<1> DEFINE first == [tree |-> 1, lock |-> FirstLock, v1 |-> TRUE]
<1>2. DOMAIN main = {1} /\ main[1].tree = 1
  <2>1. main = <<first>>
    BY DEF GcInit, Init
  <2> HIDE DEF first
  <2>2. DOMAIN main = {1} /\ main[1] = first
    BY <2>1
  <2> QED
    BY <2>2 DEF first
<1>3. ASSUME NEW j \in DOMAIN Jobs, NEW i \in DOMAIN caches[j]
      PROVE  caches[j][i].tree = 1 /\ caches[j][i].layout = FirstLayout(j)
  <2> DEFINE e == [tree |-> 1, layout |-> FirstLayout(j)]
  <2>1. caches[j] = <<e>>
    BY DEF GcInit, Init
  <2>2. e.tree = 1 /\ e.layout = FirstLayout(j)
    OBVIOUS
  <2> HIDE DEF e
  <2>3. caches[j][i] = e
    BY <2>1
  <2> QED
    BY <2>2, <2>3
<1>4. ASSUME NEW j \in DOMAIN Jobs, NEW n \in DOMAIN FirstLayout(j)
      PROVE  PushedAt(FirstLayout(j)[n], j, 1)
  <2> DEFINE m == FirstLayout(j)[n]
  <2>1. PICK i \in DOMAIN FirstCells :
           FirstCells[i] \in Elements(ItemsOfJob(j, 1)) /\ m = Image(FirstCells[i], 1, i)
    BY FirstLayoutIs
  <2> HIDE DEF m
  <2>2. /\ m.name = ImageName(FirstCells[i]) /\ m.key = BundleKey(FirstCells[i])
        /\ m.spec = ComputeSpecHash(FirstCells[i], Trees[1])
    BY <2>1 DEF Image
  <2>3. PushedAt(m, j, 1)
    BY <1>2, <2>1, <2>2 DEF PushedAt, TreeAt
  <2> QED
    BY <2>3 DEF m
<1>5. ASSUME NEW j \in DOMAIN Jobs, NEW i \in DOMAIN caches[j]
      PROVE  InTurn(FirstLayout(j), j)
  <2>1. IsSaved(j, 1)
    BY <1>2, <1>3 DEF IsSaved
  <2> QED
    BY <1>2, <1>4, <2>1 DEF InTurn
<1>6. ASSUME NEW j \in DOMAIN Jobs, NEW x \in Elements(ItemsOfJob(j, 1))
      PROVE  Fresh(FirstLayout(j), x, 1)
  <2> DEFINE L == FirstLayout(j)
  <2>1. \E n \in DOMAIN L : L[n].key = BundleKey(x)
    BY FirstLayoutIs
  <2>2. ASSUME NEW n \in DOMAIN L, L[n].key = BundleKey(x)
        PROVE  L[n].spec = ComputeSpecHash(x, Trees[1])
    <3>1. 1 \in DOMAIN Trees /\ x \in AllCells(Trees[1].catalog)
      BY PublishAssumption, JobItems
    <3>2. TreeAt(1) = Trees[1]
      BY <1>2 DEF TreeAt
    <3>3. PushedAt(L[n], j, 1)
      BY <1>4
    <3> QED
      BY <1>0, <1>2, <2>2, <3>1, <3>2, <3>3, KeyOfPushed
  <2> QED
    BY <2>1, <2>2 DEF Fresh, LastOfKey
<1>7. SavedInv
  BY <1>3, <1>5, <1>6 DEF SavedInv
<1> QED
  BY <1>1, <1>7 DEF AloneInv, KeepingInv

\* A manifest that a layout already held is of the tree of the run, or was of it once.
LEMMA OldIsFresh ==
  ASSUME MainShape, TypeInv, NEW j \in DOMAIN Jobs, NEW t \in DOMAIN Trees,
         NEW old, IsLayout(old, j), InTurn(old, j),
         \A i \in DOMAIN caches[j] : caches[j][i].tree # t,
         NEW x \in AllCells(Trees[t].catalog),
         NEW h \in DOMAIN old, old[h].key = BundleKey(x),
         old[h].spec = ComputeSpecHash(x, Trees[t]),
         NEW i \in DOMAIN old, old[i].key = BundleKey(x), h <= i
  PROVE  CameBack(x, t) \/ old[i].spec = ComputeSpecHash(x, Trees[t])
<1>1. PICK c \in DOMAIN main, d \in DOMAIN main :
         c <= d /\ PushedAt(old[h], j, c) /\ PushedAt(old[i], j, d) /\ IsSaved(j, c)
  BY DEF InTurn
<1>2. x \in BuiltCells(main[c].tree) /\ old[h].spec = ComputeSpecHash(x, TreeAt(c))
  BY <1>1, KeyOfPushed
<1>3. x \in BuiltCells(main[d].tree) /\ old[i].spec = ComputeSpecHash(x, TreeAt(d))
  BY <1>1, KeyOfPushed
<1>4. main[c].tree # t
  BY <1>1 DEF IsSaved
<1>5. ASSUME old[i].spec # ComputeSpecHash(x, Trees[t]) PROVE CameBack(x, t)
  <2>1. c # d
    BY <1>2, <1>3, <1>5
  <2>2. c \in Int /\ d \in Int
    BY MainHead
  <2>3. c < d
    BY <1>1, <2>1, <2>2
  <2> QED
    BY <1>2, <1>3, <1>4, <1>5, <2>3 DEF CameBack
<1> QED
  BY <1>5

\* What a job leaves holds every cell of the tree, and the last manifest of a cell is
\* of that tree.
LEMMA AfterIsFresh ==
  ASSUME GcInv, TypeInv, SavedInv, ~past.overlap, past.evicted = 0,
         NEW r \in Runs, run[r].phase \notin Over, NEW j \in DOMAIN Jobs,
         NEW t, t = TreeOfRun(r), NEW x \in Elements(ItemsOfJob(j, t)),
         NEW L, L = AfterJob(r, j)
  PROVE  Fresh(L, x, t)
<1> DEFINE old == Restored(j, TreeOfRun(r))
           new == ImagesFor(r, j)
           built == BuiltFor(r, j)
           items == ItemsOfJob(j, t)
           K == BundleKey(x)
           H == ComputeSpecHash(x, Trees[t])
<1>1. /\ t \in DOMAIN Trees /\ IsCatalog(Trees[t].catalog) /\ x \in AllCells(Trees[t].catalog)
      /\ Jobs[j].core \in ExpandPHPMatrix(Trees[t].catalog)
  BY RunTree, JobItems
<1>2. /\ Len(old) \in Nat /\ DOMAIN old = 1..Len(old)
      /\ Len(new) \in Nat /\ DOMAIN new = 1..Len(new)
      /\ DOMAIN L = 1..(Len(old) + Len(new))
      /\ \A i \in DOMAIN old : L[i] = old[i]
      /\ \A i \in DOMAIN new : L[Len(old) + i] = new[i]
      /\ \A i \in DOMAIN L : i \in DOMAIN old \/ i - Len(old) \in DOMAIN new
  BY AfterJobIs
<1>3. ASSUME NEW i \in DOMAIN new, new[i].key = K PROVE new[i].spec = H
  <2>1. /\ i \in DOMAIN built /\ built[i] \in Elements(items)
        /\ new[i] = Image(built[i], t, Len(made) + i)
    BY ImagesAreOf
  <2>2. new[i].key = BundleKey(built[i]) /\ new[i].spec = ComputeSpecHash(built[i], Trees[t])
    <3> HIDE DEF built, new
    <3> QED
      BY <2>1 DEF Image
  <2>3. built[i] \in AllCells(Trees[t].catalog)
    BY <1>1, <2>1, JobItems
  <2>4. built[i] = x
    <3> HIDE DEF built, new
    <3> QED
      BY <1>1, <1>3, <2>2, <2>3, KeyNamesCell
  <2> QED
    BY <2>2, <2>4
<1>4. IsLayout(old, j)
  BY RestoredIsLayout DEF TypeInv
<1>5. CASE \E k \in DOMAIN new : new[k].key = K
  <2>1. PICK k \in DOMAIN new : new[k].key = K
    BY <1>5
  <2> HIDE DEF old, new, H, K
  <2>2. Len(old) + k \in DOMAIN L /\ L[Len(old) + k].key = K
    BY <1>2, <2>1
  <2>3. ASSUME NEW i \in DOMAIN L, LastOfKey(L, K, i) PROVE L[i].spec = H
    <3>1. Len(old) + k <= i
      BY <2>2, <2>3 DEF LastOfKey
    <3>2. i \notin DOMAIN old
      BY <1>2, <3>1
    <3>3. i - Len(old) \in DOMAIN new /\ i = Len(old) + (i - Len(old))
      BY <1>2, <2>3, <3>2
    <3>4. L[i] = new[i - Len(old)]
      BY <1>2, <3>3
    <3> QED
      BY <1>3, <2>3, <3>3, <3>4 DEF LastOfKey
  <2> QED
    BY <2>2, <2>3 DEF Fresh, H, K
<1>6. CASE \A k \in DOMAIN new : new[k].key # K
  <2>1. PICK h \in DOMAIN old : old[h].key = K /\ old[h].spec = H
    <3>1. PICK a \in DOMAIN items : items[a] = x
      BY DEF Elements
    <3>2. a \notin NeededFor(r, j)
      <4> SUFFICES ASSUME a \in NeededFor(r, j) PROVE FALSE
        OBVIOUS
      <4>1. x \in Elements(built)
        BY <3>1, BuiltAreItems
      <4>2. PICK i \in DOMAIN built : built[i] = x
        BY <4>1 DEF Elements
      <4>3. i \in DOMAIN new /\ new[i] = Image(built[i], t, Len(made) + i)
        BY <4>2, ImagesAreOf
      <4>4. new[i].key = K
        <5> HIDE DEF built, new
        <5> QED
          BY <4>2, <4>3 DEF Image
      <4> QED
        BY <1>6, <4>3, <4>4
    <3>3. LookupBySpec(old, ImageName(x), H) # NoDigest
      BY <3>1, <3>2 DEF NeededFor
    <3>4. \E S : old \in Seq(S)
      BY <1>4 DEF IsLayout
    <3> HIDE DEF old, H
    <3>5. PICK h \in DOMAIN old : old[h].spec = H
      BY <3>3, <3>4, LookupFinds
    <3>6. PICK c \in DOMAIN main : PushedAt(old[h], j, c)
      BY <1>4, <3>5 DEF IsLayout, IsManifest
    <3>7. PICK y \in Elements(ItemsOfJob(j, main[c].tree)) :
             old[h].key = BundleKey(y) /\ old[h].spec = ComputeSpecHash(y, TreeAt(c))
      BY <3>6 DEF PushedAt
    <3> DEFINE u == main[c].tree
    <3>8. /\ u \in DOMAIN Trees /\ IsCatalog(Trees[u].catalog)
          /\ Jobs[j].core \in ExpandPHPMatrix(Trees[u].catalog)
      BY JobItems DEF TypeInv
    <3>9. ComputeSpecHash(x, Trees[t]) = ComputeSpecHash(y, Trees[u])
      BY <3>5, <3>7 DEF H, TreeAt
    <3>10. /\ x \in Elements(ItemsOf(Jobs[j].core, Trees[t].catalog))
           /\ y \in Elements(ItemsOf(Jobs[j].core, Trees[u].catalog))
      BY <3>7 DEF ItemsOfJob
    <3>11. x = y
      <4> HIDE DEF u
      <4> QED
        BY <1>1, <3>8, <3>9, <3>10, HashNamesItem
    <3> QED
      BY <3>5, <3>7, <3>11
  <2>2. PICK e \in DOMAIN caches[j] :
           /\ old = caches[j][e].layout
           /\ (\E i \in DOMAIN caches[j] : caches[j][i].tree = t) => caches[j][e].tree = t
    <3>1. old # <<>>
      <4> HIDE DEF old
      <4> QED
        BY <2>1, EmptyLayout
    <3> QED
      BY <3>1, RestoredIsSaved DEF TypeInv
  <2>3. InTurn(old, j)
    BY <2>2 DEF SavedInv
  <2>4. ASSUME NEW i \in DOMAIN L, LastOfKey(L, K, i)
        PROVE  CameBack(x, t) \/ L[i].spec = H
    <3> HIDE DEF old, new, K, H
    <3>1. i \in DOMAIN old /\ L[i] = old[i] /\ old[i].key = K
      <4>1. ASSUME i - Len(old) \in DOMAIN new PROVE FALSE
        <5>1. i = Len(old) + (i - Len(old))
          BY <1>2, <2>4
        <5>2. L[i] = new[i - Len(old)]
          BY <1>2, <4>1, <5>1
        <5> QED
          BY <1>6, <2>4, <4>1, <5>2 DEF LastOfKey
      <4> QED
        BY <1>2, <2>4, <4>1 DEF LastOfKey
    <3>2. \A n \in DOMAIN old : n \in DOMAIN L /\ L[n] = old[n]
      BY <1>2
    <3>3. LastOfKey(old, K, i)
      BY <2>4, <3>1, <3>2 DEF LastOfKey
    <3>4. h <= i
      BY <2>1, <3>3 DEF LastOfKey
    <3>5. CASE caches[j][e].tree = t
      <4>1. Fresh(old, x, t)
        BY <2>2, <3>5 DEF SavedInv
      <4> QED
        BY <3>1, <3>3, <4>1 DEF Fresh, K, H
    <3>6. CASE \A n \in DOMAIN caches[j] : caches[j][n].tree # t
      BY <1>1, <1>4, <2>1, <2>3, <3>1, <3>4, <3>6, GcInvParts, OldIsFresh DEF K, H
    <3> QED
      BY <2>2, <3>5, <3>6
  <2>5. h \in DOMAIN L /\ L[h].key = K
    <3> HIDE DEF old, new
    <3> QED
      BY <1>2, <2>1
  <2> QED
    BY <2>4, <2>5 DEF Fresh
<1> QED
  BY <1>5, <1>6

\* What is saved is kept and added to, while no layout is dropped.
LEMMA SavedStep ==
  ASSUME GcInv, TypeInv, AloneInv, SavedInv, Next
  PROVE  SavedInv'
<1>0. MainShape /\ RunsInv /\ CachesInv
  BY GcInvParts DEF TypeInv
<1> SUFFICES ASSUME ~past'.overlap, past'.evicted = 0, NEW j \in DOMAIN Jobs
             PROVE  \A i \in DOMAIN caches'[j] :
                       /\ InTurn(caches[j][i].layout, j)'
                       /\ \A x \in Elements(ItemsOfJob(j, caches'[j][i].tree)) :
                             Fresh(caches[j][i].layout, x, caches[j][i].tree)'
  BY DEF SavedInv
<1>1. ~past.overlap /\ past.evicted = 0 /\ ~Evict(j) /\ Grown
  BY <1>0, PastGrows, NextGrows
<1>2. PICK S : caches[j] \in Seq(S)
  BY <1>0 DEF CachesInv
<1>3. \/ caches'[j] = caches[j]
      \/ \E r \in Runs : /\ BuildLayout(r, j)
                         /\ \A i \in DOMAIN caches[j] : caches[j][i].tree # TreeOfRun(r)
                         /\ caches'[j] = Append(caches[j], EntryFor(r, j))
  BY <1>0, <1>1, CachesChange
<1>4. ASSUME NEW i \in DOMAIN caches[j], CacheGrows(j), NEW L, L = caches[j][i].layout,
             NEW t, t = caches[j][i].tree
      PROVE  InTurn(L, j)' /\ \A x \in Elements(ItemsOfJob(j, t)) : Fresh(L, x, t)'
  <2>1. InTurn(L, j) /\ \A x \in Elements(ItemsOfJob(j, t)) : Fresh(L, x, t)
    BY <1>1, <1>4 DEF SavedInv
  <2> QED
    BY <1>1, <1>4, <2>1, InTurnKept, FreshKept
<1>5. ASSUME NEW i \in DOMAIN caches'[j], NEW L, L = caches'[j][i].layout,
             NEW t, t = caches'[j][i].tree,
             InTurn(L, j)', \A x \in Elements(ItemsOfJob(j, t)) : Fresh(L, x, t)'
      PROVE  /\ InTurn(caches[j][i].layout, j)'
             /\ \A x \in Elements(ItemsOfJob(j, caches'[j][i].tree)) :
                   Fresh(caches[j][i].layout, x, caches[j][i].tree)'
  BY <1>5
<1>6. CASE caches'[j] = caches[j]
  <2>1. CacheGrows(j)
    BY <1>6 DEF CacheGrows
  <2> SUFFICES ASSUME NEW i \in DOMAIN caches'[j]
               PROVE  /\ InTurn(caches[j][i].layout, j)'
                      /\ \A x \in Elements(ItemsOfJob(j, caches'[j][i].tree)) :
                            Fresh(caches[j][i].layout, x, caches[j][i].tree)'
    OBVIOUS
  <2>2. PICK L : L = caches[j][i].layout
    OBVIOUS
  <2>3. PICK t : t = caches[j][i].tree
    OBVIOUS
  <2>4. InTurn(L, j)' /\ \A x \in Elements(ItemsOfJob(j, t)) : Fresh(L, x, t)'
    BY <1>4, <1>6, <2>1, <2>2, <2>3
  <2>5. L = caches'[j][i].layout /\ t = caches'[j][i].tree
    BY <1>6, <2>2, <2>3
  <2> QED
    BY <1>5, <2>4, <2>5
<1>7. ASSUME NEW r \in Runs, BuildLayout(r, j),
             \A i \in DOMAIN caches[j] : caches[j][i].tree # TreeOfRun(r),
             caches'[j] = Append(caches[j], EntryFor(r, j))
      PROVE  \A i \in DOMAIN caches'[j] :
                /\ InTurn(caches[j][i].layout, j)'
                /\ \A x \in Elements(ItemsOfJob(j, caches'[j][i].tree)) :
                      Fresh(caches[j][i].layout, x, caches[j][i].tree)'
  <2>1. /\ DOMAIN caches'[j] = 1..(Len(caches[j]) + 1)
        /\ DOMAIN caches[j] = 1..Len(caches[j]) /\ Len(caches[j]) \in Nat
        /\ \A i \in DOMAIN caches[j] : caches'[j][i] = caches[j][i]
        /\ caches'[j][Len(caches[j]) + 1] = EntryFor(r, j)
    BY <1>2, <1>7, Appended
  <2>2. CacheGrows(j)
    <3> DEFINE n == Len(caches[j])
    <3>1. n \in Nat /\ DOMAIN caches'[j] = 1..(n + 1) /\ DOMAIN caches[j] = 1..n
      BY <2>1
    <3> HIDE DEF n
    <3>2. DOMAIN caches[j] \subseteq DOMAIN caches'[j]
      BY <3>1
    <3> QED
      BY <2>1, <3>2 DEF CacheGrows
  <2>3. PICK t : t = TreeOfRun(r)
    OBVIOUS
  <2>4. PICK L : L = AfterJob(r, j)
    OBVIOUS
  <2>5. EntryFor(r, j).tree = t /\ EntryFor(r, j).layout = L
    BY <2>3, <2>4 DEF EntryFor
  <2>6. run[r].phase \notin Over /\ r \in Active /\ main' = main
    BY <1>0, <1>7, BuildLayoutEffect DEF Active, Over
  <2>7. \A x \in Elements(ItemsOfJob(j, t)) : Fresh(L, x, t)'
    <3>1. \A x \in Elements(ItemsOfJob(j, t)) : Fresh(L, x, t)
      BY <1>1, <2>3, <2>4, <2>6, AfterIsFresh
    <3> QED
      BY <1>1, <3>1, FreshKept
  <2>8. PICK n : n = Len(main)
    OBVIOUS
  <2>9. n \in DOMAIN main /\ n \in Nat /\ DOMAIN main = 1..n /\ main[n].tree = t
    <3>1. run[r].base = Len(main)
      BY <1>1, <2>6 DEF AloneInv
    <3> QED
      BY <1>0, <2>3, <2>8, <3>1, MainHead DEF TreeOfRun
  <2>10. IsSaved(j, n)'
    <3> DEFINE m == Len(caches[j])
    <3>1. m \in Nat /\ DOMAIN caches'[j] = 1..(m + 1) /\ caches'[j][m + 1].tree = t
      BY <2>1, <2>5
    <3> HIDE DEF m
    <3>2. m + 1 \in 1..(m + 1)
      BY <3>1
    <3>3. main'[n].tree = t
      BY <2>6, <2>9
    <3> QED
      BY <3>1, <3>2, <3>3 DEF IsSaved
  <2>11. PICK old : old = Restored(j, TreeOfRun(r))
    OBVIOUS
  <2>12. PICK new : new = ImagesFor(r, j)
    OBVIOUS
  <2>13. /\ Len(old) \in Nat /\ DOMAIN old = 1..Len(old)
         /\ Len(new) \in Nat /\ DOMAIN new = 1..Len(new)
         /\ DOMAIN L = 1..(Len(old) + Len(new))
         /\ \A i \in DOMAIN old : L[i] = old[i]
         /\ \A i \in DOMAIN new : L[Len(old) + i] = new[i]
         /\ \A i \in DOMAIN L : i \in DOMAIN old \/ i - Len(old) \in DOMAIN new
    BY <2>4, <2>6, <2>11, <2>12, AfterJobIs
  <2>14. InTurn(old, j)'
    <3>1. InTurn(old, j)
      <4>1. CASE \E i \in DOMAIN caches[j] : old = caches[j][i].layout
        BY <1>1, <4>1 DEF SavedInv
      <4>2. CASE old = <<>>
        BY <4>2, EmptyLayout DEF InTurn
      <4> QED
        BY <1>0, <2>11, <4>1, <4>2, RestoredIsSaved
    <3> QED
      BY <1>1, <2>2, <3>1, InTurnKept
  <2>15. ASSUME NEW k \in DOMAIN new PROVE PushedAt(new[k], j, n)'
    <3>1. PICK x \in Elements(ItemsOfJob(j, t)) : new[k] = Image(x, t, Len(made) + k)
      BY <2>3, <2>6, <2>12, ImagesAreOf
    <3>2. /\ new[k].name = ImageName(x) /\ new[k].key = BundleKey(x)
          /\ new[k].spec = ComputeSpecHash(x, Trees[t])
      BY <3>1 DEF Image
    <3>3. main'[n].tree = t
      BY <2>6, <2>9
    <3> QED
      BY <3>2, <3>3 DEF PushedAt, TreeAt
  <2>16. ASSUME NEW k \in DOMAIN L, k \notin DOMAIN old PROVE PushedAt(L[k], j, n)'
    <3>1. k - Len(old) \in DOMAIN new /\ k = Len(old) + (k - Len(old))
      BY <2>13, <2>16
    <3>2. L[k] = new[k - Len(old)]
      BY <2>13, <3>1
    <3> QED
      BY <2>15, <3>1, <3>2
  <2>17. ASSUME NEW i \in DOMAIN old
         PROVE  \E c \in DOMAIN main' : c <= n /\ PushedAt(L[i], j, c)' /\ IsSaved(j, c)'
    <3>1. i <= i
      BY <2>13
    <3>2. PICK c \in DOMAIN main' : PushedAt(old[i], j, c)' /\ IsSaved(j, c)'
      BY <2>14, <3>1 DEF InTurn
    <3>3. c <= n
      BY <2>6, <2>9, <3>2
    <3> QED
      BY <2>13, <3>2, <3>3
  <2>18. InTurn(L, j)'
    <3> SUFFICES ASSUME NEW i \in DOMAIN L, NEW k \in DOMAIN L, i <= k
                 PROVE  \E c, d \in DOMAIN main' :
                           /\ c <= d /\ PushedAt(L[i], j, c)' /\ PushedAt(L[k], j, d)'
                           /\ IsSaved(j, c)' /\ IsSaved(j, d)'
      BY DEF InTurn
    <3>1. CASE i \in DOMAIN old /\ k \in DOMAIN old
      <4>1. L[i] = old[i] /\ L[k] = old[k]
        BY <2>13, <3>1
      <4> QED
        BY <2>14, <3>1, <4>1 DEF InTurn
    <3>2. CASE i \in DOMAIN old /\ k \notin DOMAIN old
      BY <2>6, <2>9, <2>10, <2>16, <2>17, <3>2
    <3>3. CASE i \notin DOMAIN old
      <4>1. k \notin DOMAIN old
        BY <2>13, <3>3
      <4> QED
        BY <2>6, <2>9, <2>10, <2>16, <3>3, <4>1
    <3> QED
      BY <3>1, <3>2, <3>3
  <2> SUFFICES ASSUME NEW i \in DOMAIN caches'[j]
               PROVE  /\ InTurn(caches[j][i].layout, j)'
                      /\ \A x \in Elements(ItemsOfJob(j, caches'[j][i].tree)) :
                            Fresh(caches[j][i].layout, x, caches[j][i].tree)'
    OBVIOUS
  <2>19. PICK M : M = caches'[j][i].layout
    OBVIOUS
  <2>20. PICK u : u = caches'[j][i].tree
    OBVIOUS
  <2>21. CASE i \in DOMAIN caches[j]
    <3>1. M = caches[j][i].layout /\ u = caches[j][i].tree
      BY <2>1, <2>19, <2>20, <2>21
    <3>2. InTurn(M, j)' /\ \A x \in Elements(ItemsOfJob(j, u)) : Fresh(M, x, u)'
      BY <1>4, <2>2, <2>21, <3>1
    <3> QED
      BY <1>5, <2>19, <2>20, <3>2
  <2>22. CASE i \notin DOMAIN caches[j]
    <3> DEFINE m == Len(caches[j])
    <3>1. m \in Nat /\ DOMAIN caches'[j] = 1..(m + 1) /\ DOMAIN caches[j] = 1..m
          /\ caches'[j][m + 1] = EntryFor(r, j)
      BY <2>1
    <3> HIDE DEF m
    <3>2. i = m + 1
      BY <2>22, <3>1
    <3>3. M = L /\ u = t
      BY <2>5, <2>19, <2>20, <3>1, <3>2
    <3> QED
      BY <1>5, <2>7, <2>18, <2>19, <2>20, <3>3
  <2> QED
    BY <2>21, <2>22
<1> QED
  BY <1>3, <1>6, <1>7

LEMMA RacedStays ==
  ASSUME GcInv, Next, ~swept'.raced
  PROVE  ~swept.raced
<1>1. swept \in [sweeps : Nat, raced : BOOLEAN, stale : BOOLEAN]
  BY GcInvParts
<1>2. ASSUME NEW b, swept' = [swept EXCEPT !.raced = swept.raced \/ b]
      PROVE  ~swept.raced
  BY <1>1, <1>2
<1>3. CASE Publishes
  <2> DEFINE b == sweep.phase # "idle" /\ Active' # {}
  <2>1. swept' = [swept EXCEPT !.raced = swept.raced \/ b]
    BY <1>3 DEF Publishes
  <2> HIDE DEF b
  <2>2. swept'.raced = (swept.raced \/ b)
    BY <1>1, <2>1
  <2> QED
    BY <2>2
<1>4. ASSUME NEW clone \in DOMAIN main, BeginSweep(clone) PROVE ~swept.raced
  BY <1>4 DEF BeginSweep
<1>5. CASE Release \/ Sweep \/ TimePasses
  BY <1>5 DEF Release, Sweep, ListPackageVersions, DeletePackageVersion, EndSweep, TimePasses, gcVars
<1> QED
  BY <1>3, <1>4, <1>5 DEF Next

\* What has to hold after a step of a run that goes on alone.
LEMMA KeepsOn ==
  ASSUME NEW r \in Runs, NEW t, t = main'[run'[r].base].tree, NEW Q, Q = run'[r].todo,
         NEW phase, phase = run'[r].phase, NEW lock, lock = run'[r].lock,
         phase = "pipeline" =>
            \A j \in DOMAIN Jobs : j <= Len(run'[r].layouts) =>
               \A x \in Elements(ItemsOfJob(j, t)) : Fresh(Q, x, t)',
         phase = "promote" =>
            \A x \in BuiltCells(t) :
               \/ Fresh(Q, x, t)'
               \/ TagIsFresh(x, t)' /\ \A i \in DOMAIN Q : Q[i].key # BundleKey(x),
         phase \in {"pipeline", "promote"} => DOMAIN lock = {},
         phase \in {"resolve", "commit"} =>
            \A x \in BuiltCells(t) :
               /\ TagIsFresh(x, t)'
               /\ x \in Elements(Q) \/ BundleKey(x) \in DOMAIN lock \/ run'[r].missed
               /\ BundleKey(x) \in DOMAIN lock =>
                     lock[BundleKey(x)].digest = registry'.tags[TagOf(x)]
  PROVE  Keeping(r)'
  BY DEF Keeping

LEMMA TagKept ==
  ASSUME Grown, NEW x, NEW t, TagIsFresh(x, t), TagOf(x) \in DOMAIN registry'.tags,
         registry'.tags[TagOf(x)] = registry.tags[TagOf(x)],
         registry.tags[TagOf(x)] \in DOMAIN made
  PROVE  TagIsFresh(x, t)'
<1>1. CameBack(x, t) => CameBack(x, t)'
  BY CameBackKept
<1>2. LET d == registry.tags[TagOf(x)] IN made'[d] = made[d]
  BY DEF Grown
<1> QED
  BY <1>1, <1>2 DEF TagIsFresh

LEMMA KeepingKept ==
  ASSUME Grown, RunsInv, TypeInv, NEW r \in Runs, run[r].phase \notin Over,
         run'[r] = run[r], registry' = registry, Keeping(r)
  PROVE  Keeping(r)'
<1>1. PICK t : t = main[run[r].base].tree
  OBVIOUS
<1>2. t = main'[run'[r].base].tree
  BY <1>1 DEF TypeInv, RunOk, Grown
<1>3. PICK Q : Q = run[r].todo
  OBVIOUS
<1>4. \A x : Fresh(Q, x, t) => Fresh(Q, x, t)'
  BY FreshKept
<1>5. \A x : TagIsFresh(x, t) => TagIsFresh(x, t)'
  BY TagKept DEF TypeInv, RunsInv, TagIsFresh
<1> QED
  BY <1>1, <1>2, <1>3, <1>4, <1>5 DEF Keeping

LEMMA StartKeeps ==
  ASSUME MainShape, RunsInv, TypeInv, Next, NEW r \in Runs,
         (\E t \in DOMAIN Trees : Merge(r, t)) \/ Dispatch(r)
  PROVE  Keeping(r)'
<1>1. run'[r].phase = "pipeline" /\ run'[r].layouts = <<>> /\ run'[r].lock = <<>>
  BY Starts
<1>2. \A j \in DOMAIN Jobs : ~(j <= Len(run'[r].layouts))
  <2>1. PICK S : Jobs \in Seq(S)
    BY PublishAssumption
  <2>2. Len(<<>>) = 0
    OBVIOUS
  <2>3. \A j \in DOMAIN Jobs : j \in Nat /\ j # 0
    BY <2>1
  <2> QED
    BY <1>1, <2>2, <2>3
<1>3. DOMAIN run'[r].lock = {}
  BY <1>1, EmptyLayout
<1> QED
  BY <1>1, <1>2, <1>3 DEF Keeping

\* A layout is promoted after those before it.
LEMMA FreshAppended ==
  ASSUME NEW S, NEW Q \in Seq(S), NEW T, NEW L \in Seq(T), NEW x, NEW t,
         \/ Fresh(L, x, t)
         \/ Fresh(Q, x, t) /\ \A i \in DOMAIN L : L[i].key # BundleKey(x)
  PROVE  Fresh(Q \o L, x, t)
<1> DEFINE K == BundleKey(x)
           G(m) == CameBack(x, t) \/ m.spec = ComputeSpecHash(x, Trees[t])
           W == Q \o L
<1>1. /\ Len(Q) \in Nat /\ Len(L) \in Nat
      /\ DOMAIN Q = 1..Len(Q) /\ DOMAIN L = 1..Len(L)
  BY Concatenated
<1>2. \A i \in DOMAIN Q : i \in DOMAIN W /\ W[i] = Q[i]
  BY Concatenated
<1>3. \A i \in DOMAIN L : Len(Q) + i \in DOMAIN W /\ W[Len(Q) + i] = L[i]
  BY Concatenated
<1>4. \A i \in DOMAIN W : i \in DOMAIN Q \/ \E k \in DOMAIN L : i = Len(Q) + k
  BY Concatenated
<1>5. \A M : Fresh(M, x, t) <=> /\ \E i \in DOMAIN M : M[i].key = K
                                /\ \A i \in DOMAIN M : LastOfKey(M, K, i) => G(M[i])
  BY DEF Fresh
<1> HIDE DEF K, G, W
<1>6. CASE Fresh(L, x, t)
  <2>1. PICK h \in DOMAIN L : L[h].key = K
    BY <1>5, <1>6
  <2>2. Len(Q) + h \in DOMAIN W /\ W[Len(Q) + h].key = K
    BY <1>3, <2>1
  <2>3. ASSUME NEW i \in DOMAIN W, LastOfKey(W, K, i) PROVE G(W[i])
    <3>1. Len(Q) + h <= i
      BY <2>2, <2>3 DEF LastOfKey
    <3>2. i \notin DOMAIN Q
      BY <1>1, <3>1
    <3>3. PICK k \in DOMAIN L : i = Len(Q) + k
      BY <1>4, <3>2
    <3>4. W[i] = L[k] /\ L[k].key = K
      BY <1>3, <2>3, <3>3 DEF LastOfKey
    <3>5. ASSUME NEW n \in DOMAIN L, L[n].key = K PROVE n <= k
      <4>1. Len(Q) + n <= i
        BY <1>3, <2>3, <3>5 DEF LastOfKey
      <4> QED
        BY <1>1, <3>3, <4>1
    <3>6. LastOfKey(L, K, k)
      BY <3>4, <3>5 DEF LastOfKey
    <3> QED
      BY <1>5, <1>6, <3>4, <3>6
  <2> QED
    BY <1>5, <2>2, <2>3 DEF W
<1>7. CASE Fresh(Q, x, t) /\ \A i \in DOMAIN L : L[i].key # K
  <2>1. PICK h \in DOMAIN Q : Q[h].key = K
    BY <1>5, <1>7
  <2>2. h \in DOMAIN W /\ W[h].key = K
    BY <1>2, <2>1
  <2>3. ASSUME NEW i \in DOMAIN W, LastOfKey(W, K, i) PROVE G(W[i])
    <3>1. i \in DOMAIN Q
      BY <1>3, <1>4, <1>7, <2>3 DEF LastOfKey
    <3>2. LastOfKey(Q, K, i)
      BY <1>2, <2>3, <3>1 DEF LastOfKey
    <3> QED
      BY <1>2, <1>5, <1>7, <3>1, <3>2
  <2> QED
    BY <1>5, <2>2, <2>3 DEF W
<1> QED
  BY <1>6, <1>7 DEF K

LEMMA BuildKeeps ==
  ASSUME GcInv, TypeInv, SavedInv, ~past.overlap, past.evicted = 0, Next,
         NEW r \in Runs, Keeping(r), NEW j \in DOMAIN Jobs, BuildLayout(r, j)
  PROVE  Keeping(r)'
<1>0. MainShape /\ RunsInv /\ CachesInv
  BY GcInvParts DEF TypeInv
<1>1. PICK t : t = TreeOfRun(r)
  OBVIOUS
<1>2. PICK L : L = AfterJob(r, j)
  OBVIOUS
<1>3. PICK Q : Q = run[r].todo
  OBVIOUS
<1>4. /\ run[r].phase = "pipeline" /\ j = Len(run[r].layouts) + 1
      /\ run'[r].phase = (IF j = Len(Jobs) THEN "promote" ELSE "pipeline")
      /\ run'[r].layouts = Append(run[r].layouts, L)
      /\ run'[r].base = run[r].base /\ run'[r].lock = run[r].lock
      /\ main' = main
  BY <1>0, <1>2, BuildLayoutEffect
<1>5. run'[r].todo = Q \o L
  <2>1. run'[r].todo = run[r].todo \o ListKeyed(AfterJob(r, j))
    BY <1>0, BuildLayoutEffect
  <2>2. ListKeyed(L) = L
    BY <1>0, <1>2, AfterIsLayout
  <2> QED
    BY <1>2, <1>3, <2>1, <2>2
<1>6. t = main'[run'[r].base].tree /\ t \in DOMAIN Trees /\ run[r].phase \notin Over
  BY <1>1, <1>4, RunTree DEF TreeOfRun, Over
<1>7. Grown
  BY <1>0, NextGrows
<1>8. IsLayout(L, j)'
  BY <1>0, <1>2, AfterIsLayout
<1>9. PICK T : L \in Seq(T)
  BY <1>8 DEF IsLayout
<1>10. PICK S : Q \in Seq(S)
  BY <1>3, <1>4 DEF TypeInv, RunOk, IsQueue
<1>11. \A x \in Elements(ItemsOfJob(j, t)) : Fresh(L, x, t)
  BY <1>1, <1>2, <1>6, AfterIsFresh
<1>12. ASSUME NEW k \in DOMAIN Jobs, k <= j, NEW x \in Elements(ItemsOfJob(k, t))
       PROVE  Fresh(Q \o L, x, t)'
  <2>1. x \in AllCells(Trees[t].catalog)
    BY <1>6, JobItems
  <2>2. CASE \E i \in DOMAIN L : L[i].key = BundleKey(x)
    <3>1. PICK i \in DOMAIN L : L[i].key = BundleKey(x)
      BY <2>2
    <3>2. PICK c \in DOMAIN main' : PushedAt(L[i], j, c)'
      BY <1>8 DEF IsLayout, IsManifest
    <3>3. c \in DOMAIN main /\ PushedAt(L[i], j, c)
      BY <1>4, <3>2 DEF PushedAt, TreeAt
    <3>4. x \in Elements(ItemsOfJob(j, main[c].tree))
      BY <1>6, <2>1, <3>1, <3>3, KeyOfPushed
    <3>5. main[c].tree \in DOMAIN Trees
      BY <3>3 DEF TypeInv
    <3>6. x \in Elements(ItemsOfJob(j, t))
      BY <1>6, <3>4, <3>5, SharedItem
    <3>7. Fresh(Q \o L, x, t)
      BY <1>9, <1>10, <1>11, <3>6, FreshAppended
    <3> QED
      BY <1>7, <3>7, FreshKept
  <2>3. CASE \A i \in DOMAIN L : L[i].key # BundleKey(x)
    <3>1. k # j
      BY <1>11, <2>3 DEF Fresh
    <3>2. k <= Len(run[r].layouts)
      <4>1. k \in Int /\ Len(run[r].layouts) \in Int
        <5>1. PICK U : run[r].layouts \in Seq(U)
          BY <1>4 DEF TypeInv, RunOk
        <5>2. PICK V : Jobs \in Seq(V)
          BY PublishAssumption
        <5> QED
          BY <5>1, <5>2
      <4> DEFINE n == Len(run[r].layouts)
      <4>2. n \in Int /\ j = n + 1
        BY <1>4, <4>1
      <4> HIDE DEF n
      <4>3. k <= n
        BY <1>12, <3>1, <4>1, <4>2
      <4> QED
        BY <4>3 DEF n
    <3>3. Fresh(Q, x, t)
      BY <1>1, <1>3, <1>4, <3>2 DEF Keeping, TreeOfRun
    <3>4. Fresh(Q \o L, x, t)
      BY <1>9, <1>10, <2>3, <3>3, FreshAppended
    <3> QED
      BY <1>7, <3>4, FreshKept
  <2> QED
    BY <2>2, <2>3
<1>13. Len(run'[r].layouts) = j
  <2>1. PICK U : run[r].layouts \in Seq(U)
    BY <1>4 DEF TypeInv, RunOk
  <2> QED
    BY <1>4, <2>1, Appended
<1>14. DOMAIN run'[r].lock = {}
  BY <1>4 DEF Keeping
<1>15. run'[r].phase = "promote" => \A x \in BuiltCells(t) : Fresh(Q \o L, x, t)'
  <2>1. run'[r].phase = "promote" => \A k \in DOMAIN Jobs : k <= j
    <3>1. PICK V : Jobs \in Seq(V)
      BY PublishAssumption
    <3>2. \A k \in DOMAIN Jobs : k <= Len(Jobs)
      BY <3>1
    <3> QED
      BY <1>4, <3>2
  <2> QED
    BY <1>12, <2>1 DEF BuiltCells
<1>16. run'[r].phase \in {"pipeline", "promote"}
  BY <1>4
<1>17. PICK W : W = Q \o L
  OBVIOUS
<1>18. /\ W = run'[r].todo
       /\ run'[r].phase = "pipeline" =>
             \A k \in DOMAIN Jobs : k <= Len(run'[r].layouts) =>
                \A x \in Elements(ItemsOfJob(k, t)) : Fresh(W, x, t)'
       /\ run'[r].phase = "promote" => \A x \in BuiltCells(t) : Fresh(W, x, t)'
  BY <1>5, <1>12, <1>13, <1>15, <1>17
<1>19. CASE run'[r].phase = "pipeline"
  BY <1>6, <1>14, <1>18, <1>19, KeepsOn
<1>20. CASE run'[r].phase = "promote"
  <2>1. \A x \in BuiltCells(t) :
           \/ Fresh(W, x, t)'
           \/ TagIsFresh(x, t)' /\ \A i \in DOMAIN W : W[i].key # BundleKey(x)
    BY <1>18, <1>20
  <2>2. W = run'[r].todo /\ t = main'[run'[r].base].tree
    BY <1>6, <1>18
  <2>3. PICK lock : lock = run'[r].lock
    OBVIOUS
  <2>4. DOMAIN lock = {}
    BY <1>14, <2>3
  <2>5. "promote" = run'[r].phase
    BY <1>20
  <2> QED
    BY <2>1, <2>2, <2>3, <2>4, <2>5 DEF Keeping
<1> QED
  BY <1>16, <1>19, <1>20

LEMMA PromoteKeeps ==
  ASSUME GcInv, TypeInv, Next, NEW r \in Runs, Keeping(r), PromoteOne(r)
  PROVE  Keeping(r)'
<1>0. MainShape /\ RunsInv
  BY GcInvParts
<1>1. PICK t : t = TreeOfRun(r)
  OBVIOUS
<1>2. PICK Q : Q = run[r].todo
  OBVIOUS
<1>3. PICK m : m = Q[1]
  OBVIOUS
<1>4. PICK tag : tag = CanonicalRefFromBundleKey(m.key)
  OBVIOUS
<1>5. /\ run[r].phase = "promote"
      /\ registry'.tags = [u \in DOMAIN registry.tags \union {tag} |->
                             IF u = tag THEN m.digest ELSE registry.tags[u]]
      /\ IF Len(Q) > 1
         THEN run'[r].phase = "promote" /\ run'[r].todo = Tail(Q)
         ELSE /\ run'[r].phase = "resolve"
              /\ run'[r].todo = InOrder(AllCells(TreeAt(run[r].base).catalog))
      /\ run'[r].base = run[r].base /\ run'[r].lock = run[r].lock
      /\ main' = main /\ made' = made
  BY <1>0, <1>2, <1>3, <1>4, PromoteOneEffect
<1>6. /\ t = main'[run'[r].base].tree /\ t \in DOMAIN Trees /\ run[r].phase \notin Over
      /\ TreeAt(run[r].base) = Trees[t]
  BY <1>1, <1>5, RunTree DEF TreeOfRun, Over
<1>7. Grown
  BY <1>0, NextGrows
<1>8. Q # <<>> /\ \E S : Q \in Seq(S)
  BY <1>2, <1>5 DEF TypeInv, RunOk, IsQueue
<1>9. /\ 1 \in DOMAIN Q
      /\ ~(Len(Q) > 1) => DOMAIN Tail(Q) = {}
      /\ \A i \in DOMAIN Tail(Q) : i + 1 \in DOMAIN Q /\ Tail(Q)[i] = Q[i + 1]
      /\ \A i \in DOMAIN Q : i = 1 \/ (i - 1 \in DOMAIN Tail(Q) /\ Tail(Q)[i - 1] = Q[i])
      /\ DOMAIN Q \subseteq Nat /\ DOMAIN Tail(Q) \subseteq Nat \ {0}
  <2>1. PICK S : Q \in Seq(S)
    BY <1>8
  <2>2. Tail(Q) \in Seq(S)
    BY <1>8, <2>1, TailPlaces
  <2>3. DOMAIN Q \subseteq Nat /\ DOMAIN Tail(Q) \subseteq Nat \ {0}
    BY <2>1, <2>2
  <2>4. 1 \in DOMAIN Q /\ (~(Len(Q) > 1) => DOMAIN Tail(Q) = {})
    BY <1>8, <2>1, TailPlaces, EmptyLayout
  <2>5. /\ \A i \in DOMAIN Tail(Q) : i + 1 \in DOMAIN Q /\ Tail(Q)[i] = Q[i + 1]
        /\ \A i \in DOMAIN Q : i = 1 \/ (i - 1 \in DOMAIN Tail(Q) /\ Tail(Q)[i - 1] = Q[i])
    BY <1>8, <2>1, TailPlaces
  <2> QED
    BY <2>3, <2>4, <2>5
<1>10. PICK k \in DOMAIN Jobs : IsManifest(m, k)
  BY <1>0, <1>2, <1>3, PromoteRunOk
<1>11. PICK c \in DOMAIN main : PushedAt(m, k, c)
  BY <1>10 DEF IsManifest
<1>12. PICK y \in Elements(ItemsOfJob(k, main[c].tree)) : m.key = BundleKey(y)
  BY <1>11 DEF PushedAt
<1>13. tag = TagOf(y)
  BY <1>4, <1>12, TagOfKey
<1>14. ASSUME NEW x \in BuiltCells(t)
       PROVE  \/ Fresh(Tail(Q), x, t)'
              \/ TagIsFresh(x, t)' /\ \A i \in DOMAIN Tail(Q) : Tail(Q)[i].key # BundleKey(x)
  <2> DEFINE K == BundleKey(x)
             W == Tail(Q)
  <2>1. x \in AllCells(Trees[t].catalog) /\ IsCatalog(Trees[t].catalog)
    BY <1>6, JobItems DEF BuiltCells
  <2>2. \/ Fresh(Q, x, t)
        \/ TagIsFresh(x, t) /\ \A i \in DOMAIN Q : Q[i].key # K
    BY <1>1, <1>2, <1>5 DEF Keeping, TreeOfRun
  <2>3. CASE Fresh(Q, x, t) /\ \E i \in DOMAIN W : W[i].key = K
    <3> HIDE DEF W, K
    <3>1. PICK h \in DOMAIN W : W[h].key = K
      BY <2>3
    <3>2. ASSUME NEW i \in DOMAIN W, LastOfKey(W, K, i)
          PROVE  LastOfKey(Q, K, i + 1) /\ i + 1 \in DOMAIN Q /\ W[i] = Q[i + 1]
      <4>1. i + 1 \in DOMAIN Q /\ W[i] = Q[i + 1] /\ Q[i + 1].key = K
        BY <1>9, <3>2 DEF LastOfKey, W
      <4>2. ASSUME NEW n \in DOMAIN Q, Q[n].key = K PROVE n <= i + 1
        <5>1. n = 1 \/ (n - 1 \in DOMAIN W /\ W[n - 1] = Q[n])
          BY <1>9 DEF W
        <5>2. i \in Nat \ {0} /\ n \in Nat
          BY <1>9 DEF W
        <5>3. CASE n = 1
          BY <5>2, <5>3
        <5>4. CASE n - 1 \in DOMAIN W /\ W[n - 1] = Q[n]
          <6>1. n - 1 <= i
            BY <3>2, <4>2, <5>4 DEF LastOfKey
          <6> QED
            BY <5>2, <6>1
        <5> QED
          BY <5>1, <5>3, <5>4
      <4> QED
        BY <4>1, <4>2 DEF LastOfKey
    <3>3. Fresh(W, x, t)
      BY <2>3, <3>1, <3>2 DEF Fresh, K
    <3> QED
      BY <1>7, <3>3, FreshKept DEF W
  <2>4. CASE Fresh(Q, x, t) /\ \A i \in DOMAIN W : W[i].key # K
    <3> HIDE DEF W, K
    <3>1. \A i \in DOMAIN Q : Q[i].key = K => i = 1
      BY <1>9, <2>4 DEF W
    <3>2. m.key = K /\ LastOfKey(Q, K, 1)
      <4>1. PICK h \in DOMAIN Q : Q[h].key = K
        BY <2>4 DEF Fresh, K
      <4>2. h = 1
        BY <3>1, <4>1
      <4>3. 1 <= 1
        OBVIOUS
      <4> QED
        BY <1>3, <3>1, <4>1, <4>2, <4>3 DEF LastOfKey
    <3>3. CameBack(x, t) \/ m.spec = ComputeSpecHash(x, Trees[t])
      BY <1>3, <1>9, <2>4, <3>2 DEF Fresh, K
    <3>4. tag = TagOf(x)
      BY <1>4, <3>2, TagOfKey DEF K
    <3>5. TagOf(x) \in DOMAIN registry'.tags /\ registry'.tags[TagOf(x)] = m.digest
      BY <1>5, <3>4
    <3>6. made'[m.digest].key = K /\ made'[m.digest].spec = m.spec
      BY <1>5, <1>10, <3>2 DEF IsManifest, AsMade
    <3>7. CameBack(x, t) => CameBack(x, t)'
      BY <1>7, CameBackKept
    <3>8. TagIsFresh(x, t)'
      BY <3>3, <3>5, <3>6, <3>7 DEF TagIsFresh, K
    <3> QED
      BY <2>4, <3>8 DEF W, K
  <2>5. CASE TagIsFresh(x, t) /\ \A i \in DOMAIN Q : Q[i].key # K
    <3>1. m.key # K
      BY <1>3, <1>9, <2>5
    <3>2. tag # TagOf(x)
      <4>1. main[c].tree \in DOMAIN Trees
        BY DEF TypeInv
      <4>2. y \in AllCells(Trees[main[c].tree].catalog) /\ IsCatalog(Trees[main[c].tree].catalog)
        BY <4>1, JobItems
      <4>3. TagOf(y) = TagOf(x) => y = x
        BY <2>1, <4>2, TagNamesCell
      <4> QED
        BY <1>12, <1>13, <3>1, <4>3
    <3>3. /\ TagOf(x) \in DOMAIN registry.tags
          /\ TagOf(x) \in DOMAIN registry'.tags
          /\ registry'.tags[TagOf(x)] = registry.tags[TagOf(x)]
      <4>1. TagOf(x) \in DOMAIN registry.tags
        BY <2>5 DEF TagIsFresh
      <4> QED
        BY <1>5, <3>2, <4>1
    <3>4. registry.tags[TagOf(x)] \in DOMAIN made
      BY <1>0, <3>3 DEF TypeInv, RunsInv
    <3>5. TagIsFresh(x, t)'
      BY <1>7, <2>5, <3>3, <3>4, TagKept
    <3>6. \A i \in DOMAIN W : W[i].key # K
      <4> HIDE DEF K
      <4> QED
        BY <1>9, <2>5
    <3> QED
      BY <3>5, <3>6
  <2> QED
    BY <2>2, <2>3, <2>4, <2>5
<1>15. DOMAIN run'[r].lock = {}
  BY <1>5 DEF Keeping
<1>16. CASE Len(Q) > 1
  <2>1. run'[r].phase = "promote" /\ run'[r].todo = Tail(Q)
    BY <1>5, <1>16
  <2>2. PICK W : W = Tail(Q)
    OBVIOUS
  <2> QED
    BY <1>6, <1>14, <1>15, <2>1, <2>2, KeepsOn
<1>17. CASE ~(Len(Q) > 1)
  <2>1. PICK W : W = InOrder(AllCells(Trees[t].catalog))
    OBVIOUS
  <2>2. run'[r].phase = "resolve" /\ run'[r].todo = W
    BY <1>5, <1>6, <1>17, <2>1
  <2>3. ASSUME NEW x \in BuiltCells(t) PROVE TagIsFresh(x, t)'
    <3>1. ~Fresh(Tail(Q), x, t)'
      BY <1>9, <1>17 DEF Fresh
    <3> QED
      BY <1>14, <3>1
  <2>4. ASSUME NEW x \in BuiltCells(t) PROVE x \in Elements(W)
    <3>1. IsFiniteSet(AllCells(Trees[t].catalog))
      BY <1>6, PublishAssumption
    <3>2. x \in AllCells(Trees[t].catalog)
      BY <1>6, JobItems DEF BuiltCells
    <3> QED
      BY <2>1, <3>1, <3>2, ElementsInOrder
  <2>5. \A x \in BuiltCells(t) : BundleKey(x) \notin DOMAIN run'[r].lock
    BY <1>15
  <2> QED
    BY <1>6, <2>2, <2>3, <2>4, <2>5, KeepsOn
<1> QED
  BY <1>16, <1>17

LEMMA ResolveKeeps ==
  ASSUME GcInv, TypeInv, Next, NEW r \in Runs, Keeping(r), ResolveDigest(r)
  PROVE  Keeping(r)'
<1>0. MainShape /\ RunsInv
  BY GcInvParts
<1>1. PICK t : t = TreeOfRun(r)
  OBVIOUS
<1>2. PICK Q : Q = run[r].todo
  OBVIOUS
<1>3. PICK cell : cell = Q[1]
  OBVIOUS
<1>4. PICK lock : lock = run[r].lock
  OBVIOUS
<1>5. PICK next : next = run'[r].lock
  OBVIOUS
<1> DEFINE key == BundleKey(cell)
           found == TagOf(cell) \in DOMAIN registry.tags
<1>6. /\ run[r].phase = "resolve"
      /\ run'[r].phase = (IF Len(Q) = 1 THEN "commit" ELSE "resolve")
      /\ run'[r].todo = Tail(Q) /\ run'[r].base = run[r].base
      /\ \/ /\ found /\ run'[r].missed = run[r].missed
            /\ DOMAIN next = DOMAIN lock \union {key}
            /\ next[key].digest = registry.tags[TagOf(cell)]
            /\ \A k \in DOMAIN lock \ {key} : next[k] = lock[k]
         \/ next = lock /\ run'[r].missed = (run[r].missed \/ found)
      /\ main' = main /\ registry' = registry
  BY <1>0, <1>2, <1>3, <1>4, <1>5, ResolveDigestEffect
<1>7. /\ t = main'[run'[r].base].tree /\ t \in DOMAIN Trees /\ run[r].phase \notin Over
      /\ TreeAt(run[r].base) = Trees[t]
  BY <1>1, <1>6, RunTree DEF TreeOfRun, Over
<1>8. Grown
  BY <1>0, NextGrows
<1>9. Q # <<>> /\ Q \in Seq(AllCells(Trees[t].catalog))
  BY <1>2, <1>6, <1>7 DEF TypeInv, RunOk
<1>10. /\ cell \in AllCells(Trees[t].catalog)
       /\ \A x \in Elements(Q) : x = cell \/ x \in Elements(Tail(Q))
  <2> DEFINE C == AllCells(Trees[t].catalog)
  <2>1. Q \in Seq(C)
    BY <1>9
  <2> HIDE DEF C
  <2>2. Q[1] \in C /\ \A i \in DOMAIN Q : i = 1 \/ (i - 1 \in DOMAIN Tail(Q) /\ Tail(Q)[i - 1] = Q[i])
    BY <1>9, <2>1, TailPlaces
  <2>3. ASSUME NEW x \in Elements(Q) PROVE x = cell \/ x \in Elements(Tail(Q))
    <3>1. PICK i \in DOMAIN Q : x = Q[i]
      BY DEF Elements
    <3> QED
      BY <1>3, <2>2, <3>1 DEF Elements
  <2> QED
    BY <1>3, <2>2, <2>3 DEF C
<1>11. ASSUME NEW x \in BuiltCells(t)
       PROVE  /\ TagIsFresh(x, t)'
              /\ x \in Elements(Tail(Q)) \/ BundleKey(x) \in DOMAIN next \/ run'[r].missed
              /\ BundleKey(x) \in DOMAIN next =>
                    next[BundleKey(x)].digest = registry'.tags[TagOf(x)]
  <2> DEFINE K == BundleKey(x)
  <2>1. /\ TagIsFresh(x, t)
        /\ x \in Elements(Q) \/ K \in DOMAIN lock \/ run[r].missed
        /\ K \in DOMAIN lock => lock[K].digest = registry.tags[TagOf(x)]
    BY <1>1, <1>2, <1>4, <1>6 DEF Keeping, TreeOfRun
  <2>2. TagOf(x) \in DOMAIN registry.tags
    BY <2>1 DEF TagIsFresh
  <2>3. TagIsFresh(x, t)'
    <3>1. registry.tags[TagOf(x)] \in DOMAIN made
      BY <1>0, <2>2 DEF TypeInv, RunsInv
    <3> QED
      BY <1>6, <1>8, <2>1, <2>2, <3>1, TagKept
  <2>4. key = K => x = cell
    <3>1. x \in AllCells(Trees[t].catalog) /\ IsCatalog(Trees[t].catalog)
      BY <1>7, JobItems DEF BuiltCells
    <3> QED
      BY <1>10, <3>1, KeyNamesCell
  <2>5. CASE found
    <3>1. x = cell => K \in DOMAIN next \/ run'[r].missed
      BY <1>6, <2>5
    <3>2. K \in DOMAIN lock => K \in DOMAIN next
      BY <1>6
    <3>3. run[r].missed => run'[r].missed
      BY <1>6
    <3>4. K \in DOMAIN next => next[K].digest = registry.tags[TagOf(x)]
      <4>1. CASE K = key
        <5>1. x = cell
          BY <2>4, <4>1
        <5>2. CASE next = lock
          BY <2>1, <5>2
        <5>3. CASE next[key].digest = registry.tags[TagOf(cell)]
          BY <5>1, <5>3
        <5> QED
          BY <1>6, <5>2, <5>3
      <4>2. CASE K # key
        <5> HIDE DEF K, key
        <5> QED
          BY <1>6, <2>1, <4>2
      <4> QED
        BY <4>1, <4>2
    <3> QED
      BY <1>6, <1>10, <2>1, <2>3, <3>1, <3>2, <3>3, <3>4
  <2>6. CASE ~found
    <3>1. x # cell
      BY <2>2, <2>6
    <3>2. next = lock /\ (run[r].missed => run'[r].missed)
      BY <1>6, <2>6
    <3> QED
      BY <1>6, <1>10, <2>1, <2>3, <3>1, <3>2
  <2> QED
    BY <2>5, <2>6
<1>12. PICK W : W = Tail(Q)
  OBVIOUS
<1>13. /\ W = run'[r].todo /\ t = main'[run'[r].base].tree
       /\ run'[r].phase \in {"resolve", "commit"}
  BY <1>6, <1>7, <1>12
<1>14. \A x \in BuiltCells(t) :
          /\ TagIsFresh(x, t)'
          /\ x \in Elements(W) \/ BundleKey(x) \in DOMAIN next \/ run'[r].missed
          /\ BundleKey(x) \in DOMAIN next => next[BundleKey(x)].digest = registry'.tags[TagOf(x)]
  BY <1>11, <1>12
<1> QED
  BY <1>5, <1>13, <1>14 DEF Keeping

LEMMA KeepingStep ==
  ASSUME GcInv, TypeInv, AloneInv, SavedInv, KeepingInv, Next
  PROVE  KeepingInv'
<1>0. MainShape /\ RunsInv /\ SweepIsAlone
  BY GcInvParts
<1> SUFFICES ASSUME Quiet', NEW r \in Active'
             PROVE  Keeping(r)'
  BY DEF KeepingInv
<1>1. ~past'.overlap /\ ~swept'.raced /\ past'.evicted = 0 /\ r \in Runs
  BY DEF Quiet, Active
<1>2. ~past.overlap /\ ~swept.raced /\ past.evicted = 0 /\ Grown
  BY <1>0, <1>1, PastGrows, RacedStays, NextGrows
<1>3. \A q \in Active : Keeping(q)
  BY <1>2 DEF KeepingInv, Quiet
<1>4. \A q, p \in Active : q = p
  BY <1>2 DEF AloneInv
<1>5. ASSUME NEW q \in Runs, (\E t \in DOMAIN Trees : Merge(q, t)) \/ Dispatch(q)
      PROVE  Keeping(r)'
  <2>1. Active = {} /\ Others(q)
    BY <1>0, <1>1, <1>5, Starts
  <2>2. r = q
    BY <2>1 DEF Active, Others
  <2> QED
    BY <1>0, <1>5, <2>2, StartKeeps
<1>6. ASSUME NEW q \in Runs, Work(q) \/ Fail(q)
      PROVE  Keeping(r)'
  <2>1. CASE CommitLockfile(q) \/ Fail(q)
    <3>1. Others(q) /\ q \in Active /\ run'[q].phase \in Over
      BY <1>0, <2>1, EndsEffect DEF Active, Over
    <3>2. r # q
      BY <3>1 DEF Active
    <3>3. r \in Active
      BY <1>1, <3>1, <3>2 DEF Active, Others
    <3> QED
      BY <1>4, <3>1, <3>2, <3>3
  <2>2. ASSUME Others(q), q \in Active
        PROVE  r = q /\ Keeping(r)
    <3>1. r # q => r \in Active
      BY <1>1, <2>2 DEF Active, Others
    <3> QED
      BY <1>3, <1>4, <2>2, <3>1
  <2>3. ASSUME NEW j \in DOMAIN Jobs, BuildLayout(q, j) PROVE Keeping(r)'
    <3>1. Others(q) /\ q \in Active
      BY <1>0, <2>3, BuildLayoutEffect DEF Active, Over
    <3>2. r = q /\ Keeping(r)
      BY <2>2, <3>1
    <3> QED
      BY <1>2, <2>3, <3>2, BuildKeeps
  <2>4. CASE PromoteOne(q)
    <3>1. Others(q) /\ q \in Active
      BY <1>0, <2>4, PromoteOneEffect DEF Active, Over
    <3>2. r = q /\ Keeping(r)
      BY <2>2, <3>1
    <3> QED
      BY <2>4, <3>2, PromoteKeeps
  <2>5. CASE ResolveDigest(q)
    <3>1. Others(q) /\ q \in Active
      BY <1>0, <2>5, ResolveDigestEffect DEF Active, Over
    <3>2. r = q /\ Keeping(r)
      BY <2>2, <3>1
    <3> QED
      BY <2>5, <3>2, ResolveKeeps
  <2> QED
    BY <1>6, <2>1, <2>3, <2>4, <2>5 DEF Work
<1>7. CASE ~\E q \in Runs : \/ \E t \in DOMAIN Trees : Merge(q, t)
                            \/ Dispatch(q) \/ Work(q) \/ Fail(q)
  <2>1. run' = run
    BY <1>7, Frame
  <2>2. r \in Active
    BY <1>1, <2>1 DEF Active
  <2>3. registry' = registry
    <3>1. ~TimePasses
      BY <2>2 DEF TimePasses
    <3>2. sweep.candidates = {}
      BY <1>0, <1>2, <2>2 DEF SweepIsAlone
    <3>3. \A q \in Runs : ~PromoteOne(q)
      BY <1>7 DEF Work
    <3> QED
      BY <3>1, <3>2, <3>3, Frame
  <2>4. run[r].phase \notin Over /\ Keeping(r)
    BY <1>3, <2>2 DEF Active
  <2> QED
    BY <1>0, <1>1, <1>2, <2>1, <2>3, <2>4, KeepingKept
<1> QED
  BY <1>5, <1>6, <1>7

\* The inductive invariant behind LockDescribesTree.
DescribesInv == GcInv /\ TypeInv /\ AloneInv /\ SavedInv /\ KeepingInv

LEMMA DescribesStep ==
  ASSUME DescribesInv, [Next]_vars
  PROVE  DescribesInv'
<1>1. GcInv' /\ TypeInv'
  BY GcInvStep, TypeStep DEF DescribesInv
<1>2. CASE Next
  BY <1>1, <1>2, AloneStep, SavedStep, KeepingStep DEF DescribesInv
<1>3. CASE UNCHANGED vars
  <2>1. UNCHANGED <<main, made, registry, caches, run, past, sweep, swept>>
    BY <1>3 DEF vars, publishVars, gcVars
  <2>2. MainShape /\ RunsInv /\ TypeInv
    BY GcInvParts DEF DescribesInv
  <2>3. Grown /\ \A j : CacheGrows(j)
    BY <2>1 DEF Grown, CacheGrows
  <2>4. AloneInv'
    BY <2>1 DEF DescribesInv, AloneInv, Active
  <2>5. SavedInv'
    <3> SUFFICES ASSUME ~past.overlap, past.evicted = 0,
                        NEW j \in DOMAIN Jobs, NEW i \in DOMAIN caches[j]
                 PROVE  /\ InTurn(caches[j][i].layout, j)'
                        /\ \A x \in Elements(ItemsOfJob(j, caches[j][i].tree)) :
                              Fresh(caches[j][i].layout, x, caches[j][i].tree)'
      BY <2>1 DEF SavedInv
    <3>1. PICK L : L = caches[j][i].layout
      OBVIOUS
    <3>2. PICK t : t = caches[j][i].tree
      OBVIOUS
    <3>3. InTurn(L, j)' /\ \A x \in Elements(ItemsOfJob(j, t)) : Fresh(L, x, t)'
      BY <2>3, <3>1, <3>2, InTurnKept, FreshKept DEF DescribesInv, SavedInv
    <3> QED
      BY <2>1, <3>1, <3>2, <3>3
  <2>6. KeepingInv'
    <3> SUFFICES ASSUME Quiet', NEW r \in Active' PROVE Keeping(r)'
      BY DEF KeepingInv
    <3>1. r \in Runs /\ run[r].phase \notin Over /\ Keeping(r)
      BY <2>1 DEF DescribesInv, KeepingInv, Quiet, Active
    <3> QED
      BY <2>1, <2>2, <2>3, <3>1, KeepingKept
  <2> QED
    BY <1>1, <2>4, <2>5, <2>6 DEF DescribesInv
<1> QED
  BY <1>2, <1>3

\* What a run commits is the lockfile it has put together.
LEMMA CommitsOwnLock ==
  ASSUME GcInv, TypeInv, Next, NEW r \in Runs, Committed(r)
  PROVE  main'[Len(main')].lock = run[r].lock
<1>1. MainShape /\ RunsInv
  BY GcInvParts
<1>2. run[r].phase = "commit" /\ run'[r].phase = "done" /\ main' # main
  BY DEF Committed
<1>3. ASSUME NEW q \in Runs, NEW t \in DOMAIN Trees, Merge(q, t) PROVE FALSE
  <2>1. run[q].phase = "waiting" /\ Others(q)
    BY <1>1, <1>3, Starts
  <2> QED
    BY <1>2, <2>1 DEF Others
<1>4. ASSUME NEW q \in Runs, CommitLockfile(q) PROVE q = r
  <2>1. Others(q)
    BY <1>1, <1>4, EndsEffect
  <2> QED
    BY <1>2, <2>1 DEF Others
<1> DEFINE n == Len(main)
           x == main[n]
<1>5. /\ Len(main') = n + 1
      /\ main'[n + 1] = [x EXCEPT !.lock = run[r].lock, !.v1 = FALSE]
  BY <1>1, <1>2, <1>3, <1>4, CommitByCommit
<1>6. HasFields(x, {"tree", "lock", "v1"})
  BY <1>1, MainHead DEF MainShape
<1> HIDE DEF n, x
<1>7. main'[n + 1].lock = run[r].lock
  BY <1>5, <1>6 DEF HasFields
<1> QED
  BY <1>5, <1>7

\* What a run that goes on alone commits has, for every cell its pipeline builds, the
\* bundle that was built of that very tree, whatever the layouts held of other trees:
\* as long as no layout was dropped, no lookup failed and the cell's spec hash did not
\* come back without its tree (PushAll, lockfileupdate.Main).
THEOREM LockfileDescribes == Spec => LockDescribesTree
<1> DEFINE Described(r) ==
      LET t    == main[run[r].base].tree
          lock == main'[Len(main')].lock
      IN  \A c \in BuiltCells(t) :
             LET k == BundleKey(c) IN
             /\ k \in DOMAIN lock \/ run[r].missed
             /\ k \in DOMAIN lock => lock[k].digest = registry.tags[TagOf(c)]
             /\ k \in DOMAIN lock /\ ~CameBack(c, t) =>
                  /\ made[lock[k].digest].key = k
                  /\ made[lock[k].digest].spec = ComputeSpecHash(c, Trees[t])
<1>1. ASSUME DescribesInv, Next, NEW r \in Runs, Committed(r),
             ~past.overlap, ~swept.raced, past.evicted = 0
      PROVE  Described(r)
  <2>1. MainShape /\ RunsInv /\ TypeInv
    BY <1>1, GcInvParts DEF DescribesInv
  <2>2. run[r].phase = "commit" /\ run'[r].phase = "done" /\ main' # main
    BY <1>1 DEF Committed
  <2>3. Keeping(r)
    BY <1>1, <2>2 DEF DescribesInv, KeepingInv, Quiet, Active, Over
  <2>4. main'[Len(main')].lock = run[r].lock
    BY <1>1, CommitsOwnLock DEF DescribesInv
  <2>5. \A x : x \notin Elements(run[r].todo)
    BY <2>1, <2>2, EmptyLayout DEF TypeInv, RunOk, Elements
  <2> QED
    BY <2>2, <2>3, <2>4, <2>5 DEF Keeping, TagIsFresh
<1>2. DescribesInv /\ [Next]_vars =>
         [\A r \in Runs :
             Committed(r) /\ ~past.overlap /\ ~swept.raced /\ past.evicted = 0 =>
                Described(r)]_vars
  BY <1>1
<1>3. GcInit => DescribesInv
  BY GcInvInit, TypeInit, FirstAreSaved DEF DescribesInv
<1>4. DescribesInv /\ [Next]_vars => DescribesInv'
  BY DescribesStep
<1> QED
  BY <1>2, <1>3, <1>4, PTL DEF Spec, LockDescribesTree

-----------------------------------------------------------------------------
(* Runs that overlap. *)

\* The bundle of a cell of tree t.
BuiltOf(b, t) ==
    \E x \in BuiltCells(t) : b.key = BundleKey(x) /\ b.spec = ComputeSpecHash(x, Trees[t])

\* What is built is built of a tree that is on main. Whoever moves a tag, it names a bundle of its own key; and so do the entries that
\* a run takes from the tags.
HistoryInv ==
    /\ \A d \in DOMAIN made : \E c \in DOMAIN main : BuiltOf(made[d], main[c].tree)
    /\ \A t \in DOMAIN registry.tags : CanonicalRefFromBundleKey(made[registry.tags[t]].key) = t
    /\ \A r \in Runs : \A k \in DOMAIN run[r].lock : made[run[r].lock[k].digest].key = k

LEMMA HistoryInit == GcInit => HistoryInv
<1> SUFFICES ASSUME GcInit PROVE HistoryInv
  OBVIOUS
<1> DEFINE first == [tree |-> 1, lock |-> FirstLock, v1 |-> TRUE]
           at(t) == CHOOSE i \in DOMAIN FirstCells : TagOf(FirstCells[i]) = t
           tags == {TagOf(c) : c \in Elements(FirstCells)}
<1>1. /\ main = <<first>> /\ DOMAIN main = {1} /\ main[1].tree = 1
      /\ DOMAIN made = DOMAIN FirstCells
      /\ \A i \in DOMAIN FirstCells :
            /\ made[i].key = BundleKey(FirstCells[i])
            /\ made[i].spec = ComputeSpecHash(FirstCells[i], Trees[1])
  BY DEF GcInit, Init, Bundle
<1>2. ASSUME NEW d \in DOMAIN made PROVE \E c \in DOMAIN main : BuiltOf(made[d], main[c].tree)
  <2>1. FirstCells[d] \in BuiltCells(1)
    BY <1>1, FirstCellsAre DEF Elements
  <2> QED
    BY <1>1, <2>1 DEF BuiltOf
<1>3. ASSUME NEW t \in DOMAIN registry.tags
      PROVE  CanonicalRefFromBundleKey(made[registry.tags[t]].key) = t
  <2>1. registry.tags = [u \in tags |-> at(u)]
    BY DEF GcInit, Init
  <2>2. \E i \in DOMAIN FirstCells : TagOf(FirstCells[i]) = t
    BY <2>1 DEF Elements
  <2>3. at(t) \in DOMAIN FirstCells /\ TagOf(FirstCells[at(t)]) = t
    BY <2>2
  <2>4. t \in tags
    BY <2>1
  <2> HIDE DEF at, tags
  <2> QED
    BY <1>1, <2>1, <2>3, <2>4, TagOfKey
<1>4. \A r \in Runs : run[r].lock = <<>>
  BY DEF GcInit, Init, Waiting
<1> QED
  BY <1>2, <1>3, <1>4 DEF HistoryInv

\* A bundle is built for a key of the tree its run has checked out.
LEMMA MadeOfTrees ==
  ASSUME GcInv, TypeInv, HistoryInv, Next
  PROVE  \A d \in DOMAIN made' : \E c \in DOMAIN main' : BuiltOf(made'[d], main'[c].tree)
<1>0. MainShape /\ RunsInv /\ Grown
  BY GcInvParts, NextGrows
<1> DEFINE Of(d) == \E c \in DOMAIN main' : BuiltOf(made'[d], main'[c].tree)
<1>1. ASSUME NEW d \in DOMAIN made PROVE Of(d)
  <2>1. PICK c \in DOMAIN main : BuiltOf(made[d], main[c].tree)
    BY DEF HistoryInv
  <2>2. c \in DOMAIN main' /\ main'[c] = main[c] /\ made'[d] = made[d]
    BY <1>0 DEF Grown
  <2> QED
    BY <2>1, <2>2
<1>2. ASSUME NEW r \in Runs, NEW j \in DOMAIN Jobs, BuildLayout(r, j),
             NEW i \in DOMAIN BuiltFor(r, j), NEW d, d = Len(made) + i
      PROVE  Of(d)
  <2>1. run[r].phase \notin Over
    BY <1>2 DEF BuildLayout, Over
  <2>2. PICK t : t = TreeOfRun(r)
    OBVIOUS
  <2>3. PICK x : x = BuiltFor(r, j)[i]
    OBVIOUS
  <2>4. made'[d] = Bundle(x, t, RunnerOS[Jobs[j].os])
    BY <1>0, <1>2, <2>2, <2>3, JobMakes
  <2>5. x \in BuiltCells(t)
    BY <1>2, <2>1, <2>2, <2>3, ImagesAreOf DEF BuiltCells
  <2>6. run[r].base \in DOMAIN main /\ main[run[r].base].tree = t
    BY <2>1, <2>2, RunTree DEF TreeOfRun
  <2>7. made'[d].key = BundleKey(x) /\ made'[d].spec = ComputeSpecHash(x, Trees[t])
    BY <2>4 DEF Bundle
  <2>8. PICK c : c = run[r].base
    OBVIOUS
  <2>9. c \in DOMAIN main' /\ main'[c].tree = t
    BY <1>0, <2>6, <2>8 DEF Grown
  <2> QED
    BY <2>5, <2>7, <2>9 DEF BuiltOf
<1>3. ASSUME NEW r \in Runs, NEW j \in DOMAIN Jobs, BuildLayout(r, j), NEW d \in DOMAIN made'
      PROVE  Of(d)
  <2>1. d \in DOMAIN made \/ \E i \in DOMAIN BuiltFor(r, j) : d = Len(made) + i
    BY <1>0, <1>3, JobMakes
  <2> QED
    BY <1>1, <1>2, <1>3, <2>1
<1> QED
  BY <1>1, <1>3, Frame

\* Whatever is promoted, beside whichever other run, goes under the tag of its key;
\* a deletion takes tags and moves none.
LEMMA TagsKeepKeys ==
  ASSUME GcInv, TypeInv, HistoryInv, Next, NEW t \in DOMAIN registry'.tags
  PROVE  CanonicalRefFromBundleKey(made'[registry'.tags[t]].key) = t
<1>0. MainShape /\ RunsInv /\ Grown
  BY GcInvParts, NextGrows
<1>1. ASSUME t \in DOMAIN registry.tags, registry'.tags[t] = registry.tags[t]
      PROVE  CanonicalRefFromBundleKey(made'[registry'.tags[t]].key) = t
  <2>1. registry.tags[t] \in DOMAIN made
    BY <1>0, <1>1 DEF RunsInv, TypeInv
  <2> QED
    BY <1>0, <1>1, <2>1 DEF HistoryInv, Grown
<1>2. ASSUME NEW r \in Runs, PromoteOne(r)
      PROVE  CanonicalRefFromBundleKey(made'[registry'.tags[t]].key) = t
  <2>1. PICK m : m = run[r].todo[1]
    OBVIOUS
  <2>2. AsMade(m)
    BY <1>0, <1>2, <2>1, PromoteRunOk DEF IsManifest
  <2>3. PICK tag : tag = CanonicalRefFromBundleKey(m.key)
    OBVIOUS
  <2>4. registry'.tags = [u \in DOMAIN registry.tags \union {tag} |->
                            IF u = tag THEN m.digest ELSE registry.tags[u]]
    BY <1>0, <1>2, <2>1, <2>3, PromoteOneEffect
  <2>5. made'[m.digest].key = m.key
    BY <1>0, <2>2 DEF AsMade, Grown
  <2>6. CASE t = tag
    BY <2>3, <2>4, <2>5, <2>6
  <2>7. CASE t # tag
    BY <1>1, <2>4, <2>7
  <2> QED
    BY <2>6, <2>7
<1>3. ASSUME NEW d \in sweep.candidates, DeletePackageVersion(d)
      PROVE  t \in DOMAIN registry.tags /\ registry'.tags[t] = registry.tags[t]
  <2>1. \/ UNCHANGED registry
        \/ registry'.tags = [u \in {v \in DOMAIN registry.tags : registry.tags[v] # d}
                                |-> registry.tags[u]]
    BY <1>3 DEF DeletePackageVersion
  <2> QED
    BY <2>1
<1>4. ASSUME TimePasses
      PROVE  t \in DOMAIN registry.tags /\ registry'.tags[t] = registry.tags[t]
  <2>1. registry' = [registry EXCEPT !.old = registry.present]
    BY <1>4 DEF TimePasses
  <2> QED
    BY <1>0, <2>1 DEF RunsInv, HasFields
<1> QED
  BY <1>1, <1>2, <1>3, <1>4, Frame

\* A tag names one cell, so what a run finds under the tag of a cell has its key.
LEMMA EntriesKeepKeys ==
  ASSUME GcInv, TypeInv, HistoryInv, Next, NEW r \in Runs, NEW k \in DOMAIN run'[r].lock
  PROVE  made'[run'[r].lock[k].digest].key = k
<1>0. MainShape /\ RunsInv /\ Grown /\ RunOk(r)
  BY GcInvParts, NextGrows DEF TypeInv
<1>1. ASSUME k \in DOMAIN run[r].lock, run'[r].lock[k] = run[r].lock[k]
      PROVE  made'[run'[r].lock[k].digest].key = k
  <2>1. run[r].lock[k].digest \in DOMAIN made
    BY <1>0, <1>1 DEF RunOk, DigestsOf
  <2> QED
    BY <1>0, <1>1, <2>1 DEF HistoryInv, Grown
<1>2. ASSUME ResolveDigest(r) PROVE made'[run'[r].lock[k].digest].key = k
  <2>1. PICK x : x = run[r].todo[1]
    OBVIOUS
  <2>2. \/ run'[r].lock = run[r].lock
        \/ /\ TagOf(x) \in DOMAIN registry.tags
           /\ DOMAIN run'[r].lock = DOMAIN run[r].lock \union {BundleKey(x)}
           /\ run'[r].lock[BundleKey(x)].digest = registry.tags[TagOf(x)]
           /\ \A l \in DOMAIN run[r].lock \ {BundleKey(x)} : run'[r].lock[l] = run[r].lock[l]
    BY <1>0, <1>2, <2>1, ResolveDigestEffect
  <2>3. ASSUME TagOf(x) \in DOMAIN registry.tags, k = BundleKey(x),
               run'[r].lock[k].digest = registry.tags[TagOf(x)]
        PROVE  made'[run'[r].lock[k].digest].key = k
    <3>1. PICK d : d = registry.tags[TagOf(x)]
      OBVIOUS
    <3>2. d \in DOMAIN made /\ CanonicalRefFromBundleKey(made[d].key) = TagOf(x)
      BY <1>0, <2>3, <3>1 DEF RunsInv, TypeInv, HistoryInv
    <3>3. PICK c \in DOMAIN main : BuiltOf(made[d], main[c].tree)
      BY <3>2 DEF HistoryInv
    <3>4. PICK u : u = main[c].tree
      OBVIOUS
    <3>y. PICK y \in BuiltCells(u) : made[d].key = BundleKey(y)
      BY <3>3, <3>4 DEF BuiltOf
    <3>5. u \in DOMAIN Trees /\ IsCatalog(Trees[u].catalog)
      BY <1>0, <3>4, PublishAssumption DEF TypeInv, MainShape
    <3>6. y \in AllCells(Trees[u].catalog)
      BY <3>y, <3>5, JobItems DEF BuiltCells
    <3>7. PICK t \in DOMAIN Trees : /\ IsCatalog(Trees[t].catalog)
                                    /\ x \in AllCells(Trees[t].catalog)
      <4> DEFINE C == AllCells(TreeAt(run[r].base).catalog)
      <4>1. run[r].phase = "resolve" /\ run[r].phase \notin Over
        BY <1>2 DEF ResolveDigest, Over
      <4>2. run[r].todo # <<>> /\ run[r].todo \in Seq(C)
        BY <1>0, <4>1 DEF RunOk
      <4>3. x \in C
        <5> HIDE DEF C
        <5> QED
          BY <2>1, <4>2, TailPlaces
      <4>4. TreeOfRun(r) \in DOMAIN Trees /\ TreeAt(run[r].base) = Trees[TreeOfRun(r)]
        BY <4>1, RunTree
      <4> QED
        BY <4>3, <4>4, PublishAssumption
    <3>8. TagOf(y) = TagOf(x)
      BY <3>2, <3>y, TagOfKey
    <3>9. y = x
      BY <3>5, <3>6, <3>7, <3>8, TagNamesCell
    <3> QED
      BY <1>0, <2>3, <3>1, <3>2, <3>y, <3>9 DEF Grown
  <2> QED
    BY <1>1, <2>2, <2>3
<1>3. ASSUME NEW q \in Runs, \/ \E t \in DOMAIN Trees : Merge(q, t)
                             \/ Dispatch(q) \/ Work(q) \/ Fail(q)
      PROVE  \/ k \in DOMAIN run[r].lock /\ run'[r].lock[k] = run[r].lock[k]
             \/ ResolveDigest(r)
  <2> DEFINE Same == k \in DOMAIN run[r].lock /\ run'[r].lock[k] = run[r].lock[k]
  <2>0. DOMAIN <<>> = {}
    BY EmptyLayout
  <2>1. ASSUME Others(q), \/ run'[q].lock = run[q].lock
                          \/ run'[q].lock = <<>>
        PROVE  Same
    BY <2>0, <2>1 DEF Others
  <2>2. CASE (\E t \in DOMAIN Trees : Merge(q, t)) \/ Dispatch(q)
    BY <1>0, <2>1, <2>2, Starts
  <2>3. CASE \E j \in DOMAIN Jobs : BuildLayout(q, j)
    BY <1>0, <2>1, <2>3, BuildLayoutEffect
  <2>4. CASE PromoteOne(q)
    BY <1>0, <2>1, <2>4, PromoteOneEffect
  <2>5. CASE ResolveDigest(q)
    <3>1. Others(q)
      BY <1>0, <2>5, ResolveDigestEffect
    <3> QED
      BY <2>5, <3>1 DEF Others
  <2>6. CASE CommitLockfile(q) \/ Fail(q)
    BY <1>0, <2>1, <2>6, EndsEffect
  <2> QED
    BY <1>3, <2>2, <2>3, <2>4, <2>5, <2>6 DEF Work
<1> QED
  BY <1>1, <1>2, <1>3, Frame

LEMMA HistoryStep ==
  ASSUME GcInv, TypeInv, HistoryInv, [Next]_vars
  PROVE  HistoryInv'
<1>1. CASE Next
  BY <1>1, MadeOfTrees, TagsKeepKeys, EntriesKeepKeys DEF HistoryInv
<1>2. CASE UNCHANGED vars
  <2>1. UNCHANGED <<main, made, registry, run>>
    BY <1>2 DEF vars, publishVars
  <2> QED
    BY <2>1 DEF HistoryInv
<1> QED
  BY <1>1, <1>2

\* Two runs that overlap may commit bundles of each other's trees, but never one that
\* was built under another key, or of a tree that is not on main, whatever they
\* restore and promote and whatever fails, is evicted or swept.
THEOREM EntriesOfHistory == Spec => LockedFromHistory
<1> DEFINE Inv == GcInv /\ TypeInv /\ HistoryInv
           Stated(r) ==
             LET lock   == main'[Len(main')].lock
                 merged == {main'[c].tree : c \in DOMAIN main'}
             IN  \A k \in DOMAIN lock :
                    /\ made[lock[k].digest].key = k
                    /\ \E t \in merged : \E x \in BuiltCells(t) :
                          /\ BundleKey(x) = k
                          /\ made[lock[k].digest].spec = ComputeSpecHash(x, Trees[t])
<1>1. ASSUME Inv, Next, NEW r \in Runs, Committed(r) PROVE Stated(r)
  <2>1. main'[Len(main')].lock = run[r].lock
    BY <1>1, CommitsOwnLock
  <2>2. Grown
    BY <1>1, GcInvParts, NextGrows
  <2>3. ASSUME NEW k \in DOMAIN run[r].lock
        PROVE  /\ made[run[r].lock[k].digest].key = k
               /\ \E c \in DOMAIN main' : \E x \in BuiltCells(main'[c].tree) :
                     /\ BundleKey(x) = k
                     /\ made[run[r].lock[k].digest].spec = ComputeSpecHash(x, Trees[main'[c].tree])
    <3>1. PICK b : b = made[run[r].lock[k].digest]
      OBVIOUS
    <3>2. run[r].lock[k].digest \in DOMAIN made
      BY <1>1 DEF TypeInv, RunOk, DigestsOf
    <3>3. b.key = k /\ \E c \in DOMAIN main : BuiltOf(b, main[c].tree)
      BY <1>1, <3>1, <3>2 DEF HistoryInv
    <3> QED
      BY <2>2, <3>1, <3>3 DEF BuiltOf, Grown
  <2> QED
    BY <2>1, <2>3
<1>2. Inv /\ [Next]_vars => [\A r \in Runs : Committed(r) => Stated(r)]_vars
  BY <1>1
<1>3. GcInit => Inv
  BY GcInvInit, TypeInit, HistoryInit
<1>4. Inv /\ [Next]_vars => Inv'
  BY GcInvStep, TypeStep, HistoryStep
<1> QED
  BY <1>2, <1>3, <1>4, PTL DEF Spec, LockedFromHistory
=============================================================================

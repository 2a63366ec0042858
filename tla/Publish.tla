------------------------------ MODULE Publish ------------------------------
(***************************************************************************)
(* From a merge to main to the lockfile that names its bundles: the jobs   *)
(* of ci.yml's pipeline build layouts (phpup build cell, with the layout   *)
(* restored from the Actions cache), the publish job promotes every layout *)
(* to the registry (phpup push), resolves the tags of all cells (phpup     *)
(* lockfile-update) and pushes the new bundles.lock to main.  Workflow     *)
(* runs overlap, fail anywhere, and are dispatched again with --force.     *)
(*                                                                         *)
(* A digest is the index of its bundle in `made`.  A cell's build is one   *)
(* step here; BuildCell has its parts.                                     *)
(***************************************************************************)
EXTENDS Planner, BundleLayout

CONSTANTS
    Trees,      \* the source trees that are merged
    Jobs,       \* the pipeline's jobs, [os, core], in the order of the glob
    RunnerOS,   \* job os -> builder OS
    Runs,       \* workflow runs
    MaxMishaps  \* bound on steps that fail and on layouts the Actions cache drops

ASSUME PublishAssumption ==
    /\ MaxMishaps \in Nat
    /\ 1 \in DOMAIN Trees
    /\ Jobs \in Seq({Jobs[j] : j \in DOMAIN Jobs})
    /\ \A t \in DOMAIN Trees :
          /\ IsCatalog(Trees[t].catalog) /\ IsFiniteSet(AllCells(Trees[t].catalog))
          /\ \A j \in DOMAIN Jobs : Jobs[j].core \in ExpandPHPMatrix(Trees[t].catalog)

VARIABLES
    main,      \* the commits of main, [tree, lock, v1]
    made,      \* the bundles, [key, spec, os]
    registry,  \* [tags: tag -> digest, present, old: digests older than min-age-days]
    caches,    \* job -> the layouts saved, [tree, layout], the newest last
    run,       \* run -> its state
    past       \* what has happened: see Past

publishVars == <<main, made, registry, caches, run, past>>

Over == {"waiting", "done", "failed"}

Waiting == [phase |-> "waiting", base |-> 0, force |-> FALSE, layouts |-> <<>>,
            todo |-> <<>>, lock |-> <<>>, missed |-> FALSE]

Past == [faults: 0..MaxMishaps, evicted: 0..MaxMishaps, overlap: BOOLEAN]

TreeAt(c) == Trees[main[c].tree]

\* What a job of the pipeline builds of a tree, and what all of them do.
ItemsOfJob(j, t) == ItemsOf(Jobs[j].core, Trees[t].catalog)
BuiltCells(t) == UNION {Elements(ItemsOfJob(j, t)) : j \in DOMAIN Jobs}

FirstCells == InOrder(BuiltCells(1))

Image(cell, t, digest) ==
    [name |-> ImageName(cell), key |-> BundleKey(cell),
     spec |-> ComputeSpecHash(cell, Trees[t]), digest |-> digest]

Bundle(cell, t, os) ==
    [key |-> BundleKey(cell), os |-> os, spec |-> ComputeSpecHash(cell, Trees[t])]

\* A lockfile of schema 1 has no spec hashes.
FirstLock == [k \in {BundleKey(c) : c \in Elements(FirstCells)} |->
                [digest |-> CHOOSE i \in DOMAIN FirstCells : BundleKey(FirstCells[i]) = k,
                 spec |-> <<>>]]

FirstLayout(j) ==
    At([i \in DOMAIN FirstCells |-> Image(FirstCells[i], 1, i)],
       {i \in DOMAIN FirstCells : FirstCells[i] \in Elements(ItemsOfJob(j, 1))})

\* The first tree has been built, published, and locked by an early phpup.
Init ==
    /\ main = <<[tree |-> 1, lock |-> FirstLock, v1 |-> TRUE]>>
    /\ made = [i \in DOMAIN FirstCells |-> Bundle(FirstCells[i], 1, Trees[1].builderOS)]
    /\ registry = [tags |-> [t \in {TagOf(c) : c \in Elements(FirstCells)} |->
                               CHOOSE i \in DOMAIN FirstCells : TagOf(FirstCells[i]) = t],
                   present |-> DOMAIN FirstCells, old |-> DOMAIN FirstCells]
    /\ caches = [j \in DOMAIN Jobs |-> <<[tree |-> 1, layout |-> FirstLayout(j)]>>]
    /\ run = [r \in Runs |-> Waiting]
    /\ past = [faults |-> 0, evicted |-> 0, overlap |-> FALSE]

----------------------------------------------------------------------------
Active == {r \in Runs : run[r].phase \notin Over}
Set(r, state) == run' = [run EXCEPT ![r] = state]

Start(r, base, force) ==
    /\ run[r].phase = "waiting"
    /\ Set(r, [Waiting EXCEPT !.phase = "pipeline", !.base = base, !.force = force])
    /\ past' = [past EXCEPT !.overlap = @ \/ Active # {}]

\* A pull request is merged that changes the tree, changes it back, or leaves
\* builders and catalog as they were.
Merge(r, t) ==
    /\ main' = Append(main, [main[Len(main)] EXCEPT !.tree = t])
    /\ Start(r, Len(main) + 1, FALSE)
    /\ UNCHANGED <<made, registry, caches>>

\* security-rebuild and manual runs force a build of the head of main.
Dispatch(r) ==
    /\ Start(r, Len(main), TRUE)
    /\ UNCHANGED <<main, made, registry, caches>>

\* Mutant: the newest layout of the job, the exact key or not.
RestoredNewest(j, t) ==
    IF caches[j] # <<>> THEN caches[j][Len(caches[j])].layout ELSE <<>>

\* The layout of the exact key, or the newest of the same job.
Restored(j, t) ==
    LET saved == {i \in DOMAIN caches[j] : caches[j][i].tree = t} IN
    IF saved # {} THEN caches[j][FirstOf(saved)].layout
    ELSE IF caches[j] # <<>> THEN caches[j][Len(caches[j])].layout
    ELSE <<>>

\* A key that is there is not saved again.
Saved(j, t, index) ==
    IF \E i \in DOMAIN caches[j] : caches[j][i].tree = t THEN caches[j]
    ELSE Append(caches[j], [tree |-> t, layout |-> index])

\* A job of the pipeline: what the layout does not hold of the tree is built.
BuildLayout(r, j) ==
    LET t     == main[run[r].base].tree
        index == Restored(j, t)
        items == ItemsOfJob(j, t)
        built == At(items, {i \in DOMAIN items :
                    \/ run[r].force
                    \/ LookupBySpec(index, ImageName(items[i]), ComputeSpecHash(items[i], Trees[t]))
                          = NoDigest})
        after == index \o [i \in DOMAIN built |-> Image(built[i], t, Len(made) + i)]
    IN
    /\ run[r].phase = "pipeline"
    /\ j = Len(run[r].layouts) + 1
    /\ made' = made \o [i \in DOMAIN built |-> Bundle(built[i], t, RunnerOS[Jobs[j].os])]
    /\ caches' = [caches EXCEPT ![j] = Saved(j, t, after)]
    /\ Set(r, [run[r] EXCEPT !.layouts = Append(@, after),
                 !.phase = IF j = Len(Jobs) THEN "promote" ELSE @,
                 !.todo = @ \o ListKeyed(after)])
    /\ UNCHANGED <<main, registry, past>>

\* Mutant: the end of the list is not noticed.
PromoteOnePast(r) ==
    LET m == run[r].todo[1] IN
    /\ run[r].phase = "promote"
    /\ registry' = [registry EXCEPT
          !.tags = [t \in DOMAIN @ \union {CanonicalRefFromBundleKey(m.key)} |->
                       IF t = CanonicalRefFromBundleKey(m.key) THEN m.digest ELSE @[t]],
          !.present = @ \union {m.digest}]
    /\ Set(r, IF Len(run[r].todo) > 0 THEN [run[r] EXCEPT !.todo = Tail(@)]
              ELSE [run[r] EXCEPT !.phase = "resolve", !.layouts = <<>>,
                      !.todo = InOrder(AllCells(TreeAt(run[r].base).catalog))])
    /\ UNCHANGED <<main, made, caches, past>>

\* phpup push of one manifest.  A registry keeps the date of what it has.
PromoteOne(r) ==
    LET m == run[r].todo[1] IN
    /\ run[r].phase = "promote"
    /\ registry' = [registry EXCEPT
          !.tags = [t \in DOMAIN @ \union {CanonicalRefFromBundleKey(m.key)} |->
                       IF t = CanonicalRefFromBundleKey(m.key) THEN m.digest ELSE @[t]],
          !.present = @ \union {m.digest}]
    /\ Set(r, IF Len(run[r].todo) > 1 THEN [run[r] EXCEPT !.todo = Tail(@)]
              ELSE [run[r] EXCEPT !.phase = "resolve", !.layouts = <<>>,
                      !.todo = InOrder(AllCells(TreeAt(run[r].base).catalog))])
    /\ UNCHANGED <<main, made, caches, past>>

\* One cell of phpup lockfile-update.  A tag that cannot be resolved, whatever
\* the reason, is left out with a warning.
ResolveDigest(r) ==
    LET cell  == run[r].todo[1]
        found == TagOf(cell) \in DOMAIN registry.tags
        entry == [k \in {BundleKey(cell)} |->
                     [digest |-> registry.tags[TagOf(cell)],
                      spec |-> <<LockSpecHash(cell, TreeAt(run[r].base))>>]]
        next  == [run[r] EXCEPT !.todo = Tail(@),
                    !.phase = IF Len(run[r].todo) = 1 THEN "commit" ELSE @]
    IN
    /\ run[r].phase = "resolve"
    /\ \/ /\ found
          /\ Set(r, [next EXCEPT !.lock = [k \in DOMAIN @ \union DOMAIN entry |->
                                             IF k \in DOMAIN entry THEN entry[k] ELSE @[k]]])
          /\ UNCHANGED past
       \/ /\ ~found \/ past.faults + past.evicted < MaxMishaps
          /\ Set(r, [next EXCEPT !.missed = @ \/ found])
          /\ past' = IF found THEN [past EXCEPT !.faults = @ + 1] ELSE past
    /\ UNCHANGED <<main, made, registry, caches>>

\* Mutant: the push is forced.
CommitLockfileForced(r) ==
    LET base    == run[r].base
        changed == main[base].lock # run[r].lock
        pushed  == changed
    IN
    /\ run[r].phase = "commit"
    /\ main' = IF pushed THEN Append(SubSeq(main, 1, base),
                                     [main[base] EXCEPT !.lock = run[r].lock, !.v1 = FALSE])
               ELSE main
    /\ Set(r, [Waiting EXCEPT !.phase = IF changed => pushed THEN "done" ELSE "failed"])
    /\ UNCHANGED <<made, registry, caches, past>>

\* No difference to the lockfile that was checked out, no commit; and the push
\* is refused unless the branch is still what was checked out (a plain git push
\* here, with a lease in commit.go).
CommitLockfile(r) ==
    LET base    == run[r].base
        changed == main[base].lock # run[r].lock
        pushed  == changed /\ Len(main) = base
    IN
    /\ run[r].phase = "commit"
    /\ main' = IF pushed THEN Append(SubSeq(main, 1, base),
                                     [main[base] EXCEPT !.lock = run[r].lock, !.v1 = FALSE])
               ELSE main
    /\ Set(r, [Waiting EXCEPT !.phase = IF changed => pushed THEN "done" ELSE "failed"])
    /\ UNCHANGED <<made, registry, caches, past>>

\* A job of the run fails, and with it the run; what it did stays done.
Fail(r) ==
    /\ r \in Active
    /\ past.faults + past.evicted < MaxMishaps
    /\ Set(r, [Waiting EXCEPT !.phase = "failed"])
    /\ past' = [past EXCEPT !.faults = @ + 1]
    /\ UNCHANGED <<main, made, registry, caches>>

\* The Actions cache drops a layout.
Evict(j) ==
    /\ past.faults + past.evicted < MaxMishaps
    /\ caches[j] # <<>>
    /\ caches' = [caches EXCEPT ![j] = Tail(@)]
    /\ past' = [past EXCEPT !.evicted = @ + 1]
    /\ UNCHANGED <<main, made, registry, run>>

Work(r) ==
    \/ \E j \in DOMAIN Jobs : BuildLayout(r, j)
    \/ PromoteOne(r)
    \/ ResolveDigest(r)
    \/ CommitLockfile(r)

PublishNext ==
    \/ \E r \in Runs :
          \/ \E t \in DOMAIN Trees : Merge(r, t)
          \/ Dispatch(r)
          \/ Work(r)
          \/ Fail(r)
    \/ \E j \in DOMAIN Jobs : Evict(j)

----------------------------------------------------------------------------
(* Properties. *)

\* Whoever else pushes to main meanwhile, nothing that is on main is lost
\* (CommitLockfile: --force-with-lease; the publish job: git push).
NoCommitLost == [][/\ Len(main') >= Len(main)
                   /\ SubSeq(main', 1, Len(main)) = main]_main

Committed(r) == /\ run[r].phase = "commit" /\ run'[r].phase = "done"
                /\ main' # main

\* A bundle of the lockfile was built on the runner OS that its hashes are taken
\* with: "builderOS is the runner OS the build will execute on".
LockedAsBuilt ==
    [][\A r \in Runs :
          Committed(r) =>
             \A k \in DOMAIN main'[Len(main')].lock :
                made[main'[Len(main')].lock[k].digest].os = TreeAt(run[r].base).builderOS]_publishVars
=============================================================================

----------------------------- MODULE GcBundles -----------------------------
(***************************************************************************)
(* `phpup gc-bundles` beside the workflow runs of Publish: an operator's   *)
(* sweep collects what the lockfiles of the remote branches and the        *)
(* released tags name, as far as the operator's clone can read them, then  *)
(* lists each package and deletes the versions that are old and were not   *)
(* named.                                                                  *)
(***************************************************************************)
EXTENDS Publish

CONSTANTS
    MaxSweeps,   \* bound on sweeps
    MaxReleases  \* bound on releases

ASSUME SweepsAssumption == {MaxSweeps, MaxReleases} \subseteq Nat

VARIABLES
    releases,  \* the commits that are released
    sweep,     \* the sweep under way
    swept      \* [sweeps, raced: a sweep and a run overlapped, stale: a sweep read
               \* a clone that lacked something]

gcVars == <<releases, sweep, swept>>
vars == <<publishVars, gcVars>>

NoSweep == [phase |-> "idle", referenced |-> {}, packages |-> {},
            candidates |-> {}]

GcInit ==
    /\ Init
    /\ releases = {1}
    /\ sweep = NoSweep
    /\ swept = [sweeps |-> 0, raced |-> FALSE, stale |-> FALSE]

----------------------------------------------------------------------------
DigestsOf(lock) == {lock[k].digest : k \in DOMAIN lock}

\* Entries that are bare digests do not parse.
ExtractDigestsAt(c) == IF main[c].v1 THEN {} ELSE DigestsOf(main[c].lock)

\* Mutant: the branches only.
EnumerateReferencedDigestsOfBranches(clone) == ExtractDigestsAt(clone)

\* Refs that the clone, which has fetched up to a commit, does not have are skipped,
\* as are those that do not parse.  There are fewer releases than `gh release list`
\* gives (500), and of the branches only main: others would only spare more.
EnumerateReferencedDigests(clone) ==
    UNION {ExtractDigestsAt(c) : c \in {clone} \union {t \in releases : t <= clone}}

Candidates(package) ==
    {d \in registry.present : /\ package = CanonicalRefFromBundleKey(made[d].key)[1]
                              /\ d \in registry.old
                              /\ d \notin sweep.referenced}

Release ==
    /\ Cardinality(releases) < MaxReleases
    /\ releases' = releases \union {Len(main)}
    /\ UNCHANGED <<publishVars, sweep, swept>>

\* Only a sweep with --confirm is a step: a dry run changes nothing.
BeginSweep(clone) ==
    /\ sweep.phase = "idle"
    /\ swept.sweeps < MaxSweeps
    /\ sweep' = [NoSweep EXCEPT !.phase = "list",
                    !.referenced = EnumerateReferencedDigests(clone),
                    !.packages = {CanonicalRefFromBundleKey(made[d].key)[1] :
                                  d \in registry.present}]
    /\ swept' = [sweeps |-> swept.sweeps + 1,
                 raced |-> swept.raced \/ Active # {},
                 stale |-> swept.stale \/ clone < Len(main)]
    /\ UNCHANGED <<publishVars, releases>>

\* A package whose versions cannot be listed is passed over.
ListPackageVersions(package) ==
    /\ sweep.phase = "list"
    /\ sweep.candidates = {}
    /\ package \in sweep.packages
    /\ \/ /\ sweep' = [sweep EXCEPT !.packages = @ \ {package},
                          !.candidates = Candidates(package)]
          /\ UNCHANGED past
       \/ /\ past.faults + past.evicted < MaxMishaps
          /\ past' = [past EXCEPT !.faults = @ + 1]
          /\ sweep' = [sweep EXCEPT !.packages = @ \ {package}]
    /\ UNCHANGED <<main, made, registry, caches, run, releases, swept>>

\* A deletion takes the tags of the version with it; one that fails is reported.
DeletePackageVersion(d) ==
    /\ d \in sweep.candidates
    /\ sweep' = [sweep EXCEPT !.candidates = @ \ {d}]
    /\ \/ /\ registry' = [tags |-> [t \in {u \in DOMAIN registry.tags : registry.tags[u] # d}
                                     |-> registry.tags[t]],
                          present |-> registry.present \ {d}, old |-> registry.old \ {d}]
          /\ UNCHANGED past
       \/ /\ past.faults + past.evicted < MaxMishaps
          /\ past' = [past EXCEPT !.faults = @ + 1]
          /\ UNCHANGED registry
    /\ UNCHANGED <<main, made, caches, run, releases, swept>>

EndSweep ==
    /\ sweep.phase = "list" /\ sweep.packages = {} /\ sweep.candidates = {}
    /\ sweep' = NoSweep
    /\ UNCHANGED <<publishVars, releases, swept>>

\* --min-age-days go by: longer than any run or sweep takes.
TimePasses ==
    /\ Active = {} /\ sweep.phase = "idle"
    /\ registry' = [registry EXCEPT !.old = registry.present]
    /\ UNCHANGED <<main, made, caches, run, past, gcVars>>

Sweep ==
    \/ \E p \in sweep.packages : ListPackageVersions(p)
    \/ \E d \in sweep.candidates : DeletePackageVersion(d)
    \/ EndSweep

\* Publish does not know of sweeps; whether it ran beside one is noted here.
Publishes ==
    /\ PublishNext
    /\ swept' = [swept EXCEPT !.raced = @ \/ (sweep.phase # "idle" /\ Active' # {})]
    /\ UNCHANGED <<releases, sweep>>

Next ==
    \/ Publishes
    \/ Release
    \/ \E clone \in DOMAIN main : BeginSweep(clone)
    \/ Sweep
    \/ TimePasses

Spec == GcInit /\ [][Next]_vars

----------------------------------------------------------------------------
(* Properties. *)

\* Runs, sweeps and the registry keep to their types, and every manifest and
\* every lockfile entry is of a bundle that was made.
TypeOK ==
    /\ \A c \in DOMAIN main : /\ main[c].tree \in DOMAIN Trees
                              /\ DigestsOf(main[c].lock) \subseteq DOMAIN made
    /\ registry.old \subseteq registry.present
    /\ registry.present \subseteq DOMAIN made
    /\ \A t \in DOMAIN registry.tags : registry.tags[t] \in registry.present
    /\ \A r \in Runs : /\ run[r].base \in 0..Len(main)
                       /\ run[r].phase \in {"promote", "resolve"} => run[r].todo # <<>>
    /\ past \in Past
    /\ releases \subseteq DOMAIN main
    /\ sweep.candidates \subseteq DOMAIN made

\* Whatever the head of main or a release names is in the registry, as long as
\* sweeps do not overlap runs and read a clone that has just fetched, and the
\* lockfile is not of schema 1 (EnumerateReferencedDigests, Candidates).
LockedArePresent ==
    ~swept.raced /\ ~swept.stale =>
        \A c \in releases \union {Len(main)} :
            ~main[c].v1 => DigestsOf(main[c].lock) \subseteq registry.present

\* What a sweep may rely on while it lists and deletes: no run is under way and
\* what it was told is referenced covers the head and the releases.
SweepIsAlone ==
    /\ ~swept.raced /\ sweep.phase # "idle" => Active = {}
    /\ sweep.phase = "idle" => sweep.candidates = {}
    /\ sweep.candidates \intersect sweep.referenced = {}
    /\ ~swept.raced /\ ~swept.stale /\ sweep.phase # "idle" =>
          \A c \in releases \union {Len(main)} :
             ~main[c].v1 => DigestsOf(main[c].lock) \subseteq sweep.referenced

\* What a run has resolved is in the registry, and a tag names what is there.
ResolvedArePresent ==
    /\ \A t \in DOMAIN registry.tags : registry.tags[t] \in registry.present
    /\ \A r \in Runs : run[r].phase \in Over => run[r].lock = <<>>
    /\ ~swept.raced =>
          \A r \in Runs : DigestsOf(run[r].lock) \subseteq registry.present

\* The shapes of the state that the two invariants above are about.
HasFields(x, F) == DOMAIN x = F /\ x = [f \in F |-> x[f]]

MainShape ==
    /\ \E S : main \in Seq(S)
    /\ main # <<>>
    /\ \A c \in DOMAIN main : HasFields(main[c], {"tree", "lock", "v1"})
    /\ releases \subseteq DOMAIN main

RunFields == {"phase", "base", "force", "layouts", "todo", "lock", "missed"}

StateShape ==
    /\ run = [r \in Runs |-> run[r]]
    /\ \A r \in Runs : HasFields(run[r], RunFields)
    /\ HasFields(registry, {"tags", "present", "old"})
    /\ HasFields(sweep, {"phase", "referenced", "packages", "candidates"})
    /\ swept \in [sweeps : Nat, raced : BOOLEAN, stale : BOOLEAN]

\* The inductive invariant behind LockedArePresent.
GcInv ==
    MainShape /\ StateShape /\ ResolvedArePresent /\ SweepIsAlone /\ LockedArePresent

\* "Released-tag lockfile references are load-bearing ... and must never be
\* pruned", whatever their schema.
ReleasedArePresent ==
    \A c \in releases : DigestsOf(main[c].lock) \subseteq registry.present

\* What a run commits names only bundles that were built under the key of the entry, of
\* a tree that is on main: however runs overlap, move each other's tags, fail and are
\* forced, whichever older manifests they promote and whatever is evicted or swept
\* (PushAll, lockfileupdate.Main, the lease of CommitLockfile; publishing runs are in
\* no concurrency group).
LockedFromHistory ==
    [][\A r \in Runs :
          Committed(r) =>
             LET lock   == main'[Len(main')].lock
                 merged == {main'[c].tree : c \in DOMAIN main'}
             IN  \A k \in DOMAIN lock :
                    /\ made[lock[k].digest].key = k
                    /\ \E t \in merged : \E x \in BuiltCells(t) :
                          /\ BundleKey(x) = k
                          /\ made[lock[k].digest].spec = ComputeSpecHash(x, Trees[t])]_vars

\* The spec hash of a cell went back to what it was before another tree's, in a
\* tree other than then.
CameBack(cell, t) ==
    \E c, d \in DOMAIN main :
        /\ c < d /\ main[c].tree # t
        /\ cell \in BuiltCells(main[c].tree) \intersect BuiltCells(main[d].tree)
        /\ ComputeSpecHash(cell, TreeAt(c)) = ComputeSpecHash(cell, Trees[t])
        /\ ComputeSpecHash(cell, TreeAt(d)) # ComputeSpecHash(cell, Trees[t])

\* What a run that no other run and no sweep overlaps commits has an entry for
\* every cell its pipeline builds, whose digest is the bundle the tag names, built
\* under that key for that very tree: also after failed runs, forced ones and trees
\* that came back, and whatever older manifests the layouts still hold, as long as
\* no layout was dropped from the cache, no lookup failed and the cell's spec hash
\* did not come back without its tree (PushAll, lockfileupdate.Main).
LockDescribesTree ==
    [][\A r \in Runs :
          Committed(r) /\ ~past.overlap /\ ~swept.raced /\ past.evicted = 0 =>
             LET t    == main[run[r].base].tree
                 lock == main'[Len(main')].lock
             IN  \A c \in BuiltCells(t) :
                    LET k == BundleKey(c) IN
                    /\ k \in DOMAIN lock \/ run[r].missed
                    /\ k \in DOMAIN lock => lock[k].digest = registry.tags[TagOf(c)]
                    /\ k \in DOMAIN lock /\ ~CameBack(c, t) =>
                         /\ made[lock[k].digest].key = k
                         /\ made[lock[k].digest].spec = ComputeSpecHash(c, Trees[t])]_vars
=============================================================================

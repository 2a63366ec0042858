# setup-php: TLA+ models and proofs

`phpup` installs PHP on CI runners from prebuilt bundles and, in the same
binary, builds, publishes, plans, tests and collects those bundles.  This
directory holds TLA+ modules of that program, the TLC configurations that check
them on small instances, and TLAPS proofs of what matters for every instance.

`tlc -config X.cfg M` checks a configuration and `tlapm M.tla` a proof module;
`PROJECT.json` lists the runs, the mutants that each property catches, the
lines of code behind each definition, the findings and the hazards.

Status: the action wrapper, the installer, the build of a cell, publishing,
garbage collection and the test suite are modelled and checked, and partly
proved.  What is left out, and what is next, is at the end.

## The system

| Component | State it keeps | Operations | Talks to |
|---|---|---|---|
| action wrapper (`src/index.js`) | one binary in the tool cache | resolve a release tag, download, run | GitHub releases; runs phpup |
| plan (`internal/plan`) | a `Plan` | `FromEnv`, `ParseExtensions`, `ApplyCoverage`, `Hash` | the action's inputs |
| lockfile (`internal/lockfile`) | key to digest and spec hash | `Parse`, `Lookup`, `Write` | embedded in the binary, one per action version |
| resolve (`internal/resolve`) | none | `Resolve` of a plan against a lockfile | plan, lockfile, catalog |
| cache (`internal/cache`) | a directory per plan hash, with a `.complete` marker | `Check`, `Seed` | the tool cache of the runner |
| oci client (`internal/oci`) | none | `Fetch`, `FetchAll` (a goroutine per bundle), `ResolveDigest`, `Push` | the registry |
| extract, compose, env | the install directory; `GITHUB_PATH`, `GITHUB_ENV` | `ExtractParallel` (a goroutine per bundle); fragments, symlinks, ini files; appends | the file system, later steps of the job |
| setup runtime (`cmd/phpup/main.go`) | the phases of one run | all of the above in order | everything above |
| registry (`internal/registry`) | an OCI layout: blobs and `index.json` | `Push` (append), `Fetch`, `LookupBySpec`, `ListKeyed` | files, or a remote registry |
| build, sidecar (`internal/build`) | the layout; containers and networks | `BuildPHP`, `BuildExt`, `BuildCell`; start, seed, sweep | docker, registry |
| push, layoutlockfile | none | promote all bundles; lockfile of a layout | two registries |
| planner | none | matrix of cells, spec hashes, skip decisions | catalog, lockfile |
| lockfileupdate | `bundles.lock` in a clone | resolve all digests; add, commit, push with lease | registry, git |
| gcbundles | none | references of branches and releases, candidates, deletion | git, GHCR |
| testsuite | results per cell | filter fixtures, run cells one after the other | docker |
| hermeticaudit, compatdiff | none | checks of a bundle; difference of two probes | files |
| builder scripts, workflows | bundles; runs of CI | compile; the order of build, publish, commit | all of the above |

What is hard in it:

* The tool cache and the install directory outlive a run on machines that are
  not thrown away after a job.  Neither is locked, the install directory is
  never emptied, a cache entry refers to files of the install directory, and
  the key of an entry does not name the lockfile.
* A run can be killed, or end in `log.Fatalf`, between any two writes.  Every
  one of its writes is in place; only the marker of the cache is a commit.
* Bundles are fetched and extracted concurrently, and one of them may fail.
* Extensions are included, excluded, reset and added by four pieces of code
  that combine them in different ways.
* On the publishing side: read-modify-write of an index and of a lockfile in
  git without a lock, two different answers to "which manifest is the last",
  a garbage collector that works from views taken at different times.

* On the building side: one work directory, one layout, one docker daemon and
  one set of output directories, none of them locked; a sweep of "stale"
  containers that cannot tell a stale one from one in use.
* In the tests: cells that overwrite one lockfile, fixtures that share one
  install directory, and results of which one failure must survive.

What makes each component correct is in the properties below; the hazards that
each property is about are in `PROJECT.json`.

## Modules

| Module | Models | State |
|---|---|---|
| `PhpPlan` | plan algebra: coverage, disabled extensions, opcache gate, ini layers, plan hash, resolution | none (operators) |
| `PlanInput` | `FromEnv`, `ParseExtensions`, `ApplyCoverage` in their order | `phase`, `input`, `tokens`, `plan` |
| `PhpupSetup` | `main` of the installer with `resolve`, `cache`, `extract`, `compose`, `env`, over runs that share a machine | below |
| `SetupContract` | what a setup step promises its workflow | `status`, `request`, `given` |
| `PlanCache` | `Check` and `Seed` file by file, concurrent runs | `pc`, `source`, `todo`, `open`, `file`, `complete`, `overlap` |
| `ActionWrapper` | `runMain` of the wrapper on several machines, and the releases of the project | `release`, `latest`, `pc`, `ref`, `tag`, `file`, `executable`, `ran` |
| `WriteOnce` | a value that is published at most once | `published` |
| `NewestBuilds` | what a layout is meant to hold for those who install from it: the newest build of each key | `newest`, `published`, `disturbed` |
| `Planner` | catalog, cells, matrices, spec hashes, keys and tags | none (operators) |
| `BundleLayout` | the OCI layout's index and the lockfile synthesized from it | none (operators) |
| `BuildCell` | `phpup build cell` with its core and extension builds, sidecars and containers, several processes | below |
| `Publish` | `ci.yml` from a merge to the commit of `bundles.lock`, several workflow runs | below |
| `GcBundles` | `phpup gc-bundles` and releases beside `Publish` | that of `Publish`, `releases`, `sweep`, `swept` |
| `TestSuite` | `phpup test` and `phpup internal test-cell` | `layout`, `lock`, `suite`, `faults` |
| `SharedFacts` | lemmas and theorems about sequences that grow at their end or lose their head, about the lookups of `BundleLayout`, and about the cells, names and hashes of `Planner` | none |
| `PlanInput_proofs`, `PhpupSetup_proofs`, `PlanCache_proofs`, `ActionWrapper_proofs`, `BuildCell_proofs`, `GcBundles_proofs`, `TestSuite_proofs` | theorems | |
| `MCPhpupSetup`, `MCPlanInput`, `MCPlanCache`, `MCActionWrapper`, `MCBuildCell`, `MCPublish`, `MCTestSuite` | instances for TLC | |

`Planner` and `BundleLayout` are what `BuildCell` and `Publish` are written in;
`TestSuite` joins `PhpPlan`, the installer's side, and `BundleLayout`, the
builder's.  `GcBundles` is `Publish` and a sweep, composed.

### PhpPlan and PlanInput

Sets stand for the sorted, deduplicated slices of the code.  A bundle key has
no OS and architecture (a machine has one of each) and no extension version
(the pin is compiled into the binary together with the lockfile, so it belongs
to the value the lockfile has for the key).  The plan hash is the tuple of what
it covers: SHA-256 is taken to be injective.  The ini layers are represented by
the inputs that select them.  `tools` says whether tools were asked for, which
matters because fail-fast turns that warning into an error.

`PlanInput` reads the inputs in the order of `FromEnv`, the extensions one
token at a time as `ParseExtensions` does, then applies coverage.  Texts are
already trimmed and lowered; a value that is refused is `Invalid`.

### PhpupSetup

One process at a time runs on a machine; what it leaves is what the next finds.

| Variable | In the code |
|---|---|
| `pc` | the step of `main`, or how the last run ended |
| `plan`, `lock` | `p`, `lf` |
| `at` | the directory of the `layout` it will export |
| `todo`, `bad` | goroutines of `ExtractParallel` still to finish; an error among them |
| `base` | the install directory: `bin` (all files of a core that keep their path from version to version), `tmpl` (the php.ini templates), `so[n][api]` (shared objects, each under the API directory of its build), `link[n]` (symlinks in the extension directory), `conf` (conf.d and php.ini: loading fragments, opcache loader, 99-user.ini, php.ini) |
| `cache[h]` | the entry of plan hash `h`: marker, core and `conf` (its copies of shared objects are left out, since its conf.d goes on naming those of the install directory) |
| `env` | the last PATH, PHPRC and PHP_INI_SCAN_DIR written |
| `served` | history: the requests this machine has run |

A file is the digest of the bundle it came from, or `Torn`.  One action per
phase (`ResolvePlan`, `CheckCache`, `FetchBundles`, `CheckSchema`,
`ExtractItem` per bundle, `ExtractDone`, `ComposeExtensions`, `LoadOpcache`,
`SelectBaseIniFile`, `WriteIniValues`, `ExportEnv`, `SeedTree`, `SeedMarker`),
and one per way to stop inside it: `Abort` before or after the writes of a
phase, `ExtractItemFails`, `ComposeFails`, `ExportEnvFails`, `SeedFails`
between them.  `Begin` starts a run, `NewMachine` replaces the machine and
`NewContainer` everything but the tool cache.

A core's sidecar has a kind and a schema (`MetaOf`).  One from before the kind
was written has none, and `Fetch` gives it "" and 1, which passes the schema
check; whether the bundle has php.ini templates is another matter
(`Templated`).  A core without either is `Bare`.

`Provided` is what a later step gets: the core on PATH, the modules its
conf.d loads, the php.ini and the values.  `Wanted(p, l)` is what a plan and a
lockfile call for.  Most properties compare the two.

The phases of the installer are also what `SetupContract` sees: the refinement
maps all of them to "running" and gives `Provided` when a run is ready.

### PlanCache

The same cache entry at the granularity of system calls: `OpenFile` truncates,
`WriteFile` writes, `WriteMarker` comes after the walk, `Kill` anywhere,
`SeedFails` is the error `main` only reports.  Two runs that have the same file
open may leave parts of both texts in it.  `overlap` is chosen at the start and
says whether runs of this machine may be under way at the same time (jobs on a
self-hosted machine with one runner are not; with several runners they are).

### ActionWrapper

Each machine has one place for the binary (`file`, `executable`) and runs one
job at a time, `runMain` from `Begin` (existsSync) to `Stop` (phpup has ended,
or the job was killed at any step before).  The jobs of all machines and the
release workflow interleave: `CreateRelease` makes a release, which may become
the latest, and `UploadBinaries` attaches its binaries later, so a job can ask
between the two.  `LookUpByTag` and `LookUpLatest` are the two requests of
`resolveReleaseTag`, `Fetch` to `FinishFile` are `downloadFile`.  A file is the
release it came from or `Torn`.  `createWriteStream` opens its file in the
background: where the response breaks off before that, the file is removed
first and created afterwards (`DownloadFails`, then `OpenLate`).

A ref is a version, a floating major, or a commit; branches and an unknown ref
take the path of a commit, whose lookup by tag ends in 404.  There is no release
named after a major: the release workflow deletes one
(`release-please.yml` 67-84).  If one existed and were the latest,
`LookUpLatest` would take it for its own major.

Two machines sharing one tool cache are not modelled here.  Jobs that overlap
find each other's unfinished files as in `PlanCache`.

The wrapper and `PhpupSetup` meet in the tool cache: the binary carries the
lockfile, and the directory of the binary lives as long as the entries of
`PlanCache`.  As long as a machine keeps both, `FirstBinaryStays` means one
lockfile per machine (`OneVersion`); several lockfiles, as in `setup_shared`,
need a tool cache of which only `buildrush-bin` was removed, or
`PHPUP_LOCKFILE`.

### Planner and BundleLayout

A name joined from parts is the tuple of its parts, and a hash the record of
what it covers.  The two ways in which cells come about stand side by side:
`ExpandPHPMatrix` and `ExpandExtMatrix` of the planner (and, as `AllCells`, of
`lockfile-update`), and `DiscoverExtensionsForCell` of `build cell`.  So do the
two spec hashes: `ComputeSpecHash` over four builder files and `LockSpecHash`
over two, and the two derivations of a tag: `CanonicalRefFromBundleKey` from a
key and `TagOf` from a cell.

A layout is the sequence of its index.  `LookupBySpec` and `Fetch` take the
first match, `SynthesizedLockfile` the last of a key.

### BuildCell

| Variable | In the code |
|---|---|
| `tree` | the work directory: which of the `Trees` is checked out |
| `layout`, `torn` | `index.json`, and whether a kill cut it short; `build[b].read` is the copy a `Push` works on |
| `bundles` | what containers made: spec of the tree they read, flavour, the core they linked against |
| `outDir` | output directory to the bundle in it, negated while it is half written |
| `sidecars` | sidecar registries that run, with their owner and the core they serve; `Nobody` owns those of killed processes, `Lost` those that docker was asked to remove and did not |
| `orphans` | containers of killed processes that still write |
| `build` | a process: its `phase`, the sub-builds it has left, flags, spec hash, core digest |
| `past` | history: cells begun, kills and faults; whether builds overlapped (`overlap`), with the same `--os` (`clash`), and whether the tree was edited under one (`edited`) |

A sub-build goes through `Probe`, for an extension `SweepStaleSidecars`,
`StartSidecar`, `SeedCore`, then `PrepareOutDir`, `DockerRun`, `Pack`,
`ContainerExits`, `ReadBundle`, `Push`, `EndItem` (the deferred stop); between
the core and the extensions is `ResolveCore`.  `Pack` and `ContainerExits` are
the container, which reads the live tree and the sidecar.  `Fail` is an error
of any step, `Kill` the end of the process, `OrphanExits` its container's.  The
errors that the code drops are outcomes of the step itself: the sweep may leave
any sidecar and goes on (`sidecar.go` 105-128), and so does the deferred stop
(`build.go` 303).

`Push` writes the whole of `index.json` in place.  A kill in that write leaves
an emptied file: it is there, which is all that `layout.FromPath` looks at, so
`openOrInit` does not replace it, and every lookup and append after that fails
to parse it.  Only a process that has read the index before can still write one.
An emptied output directory is a new directory: a container that had the old
one mounted no longer reaches it (`mounted`).

### Publish and GcBundles

| Variable | In the code |
|---|---|
| `main` | commits: their tree, `bundles.lock`, and whether that is of schema 1 |
| `made` | bundles: key, spec, the OS of the runner that built them |
| `registry` | tags; versions present; versions older than `--min-age-days` |
| `caches` | per pipeline job the layouts the Actions cache has |
| `run` | a workflow run: `pipeline`, `promote`, `resolve`, `commit` |
| `releases`, `sweep`, `swept` | released commits; the sweep's view and candidates; whether it raced a run or read a stale clone |

`BuildLayout` is one job (restore, `build cell`, upload), `PromoteOne` one
manifest of `phpup push`, `ResolveDigest` one cell of `phpup lockfile-update`,
`CommitLockfile` the commit and the push of the publish job (`ci.yml` 289-299),
a plain `git push`, which is refused unless `main` still ends in the commit
checked out; the lease of `lockfile-update` itself is the same condition.
`Merge` and `Dispatch` start runs, `Fail` ends one anywhere, `Evict` drops a
saved layout.  The first lockfile is of an early phpup (schema 1).  A sweep is
`BeginSweep` (references, packages), `ListPackageVersions`,
`DeletePackageVersion`, `EndSweep`; `clone` is how far the operator's clone has
fetched.

### TestSuite

`ParseTestFlags` normalises a request and unfolds the cells, `ListLayout` reads
the index of the layout (`layoutlockfile.go` 54), `StartCell` writes the lockfile
made of what was read (line 81) and starts the container, `RunFixture` installs,
probes and judges, `EndCell` and `Report` pass the result on.  Other calls and
builds come between any two of these.  `SkipCell`,
`RefuseCell`, `CellFails` and `FixtureFails` are the other ends.  Inside a
container, `Installed` and `InUse` are `PhpupSetup` as one step, over the one
install directory and tool cache that all fixtures of a cell share; `PushImage`
is a build next to it.  `passed` is a history of what has been judged well, on
which bundles.

There are two fixtures files.  The host selects a cell by that of the call, which
`--fixtures` may name (`runner.go` 257, `Selected`); the container judges
`test/compat/fixtures.yaml` of the repository, which is always the one it has
mounted (`runner.go` 287, `Mounted`).  `since` says how much of the layout there
was at the oldest listing that any call still had to write when the container
was started.

## Runs

| Run | Instance | Shows |
|---|---|---|
| `setup_one_tenant` | 7 plans by 4 lockfiles, one request per machine | `TypeOK`; `EnvironmentAsResolved`: ready means exactly the wanted environment, after any history of kills and failures; `KeepsContract`: refinement of `SetupContract`; `RunEnds`: every run ends |
| `setup_shared` | 7 requests, any two of them on a machine, with containers | `InstallReplacesCore`, `HitServesOwnPlan`, `RequestedExtensionsLoaded`, `CompleteEntriesAreWhole`, `SchemaCheckCoversTemplates`, `MarkedEntriesAreFinal` |
| `input_plan` | 4 names, 2 versions, lists of up to 3 tokens | `ListAsWritten` against a declarative reading of the list, `DriverFollowsCoverage`, `OpcacheAsWritten` |
| `cache_runs` | 3 runs, 2 files, 2 versions, with and without overlap | `NothingMissing` always; `MarkedIsOneTree` and `PublishedOnce` (refinement of `WriteOnce`) without overlap |
| `wrapper_jobs` | 2 machines, 3 versions of 2 majors, a commit | `RunsWholeBinary` after any kills and failures, `OwnDownloadFollowsRef` while releases go on, `FirstBinaryStays` |
| `build_cells` | 2 processes, a core and an extension, 2 flavours, 2 trees | `PushedAsAnnotated`, `LinkedAgainstOwnTree`, `WarmCellIsFree`, `SidecarsAreOwn`, `LinkedAgainstLocked`, `LockfileFollowsTree`, `IndexGrows`, `KeepsNewestBuilds` (refinement of `NewestBuilds`) |
| `registry_life` | 2 workflow runs, 3 trees, a release, a sweep | `LockedArePresent`, `NoCommitLost`, `LockDescribesTree`, `LockedFromHistory` |
| `suite_cells` | 2 calls, 8 fixtures, 4 requests (one with a fixtures file of its own), 2 bundles pushed meanwhile | `NothingWasSkipped`, `TestedAreCurrent` |

Four more runs end in a violation; see "Findings".

The plans of `setup_one_tenant` cover an extension, a coverage driver, a
version with a static opcache, `none` with no php.ini, a thread-safe build that
is or is not in the lockfile, an extension no bundle exists for, and an error
under fail-fast.  Two of its four lockfiles have a core from before the php.ini
templates: `core00`, of kind php-core and schema 1, which the schema check
refuses, and `core0`, whose sidecar names no kind, which passes it.  The
plans of `setup_shared` differ in an ini value, in the version and in the
extensions, and its lockfiles are those of four action versions, these two cores
among them, so that each is installed over a newer core.

Properties that only hold under a condition say so in their antecedent, and the
model reaches the other side: `PushedAsAnnotated` excludes builds of one `--os`
that overlap (they share an output directory) and edits under a build;
`LinkedAgainstOwnTree` only the latter; `IndexGrows`, `SidecarsAreOwn`,
`KeepsNewestBuilds`, `LockfileFollowsTree` and `LinkedAgainstLocked` overlapping
builds, the last two also edits; `KeepsNewestBuilds` what follows a kill in the
write of the index, which `IndexGrows` names as the one way to lose manifests;
`SidecarsAreOwn` sidecars that docker did not remove when asked;
`LockedArePresent` a sweep beside a run or from a clone that has not fetched;
`LockDescribesTree` overlapping runs and evicted caches.  `LockedFromHistory`
has no condition: it is what is left of `LockDescribesTree` without them.
`LockfileFollowsTree`, `LinkedAgainstLocked` and `LockDescribesTree` also except a
single bundle whose spec hash came back to an earlier one (`CameBack`), in a
layout and in a saved layout; `build_revert` is the run of that side.
`LinkedAgainstLocked` excepts a core that was built twice for one tree
(`BuiltAgain`), which `build_cells` reaches with `--force`.

Some say less than one would like, because the code does less:

* `InstallReplacesCore`, `HitServesOwnPlan`, `CompleteEntriesAreWhole` and
  `SchemaCheckCoversTemplates` ask for the own core's php.ini unless the core is
  `Bare`; such a core takes whatever template lies in the install directory
  (`IniAsWanted`).  `EnvironmentAsResolved` has no such exception: where one
  request has the machine to itself there is no template to take, and the run
  fails.
* `DriverFollowsCoverage` says nothing of a driver that the list asks for and
  the coverage input excludes, or the other way round.
* `NothingWasSkipped` is about the fixtures of the repository, where the call's
  own file has something for the machine.
* `TestedAreCurrent` goes back to the oldest listing that was still to be
  written when the cell began, whichever call's it was (`OldestListing`).

Bounds, and why they are enough.

* `MaxTenants` (1 or 2) is how many different requests a machine serves; the
  number of runs is not bounded, and each of the properties relates one earlier
  request to the current one.
* `MaxTokens` (3) lets a token stand before, at and after a `none`, and a name
  be given twice.  Two extensions (redis, xdebug) exercise concurrent
  extraction; three runs of the cache are one that marks, one that is late and
  one that hits.
* In `wrapper_jobs`, two machines are one with and one without an earlier
  binary, and three versions let the latest release be of the ref's major,
  another version of it, or of the other major; jobs are not bounded.
* `build_cells` (2.7 million states): `MaxCells` is 2, an earlier cell and a
  later one or two that overlap; `MaxBreaks` is 1, so that each kill and each
  failure meets every state of the other process.  Every property relates one
  build to what one other has done or is doing.  The two trees differ in a file
  that all bundles depend on and in the core's own entry.  Failing sweeps and
  stops are not counted.
* `registry_life` (1.7 million states): two runs, one mishap, one sweep, one
  release after the first.  A merge that leaves builders and catalog as they
  were, and a sweep from a clone that lacks something, count as the mishap
  (`FewMishaps`, a constraint of the run); the actions have no such bound.  A
  bundle is lost or a commit is overwritten by one other actor at a wrong moment.
  Three trees are what it takes for a cell's spec hash to come back in a tree that was not there before: the third takes
  the core back to the first and changes the extension.  One job is enough
  here; two jobs are what `publish_flavour` is about.
* `suite_cells` (1.3 million states): requests with an OS spelled twice, with two
  processors, with an unknown OS and processor, and with a fixtures file of its
  own that has something for one of two machines; fixtures of each kind in
  `fixtures.yaml`; `MaxImages` 2, a core and an extension rebuilt meanwhile;
  `MaxFaults` 1, since a failure must survive what succeeds after it.

Symmetry (builders, workflow runs, testers) is used where the processes differ
in nothing, and only in runs without liveness properties.

Deadlock is checked except in `input_plan`, where a finished plan is the end,
and in the runs of `BuildCell`, `Publish`, `GcBundles` and `TestSuite`, where
cells, workflow runs and calls are bounded and end.

Fairness.  Only `RunEnds` needs it: weak fairness of the actions of a run.  The
installer is one sequential process, and what it waits for, `wg.Wait` in
`ExtractParallel`, waits for goroutines that all return.  No fairness is
assumed of the workflow (`Begin`, `NewMachine`), and `Abort` is not a
precondition for ending.  That builds and tests end is not stated: what could
keep them from it are waits for docker and for the sidecar registry, of which
only the latter has a timeout, and they are not steps of the models.

## Findings

Runs that end in a violation, each of a statement the repository makes:

| Run | Property | What happens |
|---|---|---|
| `setup_leftover` | `DisabledIsNotLoaded` | an earlier run's loading fragment is still in conf.d, and disabling only writes comments |
| `build_revert` | `LockfileIsCurrent` | after a tree is reverted, the cell hits the old manifest and the lockfile names the newer one: tests run on bundles of another tree |
| `publish_flavour` | `LockedAsBuilt` | the noble job's layout is promoted over the jammy job's under the same tags, and locked under the builder OS of jammy |
| `gc_release` | `ReleasedArePresent` | entries of a schema-1 lockfile do not parse in the sweep, so the bundles of that release are deleted |

`build_revert` needs no failure and one process; `publish_flavour` every
ordinary run of the workflow; `gc_release` a release with a lockfile from
before spec hashes, which phpup itself still reads.

Found with the same models, and left without runs of their own:

* `findSO` (`cmd/phpup/main.go` 575) takes the first build in walk order: on a
  machine that has installed two PHP versions, that of the older one.
* The fallback of a thread-safe request to NTS (`internal/resolve`) applies to
  the core and not to its extensions, so with any separate extension the soft
  fallback ends in an error.
* Where the list and the coverage input disagree about a driver, the code
  installs and loads it.  `extensions: xdebug` with `coverage: pcov` gives both
  drivers, while the comment says coverage "will disable xdebug" (`plan.go` 181);
  `extensions: :xdebug` with `coverage: xdebug` gives xdebug, while the design
  "yields `[]`" (`2026-04-20-phase2-compat-closeout-design.md` 151).
* A core from before the kind was written into sidecars passes the schema check,
  since `MinBundleSchema("")` is 0 (`version.go` 22-23).  Over a newer core it
  takes that core's php.ini templates, and seeds a marked cache entry with them;
  on a fresh machine it ends in the "hard error with explicit path" that the same
  design asks for at 157.
* A process killed in its write of `index.json` leaves a layout that no build
  can use any more, forced or not, until somebody removes it; the bundles in it
  are still there as blobs, but nothing names them.
* `phpup test --fixtures F` selects cells by F and judges the repository's
  fixtures in them.  A fixture that only F has is never run, and the call ends
  well, also where the container finds nothing to judge (`testcell.go` 246).
* Two calls of `phpup test` share one lockfile.  One that has listed the layout
  before a push and writes after the other has started its container puts the
  older lockfile under that container, whose fixtures then pass on bundles that
  are older than its own listing.
* A run that saw no marker truncates files of a cache entry that has been
  marked since; a hit meanwhile takes torn files.  `NothingMissing` is what
  stays true; a hit in a new container exports fragments that name shared
  objects of an install directory that is not there (`Seed` skips symlinks).
* The place of the wrapper's binary names no version, so a job runs what an
  earlier version left (`FirstBinaryStays` says this, for the good and the bad
  of it); a commit has no release, so its jobs take the latest of the moment; a
  floating major is refused as soon as the latest release is of another major;
  and a machine where a download was killed, or broke off while the file was
  being opened, fails every later job until its tool cache is cleared.
* What `build_revert` shows of a local layout also happens in publishing: a tree
  that is new but has one cell's spec hash of an earlier tree restores a layout
  that has the old manifest, finds it current and builds nothing, and `PushAll`
  promotes the last manifest of the key, that of the tree in between.  A tree
  that comes back as a whole is saved under its own cache key and is not
  affected.  `LockDescribesTree` excepts exactly this.
* `phpup build cell --force` for a tree that is in the layout already builds the
  core again, and then links the extensions against the earlier one: "resolve
  the just-built php-core digest" (`build.go` 473) is a lookup by spec hash,
  which finds the first manifest, while the lockfile takes the last.  Both cores
  are of one spec hash.  `LinkedAgainstLocked` excepts exactly this; without the
  exception TLC finds it in two builds of one process.
* The spec hash `lockfile-update` records never equals the one the bundle was
  built under (`RecordedHashNeverMatches`), so `phpup plan` would never
  skip a cell; no workflow calls it.

## Proofs

`PlanCache_proofs`, for any finite or infinite sets of runs, files and versions:

* `TypeCorrect`.
* `NeverMissing == Spec => []NothingMissing`.  `NothingMissing` alone is not
  inductive: the marker can be written because a walk has passed all files,
  and a hit is taken because of the marker.  `PresenceInv` adds both: behind a
  walk no file is absent (`WalkedIsPresent`), and a hit implies the marker.
  It holds with any number of runs, since nothing ever removes a file.
* `OneTreePerMarker == Spec => []MarkedIsOneTree` and
  `Publishes == Spec => PublishedOnce`, from `SerialInv`: where runs do not
  overlap there is at most one (`OneAtATime`), it seeds only without a marker,
  behind its walk all texts are its own, and the file it has open is still as
  it was truncated (`WalkedIsOwn`), so no other text can show through.  With
  overlap each of these fails, and so does the conclusion.

`ActionWrapper_proofs`, for any sets of machines, versions, majors and commits:

* `TypeCorrect`, `ExecutesWhole == Spec => []RunsWholeBinary`,
  `DownloadsFollowRef == Spec => []OwnDownloadFollowsRef` and
  `BinaryIsFinal == Spec => FirstBinaryStays`, from `WrapperInv`.  What is run
  is whatever the file was when its permission was given, so `DiskInv` follows
  both: an executable file is a release with binaries, and no job is on its way
  to a download while there is a file.  `JobInv` follows the release from the
  ref to the file (`FollowsRef`).  The step of a machine is `OwnStep`, those of
  the other machines and of the project are `OthersKeep`, which needs that a
  release never loses its binaries.

`PhpupSetup_proofs`, for any plans, lockfiles, extensions and digests that meet
the assumptions at the head of the modules:

* `TypeCorrect == Spec => []TypeOK`.  `TypeInv` adds that past resolution the
  plan is resolvable and that only items of the plan are extracted; without
  that, a digest would be looked up under a key the lockfile does not have.

* `SetupInvariant == Spec => []SetupInv`, the inductive invariant of the other
  theorems, in three parts.  `TypeInv` as above.  `InstallInv` follows a run
  through its phases: past the schema check the core has templates or is `Bare`
  (the minimum for the kind php-core is the first schema with templates, and no
  other kind is known to have any), past a successful extraction the core is its
  own and so are the templates, unless it is bare, then
  php.ini, then the values, and from `export` on all of them together; none of
  this depends on what the directory held before.  `CacheInv` follows the
  entries: only an unmarked entry is seeded, what is marked `Holds` the core and
  ini files of a request this machine has served under that hash, and a hit
  takes the entry of its own hash.
* `InstallReplaces == Spec => []InstallReplacesCore`,
  `SchemaCheckSuffices == Spec => []SchemaCheckCoversTemplates` and
  `MarkedIsFinal == Spec => MarkedEntriesAreFinal`, from `SetupInv`.  Nothing is
  assumed of the kind of a locked core.
* `HashCoversPlan`: plans of one hash that resolve against the same lockfile
  get the same core, extensions and ini layers.  Fail-fast is not in the hash;
  the proof shows why that is harmless: where it decides about the fallback,
  only one of the two plans resolves.
* `HitsServe == Spec => []HitServesOwnPlan`, from `SetupInv` and
  `HashCoversPlan`.  It needs `OneVersion`, all requests with one lockfile:
  without it the entry may hold the core of another lockfile, since the hash
  does not cover the lockfile.
* `MachineInvariant == Spec => []MachineInv` adds five parts to `SetupInv`, for
  what does depend on the directory's past.  `TemplatesInv` says that on a machine
  that has served no core with templates there is none, nor an ini file made of
  one; so a bare core that has the machine to itself fails, rather than
  exporting another core's settings.  `OriginInv` says of everything on
  the machine that is neither torn nor of this run which request put it there:
  each shared object under its API directory, each fragment, the opcache
  loader.  `ModulesInv` follows the modules of a run: extracted, found by
  `findSO`, loaded by its conf.d, copied by `Seed`.  `EntryInv` says that a
  marked entry has a fragment for each extension of the plans of its hash.
  `SingleInv` says of a machine of one request that the marked entry, and the
  install directory its fragments name, are those of the run that marked it; a
  later run that is killed half way does not get to them, since it hits.
* `ExtensionsLoaded == Spec => []RequestedExtensionsLoaded`: with one PHP
  version all builds of an extension are under one API directory by
  `OriginInv`, so what the walk of `findSO` finds is what `ModulesInv` says was
  extracted.
* `MarkedAreWhole == Spec => []CompleteEntriesAreWhole`, from `EntryInv` and
  `SetupInv`, whoever shares the machine.
* `ReadyAsResolved == Spec => []EnvironmentAsResolved`, part by part of the
  environment, from all of `MachineInv`: nothing is missing by `ModulesInv` and
  `SingleInv`, nothing is there in addition by `OriginInv`.
* `ContractKept`: with one request per machine (`MaxTenants = 1`) and no
  containers, `Spec` implements `SetupContract`: initial states map to initial
  states, and each step to a step of the contract or a stutter
  (`KeepsContract`).  `OneTenantInv` is that the only request served is the one
  under way.  A step to ready must give exactly what was promised, which is
  `EnvironmentAsResolved` of the state it leads to.

`PlanInput_proofs`, for extension lists of any length and order and every other
input:

* `TypeCorrect`.
* `ListRead == Spec => []ListAsWritten`, `DriverRead` and `OpcacheRead`, from
  `InputInv`.  The loop of `ParseExtensions` keeps sets and forgets the list;
  the properties are about positions in it.  `AsListed` connects the two at
  every token: what the sets hold is what the tokens read so far count, a
  token counting if no `none` comes after it.  A `none` at the end is the step
  that needs thought: it takes away the count of all earlier tokens at once.
  `AsCovered` is the same after `ApplyCoverage`, which moves the drivers only.

`GcBundles_proofs`, for any trees, jobs, workflow runs and bounds:

* `CommitsKept == Spec => NoCommitLost`.  It needs that `main` is a sequence,
  and that a run which commits has the head of `main` as its base: the lease.
* `SweepsSpareTheLocked == Spec => []LockedArePresent`.  The property is about
  the registry, the lockfile and a sweep's view, which three actors change, and
  says nothing of what is under way.  `GcInv` adds that.  `ResolvedArePresent`
  follows a digest from a tag into the lockfile a run is putting together: it
  is in the registry at every moment before the commit, unless a sweep raced.
  `SweepIsAlone` follows the sweep: while it goes on no run is active, what it
  was told is referenced covers the head and the releases still, and no
  candidate is referenced; so a deletion can only take what none of them names.
  A release made during the sweep takes the head, which is covered.
  `MainShape` and `StateShape` are the shapes the provers need.  The lemmas
  follow the actions; `CommitByCommit` is the one about the head of `main`
  and the released commits before it.
* `TypeCorrect == Spec => []TypeOK`, from `TypeInv` with `GcInv`: no tag,
  lockfile, saved layout, candidate or version names a bundle that was not
  built.  It follows digests through five places, and only by what `made`
  grows with do they get there (`Grown`).
* `EntriesOfHistory == Spec => LockedFromHistory`, about runs that overlap in any
  way.  Between the look at a tag and the commit another run may move the tag,
  so that what is locked can be of another tree than what is committed.
  `HistoryInv` says what it still is: every bundle is built for a cell of a tree
  that is on `main` (a run starts at a commit, and `main` only grows); whoever
  promotes a manifest puts it under the tag of its own key; and since a tag names
  one cell (`TagNamesCell`), what a run finds under the tag of a cell has the key
  under which it enters it in the lockfile.
* `LockfileDescribes == Spec => LockDescribesTree`, the longest argument here,
  since it leads from a layout saved by an earlier run to the lockfile of this
  one.  `SavedInv` is about saved layouts: their manifests are in the order of
  the commits they were built at (`InTurn`), and the last manifest of each key
  is of the layout's own tree (`Fresh`), unless the cell came back.  `KeepingInv`
  says of a run that goes on alone what it has done: the queue of `PushAll`
  keeps `Fresh` when the layouts of jobs are joined and when its head is
  promoted; a cell with nothing left in the queue has its tag on a bundle of
  the tree (`TagIsFresh`), and the lockfile takes it from the tag.  `AloneInv`
  is why nothing moves a tag or `main` meanwhile.

`BuildCell_proofs`, for any processes, trees, catalogs, cells and flavours, and
any number of cells begun, processes killed and steps failed:

* `IndexIsKept == Spec => IndexGrows`.  `Push` appends to the index it read two
  steps before.  `AloneInv` says why that is the current one: where builds do
  not overlap at most one process is live, and a process about to append holds
  a copy equal to the layout, which is not torn.  On a torn one no process gets
  as far as that.
* `KeepsNewest == Spec => KeepsNewestBuilds`, the refinement of `NewestBuilds`
  by `SynthesizedLockfile(layout)`, with the length of the index as the number
  of publications and `past.overlap \/ torn` as the disturbance.  Initial states
  map to initial states, and every step to a publication, a disturbance or a
  stutter.  `NewestInv` is why a publication is of a newer build: the bundle a
  sub-build holds, or has at its path, is newer than the whole layout from the
  moment its container makes it, because no other process is live and no
  container of a killed one has the directory any more.  It holds while trees
  are edited, where `OwnDir` does not.  `LockfileOfPush` is the lemma about the
  lockfile: an append changes the entry of one key.
* `SidecarsServeTheirOwn == Spec => []SidecarsAreOwn`, from `SidecarInv` and
  `TodoInv`.  `IsServed` follows a sub-build that is alone from the sweep on (no
  sidecar is left but lost ones, then its own, empty, then its own with the
  resolved core); `SidecarsOwned` says that each sidecar is of a sub-build under
  way, or of a process that was killed, or lost: docker was asked to remove it
  and did not.  The sweep may fail for any of them and the stop for its own.  A
  lost sidecar is not in the way, since a container asks the one of its own
  sub-build.  That what is seeded is what was asked for needs `TodoInv`: an
  extension is not reached without a resolved core, and `Fetch` gives any bundle
  of the name for a request without a digest.
* `PushedIsAsAnnotated == Spec => []PushedAsAnnotated`, from `OutDirInv`.  The
  spec hash is computed first, the tree read by the container later, the
  bundle read from a path after that.  `OwnDir` follows the three: the hash is
  that of the live tree, the directory is mounted while the container writes,
  what is at the path at the end is the bundle of this run, and no container of
  a killed process writes there any more.  Other processes have another flavour
  and so another directory (`SlugsDiffer`, `OwnDirKept`); a kill leaves a writer
  in the killed build's directory only, which the next build of that flavour
  replaces before it mounts it.
* `TypeCorrect == Spec => []TypeOK`, from `DigestInv`: manifests, directories,
  sidecars, writers left behind and processes name no bundle that no container
  made.  A negative digest is a half written bundle of the positive one.
* `WarmIsFree == Spec => []WarmCellIsFree`, from `WarmInv`: all that is left of
  a warm cell is published under the tree's hashes, so each probe hits; the
  core is then found again by the same lookup (`CellInv`).
* `LinkedToOwn == Spec => []LinkedAgainstOwnTree`, from `SeededInv` and
  `TreeInv`, with no condition on overlap.  Builds of one `--os` share output
  directories and sweep each other's sidecars, so a container may find no
  sidecar, or pack what another container wrote; `TreeInv` says that whatever
  is at that place is of the spec hash of the one who looks (`MakesOfTree`),
  because slugs name the cell, and as long as no tree is edited all builds
  under way are of the same tree.  `SeededInv` is that a sidecar serves nothing
  but the core of its own sub-build, however late it is seeded.
* `LockfileFollows == Spec => LockfileFollowsTree`, from `LayoutInv`: manifests
  are in the order of the trees they were built under (`InTurn`), and what a
  cell has left behind it is published (`HasBuilt`).  So the last manifest of a
  key is of the present tree, unless its hash came back.

* `LinkedIsLocked == Spec => []LinkedAgainstLocked`, from `LinkInv` with
  `LayoutInv` and `SidecarInv`.  The property speaks of a container that has
  linked, of a layout it does not see, and of a lockfile made later.  `HasCore`
  carries the core from the lookup to the container: a process has the core
  that the lookup would find now, since its extensions' pushes do not change
  what is found under the name of the core (`LookupOfPush`), and the one sidecar
  there is serves it (`IsServed`).  `FirstIsLast` joins the two ends: by `InTurn`
  the last manifest of the core's key is of the present hash, and where there is
  one such manifest it is also the first.

`TestSuite_proofs`, for any fixtures, calls and numbers of testers, builds and
failures:

* `TypeCorrect`, `NothingSkipped == Spec => []NothingWasSkipped` and
  `PassesAreCurrent == Spec => []TestedAreCurrent`, from `SuiteInv`, which is
  `CallOk` of every call, an operator of the call's state and the layout, and
  `LockInv`.
* `NothingWasSkipped` is about the end of a call; `CellsOk` and `InCell` say it
  of the middle.  Each cell is still to come, or an error is remembered, or it is
  `Done`: the call's file has nothing for it, or all fixtures of the repository's
  have passed; within a container each fixture is still to come,
  or a failure is remembered, or it has passed.  The failure of the container
  becomes the error of the call in `EndCell`.  What connects this to the request
  are two lemmas.  `EveryCell` finds the place of a cell in the three loops,
  from its places in the three lists after they were normalised and
  deduplicated.  `FoundByAnyName` says that a fixture is found under the
  normalised names when it is for any name of the same machine.
* `TestedAreCurrent` is about what is installed, when several calls overwrite
  one lockfile, each a while after it has read the layout.  `LockInv`: whoever
  wrote it last, the lockfile is empty, or of a layout at least as new as what
  every container under way goes back to (`since`); and so is each listing that
  is still to be written, so that a late write keeps this.  A container that
  starts goes back to the oldest of those listings, its own among them
  (`OldestIsFirst`).  `BoxOk` follows the tool
  cache: the core of an entry, and the modules in the install directory that
  its fragments load, are each current since the cell began.  An entry that was
  seeded before a newer lockfile came is hit with newer modules; the two are
  current, though not of one moment (`NeededIsCurrent`, `BoxInstalled`,
  `UsedIsCurrent`).

Two of these proofs failed first, for good reason, and changed the model:

* `LockfileFollowsTree` excepted every tree that came back as a whole.  The
  proof needs, and gives, an exception for the single bundle whose hash came
  back (`CameBack`); the other bundles of such a tree are now covered.
* `LockDescribesTree` had no exception, and was only true because two trees
  were too few: `InTurn` of a saved layout could not be kept.  With a third tree
  TLC finds the counterexample described under "Findings".  The property now
  names the exception, and `registry_life` has three trees.  It is also about
  the cells that the jobs build and no longer about all of the catalog, which
  was the same thing only in an instance where one job builds all of it.

`SharedFacts` holds the lemmas that several of these proofs cite: about sequences
that grow, lose their head or are joined; that a key, a tag and a directory each
name one cell; what the first and the last match of an index are, and what a
push changes in the lockfile (`LockfileOfPush`) and in a lookup (`LookupOfPush`).
Its theorems hold between packages that compute one thing each in its own way,
where nothing but a comment keeps them together, for every catalog and tree:

* `DiscoveryMirrorsPlanner`: what `discoverExtensionsForCell` finds
  (`build/cell.go` 37) is what the planner's matrices hold for that cell, in the
  first version of the catalog (the comment is `cell.go` 20).
* `TagFindsCell`: the tag `phpup push` derives from a key (`build/push.go` 98) is
  the one `lockfile-update` asks for, for the same cell and no other.
* `HashNamesItem`: among all that is built, equal spec hashes mean one cell.  An
  extension's version is not hashed; the proof uses that the version built is
  the first of the catalog entry, which is.
* `RecordedHashNeverMatches`: the hash `lockfile-update` records is never one a
  build or the planner computes (see "Findings").  A hash is modelled as what it
  is taken of, so the theorem is about its inputs.

The assumptions on constants are those the code guarantees: a plan has been
through `ApplyCoverage`, a lockfile maps keys to digests, `Absent` and `Torn`
are no digests, and no process is `Nobody` or `Lost`, who own the sidecars that
killed processes and failed removals leave.  `MetaAssumption` is about sidecars:
one that says php-core and a schema of 2 or more is of a build that ships the
templates; one that says less may be of any.  `IsCatalog` is what loading a
catalog makes sure of: there are finitely many extensions, an extension has a
name (`catalog.go` 227), so that it is not taken for a core, and its list of
versions is empty or has a first one.  `CatalogAssumption` and
`PublishAssumption` ask this of every tree, with the cores that are built being
cells of the catalog; the latter also that there is a first tree, whose bundles
an earlier run has published.  Of `phpup test`, `FixturesAssumption` is that
`fixtures.yaml` is a list whose fixtures name a coverage driver or none,
`RequestsAssumption` that a call names its machines and versions in lists, never
by the empty name (`splitCSV` drops it), and that its own fixtures are a list,
and `ImagesAssumption` that manifests have digests.  TLC evaluates them in every
run.

Only model-checked, and why:

* `RunEnds`: liveness under fairness.
* The runs that end in a violation: those statements are false.

The loops of the code over lists (`FirstSeen`, `Filter`, `ListKeyed`) are written
with the places of a sequence that are kept (`At`), so that what they return is
a fact about sets of places and needs no induction over data (`AtPlaces`).

## Not modelled

* Archive, JSON and ini formats, HTTP, retries inside libraries, apt, `php -v`.
* The content of the compatibility tables (which extensions are bundled, which
  ini values a version gets) beyond which input selects them.
* `FetchBundles` is all bundles or an error: the goroutines behind it share
  nothing but an error channel.
* `hermeticaudit` and `compatdiff`: each reads two inputs and prints what it
  thinks of them.  There is no state and no order in them; what could be wrong
  is the parsing and the tables, which an abstraction leaves out.
* Compilation in the builder scripts, and the parts of the workflows that only
  run checks (lint, unit, smoke, compatibility), watch upstream, or open issues.
* Waits: `docker run`, and the poll for a sidecar registry to answer
  (`sidecar.go` 314).  A wait that fails is the step's failure (`Fail`); one that
  does not end is a process that takes no step.
* The sweep's references from more than 500 releases, which is all that `gh
  release list` is asked for, and from branches other than `main`.
* The test cell's check of the version `php -v` prints: a bundle is what its key
  says.
* Blobs, authentication and pagination of registries; ports and networks of
  sidecars.
* `phpup plan`'s skip decision: one lookup in a registry, called by no workflow.

## Plan

`ActionWrapper` composed with `PhpupSetup`: which lockfile a pinned action
installs from (both modules are there; the composition is not).

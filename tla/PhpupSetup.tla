---------------------------- MODULE PhpupSetup ----------------------------
(***************************************************************************)
(* A machine on which `phpup install` runs again and again: one job or     *)
(* several, the same action version or others.  Each run goes through the  *)
(* phases of main in cmd/phpup/main.go and may be killed, or end in        *)
(* log.Fatalf, in every one of them.  The install directory (BUILDRUSH_DIR)*)
(* and the tool cache are what one run leaves to the next.                 *)
(*                                                                         *)
(* A file is represented by the digest of the bundle it came from.  All    *)
(* files of a core that keep their path from version to version are one    *)
(* file, bin; shared objects lie under a directory named after the build's *)
(* thread safety and API date, so each build has paths of its own.         *)
(***************************************************************************)
EXTENDS PhpPlan, FiniteSets

CONSTANTS
  Requests,       \* the installs jobs ask for: a plan (after ApplyCoverage)
                  \* and the lockfile of the action version in use
  MetaOf,         \* MetaOf[d]: the sidecar the registry returns for digest d
  Templated,      \* the cores whose bundle ships the php.ini templates
  SharedOpcache,  \* versions whose core has opcache as a shared object
  Absent, Torn,   \* no file; a file whose writing was cut short
  Containers,     \* TRUE: jobs in containers, the tool cache mounted
  MaxTenants      \* bound: different requests that one machine serves

Plans == {r[1] : r \in Requests}
Locks == {r[2] : r \in Requests}

ASSUME RequestsAssumption == Requests \subseteq Plans \X Locks
ASSUME PlansAssumption ==
  /\ Plans \subseteq Plan
  /\ \A p \in Plans : ApplyCoverage(p) = p
ASSUME LocksAssumption == \A l \in Locks : IsLockfile(l)
\* A sidecar from before the kind was written names none (Fetch gives it "" and
\* schema 1); one that says php-core and a schema of 2 or more is of a build
\* that ships the templates.
ASSUME MetaAssumption ==
  /\ MetaOf \in [Digests -> [kind : {"php-core", "php-ext", ""}, schema : Nat]]
  /\ Templated \subseteq Digests
  /\ \A d \in Digests :
       MetaOf[d].kind = "php-core" /\ MetaOf[d].schema >= 2 => d \in Templated
ASSUME SharedAssumption == SharedOpcache \subseteq Versions
ASSUME NamesAssumption == "php" \notin Names /\ "opcache" \notin Catalog
ASSUME AbsentAssumption ==
  /\ Absent \notin Digests /\ Torn \notin Digests /\ Absent # Torn
  /\ Absent \notin [ts : ThreadSafety, php : Versions]
  /\ Absent \notin IniSettings
  /\ Absent \notin {<<"none">>} \cup (IniFiles \X (Digests \cup {Torn}))
ASSUME BoundAssumption == Containers \in BOOLEAN /\ MaxTenants \in Nat

VARIABLES
  pc,      \* the phase the run is in, or how the last one ended
  plan,    \* its plan
  lock,    \* its lockfile
  at,      \* the directory whose environment it exports
  todo,    \* bundles not yet extracted
  bad,     \* an extraction failed
  base,    \* the install directory
  cache,   \* the tool cache, an entry per plan hash
  env,     \* what GITHUB_PATH and GITHUB_ENV say
  served   \* the requests this machine has run so far

vars == <<pc, plan, lock, at, todo, bad, base, cache, env, served>>
run  == <<plan, lock>>
local == <<at, todo, bad>>

Ended  == {"idle", "ready", "failed"}
Phases == {"resolve", "check", "fetch", "schema", "extract", "compose",
           "opcache", "baseini", "values", "export", "seed",
           "marker"}

Api    == [ts : ThreadSafety, php : Versions]
Hashes == {Hash(p) : p \in Plans}
File   == Digests \cup {Absent, Torn}

InBase     == [in |-> "base"]
InCache(h) == [in |-> "cache", hash |-> h]
Nowhere    == [in |-> "nowhere"]
Locations  == {InBase, Nowhere} \cup {InCache(h) : h \in Hashes}

(***************************************************************************)
(* conf.d and php.ini: load[n] is the shared object the fragment of n      *)
(* loads by absolute path, opcache the loader that goes through            *)
(* extension_dir, which is always the one of the install directory.  The   *)
(* disable fragments are comments: they load nothing and are left out.     *)
(***************************************************************************)
NoConf ==
  [load |-> [n \in Names |-> Absent], opcache |-> FALSE, values |-> Absent,
   phpIni |-> Absent]

NoModules == [n \in Names |-> [a \in Api |-> Absent]]

EmptyBase ==
  [bin |-> Absent, tmpl |-> Absent, so |-> NoModules, conf |-> NoConf,
   link |-> [n \in Names |-> Absent]]

NoEntry ==
  [complete |-> FALSE, bin |-> Absent, conf |-> NoConf]

NoEnv == [path |-> Nowhere, phprc |-> Nowhere, scan |-> Nowhere]

Init ==
  /\ pc = "idle"
  /\ \E r \in Requests : plan = r[1] /\ lock = r[2]
  /\ at = Nowhere
  /\ todo = {}
  /\ bad = FALSE
  /\ base = EmptyBase
  /\ cache = [h \in Hashes |-> NoEntry]
  /\ env = NoEnv
  /\ served = {}

-----------------------------------------------------------------------------
Res == Resolve(plan, lock)

\* A bundle is built with the thread safety and the version of its key, which
\* name the directory that holds its modules.
CoreApi == [ts |-> Res.coreTS, php |-> plan.php]
ExtApi  == [ts |-> plan.ts, php |-> plan.php]

Items   == {"php"} \cup Separate(plan)
\* Mutant: the bundle before the extension's own, results[i] for results[i+1].
DigestOffByOne(i) == Res.core
Digest(i) == IF i = "php" THEN Res.core ELSE Res.exts[i]

\* Directory names in the order filepath.Walk visits them.
Before(a, b) ==
  \/ a.ts = "nts" /\ b.ts = "zts"
  \/ a.ts = b.ts /\ a.php < b.php

\* The first shared object of that name under the directory; Absent if none.
FindSO(n) ==
  LET found      == {a \in Api : base.so[n][a] # Absent}
      IsFirst(a) == \A b \in found \ {a} : Before(a, b)
  IN  IF \E a \in found : IsFirst(a) THEN CHOOSE a \in found : IsFirst(a)
      ELSE Absent

\* Mutant: the minimum for cores was not raised with the templates.
MinBundleSchemaNotRaised(kind) ==
  IF kind \in {"php-core", "php-ext"} THEN 1 ELSE 0

MinBundleSchema(kind) ==
  CASE kind = "php-core" -> 2
    [] kind = "php-ext" -> 1
    [] OTHER -> 0

AssertBundleSchema(d) == MetaOf[d].schema >= MinBundleSchema(MetaOf[d].kind)

HasTemplates(d) == d \in Templated

\* A core without templates whose sidecar does not say that it is a core: the
\* check has no minimum for it.
Bare(d) == ~HasTemplates(d) /\ MetaOf[d].kind # "php-core"

-----------------------------------------------------------------------------
\* What a process had in memory goes with it.
Gone == at' = Nowhere /\ todo' = {} /\ bad' = FALSE

Begin(p, l) ==
  /\ pc \in Ended
  /\ Cardinality(served \cup {<<p, l>>}) <= MaxTenants
  /\ pc' = "resolve"
  /\ plan' = p
  /\ lock' = l
  /\ Gone
  /\ served' = served \cup {<<p, l>>}
  /\ UNCHANGED <<base, cache, env>>

\* A failing call before the writes of a phase or after them, or a kill.
Abort ==
  /\ pc \in Phases
  /\ pc' = "failed"
  /\ Gone
  /\ UNCHANGED <<run, base, cache, env, served>>

\* Resolution and the apt packages of the extensions.
ResolvePlan ==
  /\ pc = "resolve"
  /\ pc' = IF Resolvable(plan, lock) THEN "check" ELSE "failed"
  /\ UNCHANGED <<run, local, base, cache, env, served>>

\* Mutant: the marker is not looked at.
CheckCacheNever ==
  /\ pc = "check"
  /\ at' = InBase
  /\ pc' = "fetch"
  /\ UNCHANGED <<run, todo, bad, base, cache, env, served>>

\* A store that cannot be opened is a nil pointer here: Abort.
CheckCache ==
  /\ pc = "check"
  /\ IF cache[Hash(plan)].complete
     THEN at' = InCache(Hash(plan)) /\ pc' = "export"
     ELSE at' = InBase /\ pc' = "fetch"
  /\ UNCHANGED <<run, todo, bad, base, cache, env, served>>

\* FetchAll: all the bundles by digest, or an error and Abort.
FetchBundles ==
  /\ pc = "fetch"
  /\ pc' = "schema"
  /\ UNCHANGED <<run, local, base, cache, env, served>>

CheckSchema ==
  /\ pc = "schema"
  /\ IF \A i \in Items : AssertBundleSchema(Digest(i))
     THEN pc' = "extract" /\ todo' = Items /\ UNCHANGED <<at, bad>>
     ELSE pc' = "failed" /\ Gone
  /\ UNCHANGED <<run, base, cache, env, served>>

(***************************************************************************)
(* ExtractParallel: one goroutine per bundle, in any order.  Files are     *)
(* opened with O_TRUNC and written; nothing else in the directory changes. *)
(***************************************************************************)
\* Mutant: an existing core is kept.
ExtractedOnce(i, f) ==
  IF i = "php"
  THEN IF base.bin = Absent THEN [base EXCEPT !.bin = f, !.tmpl = f] ELSE base
  ELSE [base EXCEPT !.so[i][ExtApi] = f]

Extracted(i, f) ==
  IF i = "php"
  THEN [base EXCEPT
          !.bin = f,
          !.tmpl = IF HasTemplates(Res.core) THEN f ELSE @,
          !.so["opcache"][CoreApi] = IF plan.php \in SharedOpcache THEN f
                                     ELSE @]
  ELSE [base EXCEPT !.so[i][ExtApi] = f]

ExtractItem(i) ==
  /\ pc = "extract"
  /\ i \in todo
  /\ base' = Extracted(i, Digest(i))
  /\ todo' = todo \ {i}
  /\ UNCHANGED <<pc, run, at, bad, cache, env, served>>

\* The archive or the disk fails on the way; the others still run to the end.
ExtractItemFails(i) ==
  /\ pc = "extract"
  /\ i \in todo
  /\ base' = Extracted(i, Torn)
  /\ todo' = todo \ {i}
  /\ bad' = TRUE
  /\ UNCHANGED <<pc, run, at, cache, env, served>>

\* Mutants: the errors are dropped; the collector waits for a success of all.
ExtractDoneIgnoringErrors ==
  /\ pc = "extract"
  /\ todo = {}
  /\ pc' = "compose"
  /\ UNCHANGED <<run, local, base, cache, env, served>>

ExtractDoneOnSuccess ==
  /\ pc = "extract"
  /\ todo = {}
  /\ ~bad
  /\ pc' = "compose"
  /\ UNCHANGED <<run, local, base, cache, env, served>>

ExtractDone ==
  /\ pc = "extract"
  /\ todo = {}
  /\ IF bad THEN pc' = "failed" /\ Gone
     ELSE pc' = "compose" /\ UNCHANGED local
  /\ UNCHANGED <<run, base, cache, env, served>>

\* Compose: a symlink in extension_dir and a loading fragment per extension.
Composed(es) ==
  [base EXCEPT
     !.link = [n \in Names |-> IF n \in es THEN FindSO(n) ELSE base.link[n]],
     !.conf.load = [n \in Names |-> IF n \in es THEN FindSO(n)
                                   ELSE base.conf.load[n]]]

ComposeExtensions ==
  /\ pc = "compose"
  /\ pc' = "opcache"
  /\ base' = Composed(Separate(plan))
  /\ UNCHANGED <<run, local, cache, env, served>>

LoadOpcache ==
  /\ pc = "opcache"
  /\ pc' = "baseini"
  /\ base' = IF OpcacheWanted(plan) /\ FindSO("opcache") # Absent
             THEN [base EXCEPT !.link["opcache"] = FindSO("opcache"),
                               !.conf.opcache = TRUE]
             ELSE base
  /\ UNCHANGED <<run, local, cache, env, served>>

SelectBaseIniFile ==
  /\ pc = "baseini"
  /\ IF plan.iniFile = "none"
     THEN /\ base' = [base EXCEPT !.conf.phpIni = <<"none">>]
          /\ pc' = "values" /\ UNCHANGED local
     ELSE IF base.tmpl # Absent
     THEN /\ base' = [base EXCEPT !.conf.phpIni = <<plan.iniFile, base.tmpl>>]
          /\ pc' = "values" /\ UNCHANGED local
     ELSE pc' = "failed" /\ Gone /\ UNCHANGED base
  /\ UNCHANGED <<run, cache, env, served>>

\* Mutant: the user's own values are dropped.
WriteIniValuesWithoutUser ==
  /\ pc = "values"
  /\ pc' = "export"
  /\ base' = [base EXCEPT !.conf.values = [IniLayers(plan) EXCEPT !.user = ""]]
  /\ UNCHANGED <<run, local, cache, env, served>>

\* 99-user.ini from the compat layers and the user's values.
WriteIniValues ==
  /\ pc = "values"
  /\ pc' = "export"
  /\ base' = [base EXCEPT !.conf.values = IniLayers(plan)]
  /\ UNCHANGED <<run, local, cache, env, served>>

\* The same four phases cut short between two writes.  An ini file that was
\* only truncated is an empty one.
ComposeFails ==
  /\ pc' = "failed"
  /\ \/ /\ pc = "compose"
        /\ \E es \in SUBSET Separate(plan) : base' = Composed(es)
     \/ /\ pc = "opcache"
        /\ OpcacheWanted(plan) /\ FindSO("opcache") # Absent
        /\ base' = [base EXCEPT !.link["opcache"] = FindSO("opcache")]
     \/ /\ pc = "baseini"
        /\ base' = [base EXCEPT !.conf.phpIni = <<"none">>]
     \/ /\ pc = "values"
        /\ \E v \in {Absent, IniLayers(plan)} :
             base' = [base EXCEPT !.conf.values = v]
  /\ Gone
  /\ UNCHANGED <<run, cache, env, served>>

ExportEnv ==
  /\ pc = "export"
  /\ env' = [path |-> at, phprc |-> at, scan |-> at]
  /\ pc' = IF at = InBase THEN "seed" ELSE "ready"
  /\ UNCHANGED <<run, local, base, cache, served>>

\* One of the appends fails after the ones before it.
ExportEnvFails ==
  /\ pc = "export"
  /\ \/ env' = [env EXCEPT !.path = at]
     \/ env' = [env EXCEPT !.path = at, !.phprc = at]
     \/ env' = [path |-> at, phprc |-> at, scan |-> at]
  /\ pc' = "failed"
  /\ Gone
  /\ UNCHANGED <<run, base, cache, served>>

-----------------------------------------------------------------------------
(***************************************************************************)
(* Seed: a walk over the install directory, then the marker.  Every file   *)
(* is written over the one of an earlier, unfinished walk; symlinks are    *)
(* skipped.  The shared objects are copied too, but the copied conf.d goes *)
(* on naming those of the install directory: nothing reads the copies, and *)
(* an entry does not show them.                                            *)
(***************************************************************************)
Over(new, old) == IF new # Absent THEN new ELSE old

Seeded(e) ==
  [complete |-> e.complete,
   bin      |-> Over(base.bin, e.bin),
   conf     |-> [load    |-> [n \in Names |-> Over(base.conf.load[n],
                                                 e.conf.load[n])],
                 opcache |-> base.conf.opcache \/ e.conf.opcache,
                 values  |-> Over(base.conf.values, e.conf.values),
                 phpIni  |-> Over(base.conf.phpIni, e.conf.phpIni)]]

\* Mutant: the marker is written before the walk, which may then be killed.
SeedTreeMarkedFirst ==
  /\ pc = "seed"
  /\ \/ /\ pc' = "marker"
        /\ UNCHANGED local
        /\ cache' = [cache EXCEPT ![Hash(plan)] =
                       [Seeded(@) EXCEPT !.complete = TRUE]]
     \/ /\ pc' = "failed"
        /\ Gone
        /\ cache' = [cache EXCEPT ![Hash(plan)].complete = TRUE]
  /\ UNCHANGED <<run, base, env, served>>

SeedTree ==
  /\ pc = "seed"
  /\ pc' = "marker"
  /\ cache' = [cache EXCEPT ![Hash(plan)] = Seeded(@)]
  /\ UNCHANGED <<run, local, base, env, served>>

SeedMarker ==
  /\ pc = "marker"
  /\ pc' = "ready"
  /\ cache' = [cache EXCEPT ![Hash(plan)].complete = TRUE]
  /\ UNCHANGED <<run, local, base, env, served>>

\* A failing Seed is a warning: the run is ready, the entry unmarked.  The
\* copy may end, or be killed, in the middle of a file.
SeedFails ==
  /\ \/ /\ pc \in {"seed", "marker"}
        /\ pc' = "ready"
        /\ UNCHANGED <<cache, local>>
     \/ /\ pc = "seed"
        /\ \/ pc' = "ready" /\ UNCHANGED local
           \/ pc' = "failed" /\ Gone
        /\ cache' = [cache EXCEPT ![Hash(plan)].bin = Torn]
  /\ UNCHANGED <<run, base, env, served>>

-----------------------------------------------------------------------------
\* A fresh machine, as every job on a hosted runner gets.
NewMachine ==
  /\ pc \in Ended
  /\ pc' = "idle"
  /\ Gone
  /\ base' = EmptyBase
  /\ cache' = [h \in Hashes |-> NoEntry]
  /\ env' = NoEnv
  /\ served' = {}
  /\ UNCHANGED run

\* A new job container on the same host: only the tool cache is mounted.
NewContainer ==
  /\ Containers
  /\ pc \in Ended
  /\ pc' = "idle"
  /\ Gone
  /\ base' = EmptyBase
  /\ env' = NoEnv
  /\ UNCHANGED <<run, cache, served>>

Extract ==
  \/ \E i \in Items : ExtractItem(i)
  \/ \E i \in Items : ExtractItemFails(i)
  \/ ExtractDone

Install ==
  \/ ResolvePlan \/ CheckCache \/ FetchBundles \/ CheckSchema \/ Extract
  \/ ComposeExtensions \/ LoadOpcache \/ SelectBaseIniFile \/ WriteIniValues
  \/ ComposeFails \/ ExportEnv \/ ExportEnvFails
  \/ SeedTree \/ SeedMarker \/ SeedFails

Next ==
  \/ \E r \in Requests : Begin(r[1], r[2])
  \/ Abort
  \/ Install
  \/ NewMachine
  \/ NewContainer

Spec == Init /\ [][Next]_vars

\* One sequential process: unless it is killed, it takes its next step.
FairSpec == Spec /\ WF_vars(Install)
-----------------------------------------------------------------------------
\* What a step of the job that calls `php` gets from the exported environment.
Tree(where) == IF where = InBase THEN base ELSE cache[where.hash]

LoadedFrom(conf) ==
  [n \in Names |->
     IF n = "opcache"
     THEN IF conf.opcache /\ base.link[n] # Absent
          THEN base.so[n][base.link[n]] ELSE Absent
     ELSE IF conf.load[n] # Absent THEN base.so[n][conf.load[n]] ELSE Absent]

Provided ==
  [bin    |-> Tree(env.path).bin,
   so     |-> LoadedFrom(Tree(env.scan).conf),
   values |-> Tree(env.scan).conf.values,
   phpIni |-> Tree(env.phprc).conf.phpIni]

\* What a plan and a lockfile call for.
WantedModule(p, l, n) ==
  IF n \in Separate(p) THEN Resolve(p, l).exts[n]
  ELSE IF n = "opcache" /\ OpcacheWanted(p) /\ p.php \in SharedOpcache
  THEN Resolve(p, l).core
  ELSE Absent

WantedPhpIni(p, core) ==
  IF p.iniFile = "none" THEN <<"none">> ELSE <<p.iniFile, core>>

Wanted(p, l) ==
  [bin    |-> Resolve(p, l).core,
   so     |-> [n \in Names |-> WantedModule(p, l, n)],
   values |-> IniLayers(p),
   phpIni |-> WantedPhpIni(p, Resolve(p, l).core)]

-----------------------------------------------------------------------------
Confs ==
  [load : [Names -> Api \cup {Absent}], opcache : BOOLEAN,
   values : IniSettings \cup {Absent},
   phpIni : {<<"none">>} \cup (IniFiles \X File) \cup {Absent}]

Trees ==
  [bin : File, tmpl : File, so : [Names -> [Api -> File]], conf : Confs,
   link : [Names -> Api \cup {Absent}]]

Entries == [complete : BOOLEAN, bin : File, conf : Confs]

TypeOK ==
  /\ pc \in Ended \cup Phases
  /\ plan \in Plans
  /\ lock \in Locks
  /\ at \in Locations
  /\ todo \subseteq {"php"} \cup Names
  /\ bad \in BOOLEAN
  /\ base \in Trees
  /\ cache \in [Hashes -> Entries]
  /\ env \in [path : Locations, phprc : Locations, scan : Locations]
  /\ served \subseteq Requests

(***************************************************************************)
(* On a machine that serves one plan with one lockfile, a run that reports *)
(* "PHP ready" exports exactly the environment its plan and lockfile call  *)
(* for: the core, the modules and the ini files, whether it installed or   *)
(* took a cached tree, and whatever runs were killed or failed before it   *)
(* (main.go 242-258 and 303-445).                                          *)
(***************************************************************************)
EnvironmentAsResolved ==
  pc = "ready" /\ served = {<<plan, lock>>} /\ ~Containers =>
    Provided = Wanted(plan, lock)

\* The php.ini of a plan, made of its own core's template.  A bare core, which
\* has none, takes the one that lies in the install directory.
IniAsWanted(ini, p, core) ==
  IF Bare(core) /\ p.iniFile # "none"
  THEN ini \in {p.iniFile} \X (Digests \cup {Torn})
  ELSE ini = WantedPhpIni(p, core)

(***************************************************************************)
(* Whoever shares the machine: a run that installs leaves the core, the    *)
(* php.ini and the ini values of its own plan in effect, over what every   *)
(* earlier run left in the never-wiped install directory.  The php.ini of  *)
(* a bare core may be another core's (see SchemaCheckCoversTemplates).     *)
(***************************************************************************)
CoreAsWanted ==
  /\ Provided.bin = Wanted(plan, lock).bin
  /\ Provided.values = Wanted(plan, lock).values
  /\ IniAsWanted(Provided.phpIni, plan, Res.core)

InstallReplacesCore == pc = "ready" /\ at = InBase => CoreAsWanted

(***************************************************************************)
(* With one action version, whatever plans share the machine: a hit serves *)
(* the core, php.ini and ini values of the plan that hit, so the hash      *)
(* covers every input they depend on (plan.go 214-234), and no leftover of *)
(* another plan in the install directory gets into the entry.              *)
(***************************************************************************)
OneVersion == \A r \in served : r[2] = lock

HitServesOwnPlan ==
  pc = "ready" /\ at # InBase /\ OneVersion => CoreAsWanted

(***************************************************************************)
(* As long as a machine keeps to one PHP version, an installing run loads  *)
(* every extension it was asked for, from the bundle its lockfile names:   *)
(* findSO (main.go 568-584) has a single build to find.                    *)
(***************************************************************************)
OneBuild == \A r \in served : r[1].php = plan.php /\ r[1].ts = plan.ts

RequestedExtensionsLoaded ==
  pc = "ready" /\ at = InBase /\ OneBuild =>
    \A e \in Separate(plan) : Provided.so[e] = Res.exts[e]

(***************************************************************************)
(* The marker is only on whole trees: a complete cache entry has an intact *)
(* core, the ini settings of its own plan and a loading fragment for each  *)
(* extension of that plan, although runs die in the middle of Seed and     *)
(* others seed over their remains (cache.go 47-86).                        *)
(***************************************************************************)
CompleteEntriesAreWhole ==
  \A p \in Plans :
    LET e == cache[Hash(p)]
    IN  e.complete =>
          /\ e.bin \notin {Absent, Torn}
          /\ e.conf.values = IniLayers(p)
          /\ IniAsWanted(e.conf.phpIni, p, e.bin)
          /\ \A x \in Separate(p) : e.conf.load[x] # Absent

(***************************************************************************)
(* The schema check before extraction (main.go 295-301) is strong enough   *)
(* for what follows as far as sidecars name their kind: no run gets to the *)
(* base ini file with such a core and no templates, or only those of an    *)
(* earlier core.  A sidecar without a kind has no minimum (version.go 22), *)
(* so only its core having templates helps: a bare core goes on with those *)
(* of an earlier core, or fails when it finds none.                        *)
(***************************************************************************)
SchemaCheckCoversTemplates ==
  pc = "baseini" /\ ~Bare(Res.core) => base.tmpl = Res.core

\* A marked entry never changes again: only a missing marker leads to Seed.
MarkedEntriesAreFinal ==
  [][\A h \in Hashes :
       cache[h].complete => cache'[h] = cache[h] \/ served' = {}]_vars

(***************************************************************************)
(* A run comes to an end, with an environment or an error: ExtractParallel *)
(* waits for goroutines that all return (extract.go 95-114).               *)
(***************************************************************************)
RunEnds == pc \in Phases ~> pc \in Ended

(***************************************************************************)
(* The contract with the workflow (SetupContract): a request is answered   *)
(* by the environment promised for it or by a failure, and a delivered     *)
(* environment stays what it is until the next request.                    *)
(***************************************************************************)
Contract ==
  INSTANCE SetupContract WITH
    Requests <- Requests,
    Promise  <- LAMBDA r : Wanted(r[1], r[2]),
    Nothing  <- Absent,
    status   <- IF pc \in Phases THEN "running" ELSE pc,
    request  <- <<plan, lock>>,
    given    <- IF pc = "ready" THEN Provided ELSE Absent

KeepsContract == Contract!Spec

-----------------------------------------------------------------------------
(***************************************************************************)
(* An inductive invariant for the core and the ini files, whoever shares   *)
(* the machine.  Past resolution the plan is resolvable, past the schema   *)
(* check a core that says it is one has templates, and from then on each   *)
(* phase leaves its part of the install directory as the plan calls for.   *)
(***************************************************************************)
Resolved == (Phases \ {"resolve"}) \cup {"ready"}

TypeInv ==
  /\ TypeOK
  /\ pc \in Resolved => Resolvable(plan, lock)
  /\ pc = "extract" => todo \subseteq Items

CoreExtracted ==
  base.bin = Res.core /\ (HasTemplates(Res.core) => base.tmpl = Res.core)

\* The core and the ini files of a tree are those of a plan and a lockfile.
Holds(bin, conf, p, l) ==
  /\ bin = Resolve(p, l).core
  /\ conf.values = IniLayers(p)
  /\ IniAsWanted(conf.phpIni, p, Resolve(p, l).core)

InstallInv ==
  /\ pc \in {"fetch", "schema", "extract", "compose", "opcache", "baseini",
             "values", "seed", "marker"} => at = InBase
  /\ pc \in {"extract", "compose", "opcache", "baseini", "values"} =>
       HasTemplates(Res.core) \/ Bare(Res.core)
  /\ pc = "extract" /\ ~bad /\ "php" \notin todo => CoreExtracted
  /\ pc \in {"compose", "opcache", "baseini", "values"} => CoreExtracted
  /\ pc = "values" => IniAsWanted(base.conf.phpIni, plan, Res.core)
  /\ pc \in {"export", "seed", "marker", "ready"} /\ at = InBase =>
       Holds(base.bin, base.conf, plan, lock)
  /\ pc \in {"seed", "marker", "ready"} =>
       env = [path |-> at, phprc |-> at, scan |-> at]

(***************************************************************************)
(* And for the cache: a marked entry holds the core and the ini files of a *)
(* request this machine has served under its hash, only an unmarked entry  *)
(* is seeded, and a hit takes the entry of its own hash.                   *)
(***************************************************************************)
ServedFrom(h, r) ==
  /\ Hash(r[1]) = h
  /\ Resolvable(r[1], r[2])
  /\ Holds(cache[h].bin, cache[h].conf, r[1], r[2])

CacheInv ==
  /\ pc \in Phases \cup {"ready"} => <<plan, lock>> \in served
  /\ \A h \in Hashes :
       cache[h].complete => \E r \in served : ServedFrom(h, r)
  /\ pc \in {"fetch", "schema", "extract", "compose", "opcache", "baseini",
             "values", "seed", "marker"} => ~cache[Hash(plan)].complete
  /\ pc = "export" /\ at = InBase => ~cache[Hash(plan)].complete
  /\ pc = "marker" =>
       Holds(cache[Hash(plan)].bin, cache[Hash(plan)].conf, plan, lock)
  /\ pc \in {"export", "ready"} /\ at # InBase =>
       at = InCache(Hash(plan)) /\ cache[Hash(plan)].complete

SetupInv == TypeInv /\ InstallInv /\ CacheInv

-----------------------------------------------------------------------------
\* Statements of the documentation that a shared machine refutes.

(***************************************************************************)
(* compose.go on WriteDisableExtension: a disabled extension is not loaded *)
(* because "our composed PHP only loads what conf.d explicitly declares".  *)
(***************************************************************************)
DisabledIsNotLoaded ==
  pc = "ready" =>
    \A n \in DisabledExtensions(plan) : Provided.so[n] = Absent
=============================================================================

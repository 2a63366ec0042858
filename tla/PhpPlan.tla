------------------------------ MODULE PhpPlan ------------------------------
(***************************************************************************)
(* The pure part of one `phpup install`: the Plan built from the action's  *)
(* inputs (internal/plan), what the plan turns off (cmd/phpup/main.go),    *)
(* the hash that names its cache entry, and its resolution against a       *)
(* lockfile (internal/resolve, internal/lockfile).                         *)
(*                                                                         *)
(* An installer runs on one OS and architecture, so bundle keys carry only *)
(* what may differ between two runs on the same machine.  The pinned       *)
(* version of an extension is compiled into the binary together with the   *)
(* lockfile, so it is part of what a lockfile maps an extension key to.    *)
(***************************************************************************)
EXTENDS Naturals

CONSTANTS
  Versions,      \* PHP minors, ordered as the API dates of their modules are
  Names,         \* extension names a user may write
  Bundled,       \* Bundled[v]: extensions compiled into the core of v
  Catalog,       \* separately installable extensions (runtimeExtensionSpecs)
  IniValues,     \* values of the ini-values input
  Digests        \* bundle digests

ASSUME VersionsAssumption == Versions \subseteq Nat
ASSUME BundledAssumption  == Bundled \in [Versions -> SUBSET Names]
ASSUME CatalogAssumption  == Catalog \subseteq Names
ASSUME DriversAssumption  == {"opcache", "xdebug", "pcov"} \subseteq Names

Coverage     == {"none", "xdebug", "pcov"}
ThreadSafety == {"nts", "zts"}
IniFiles     == {"production", "development", "none"}

Plan ==
  [php : Versions, ts : ThreadSafety, coverage : Coverage,
   ext : SUBSET Names, excl : SUBSET Names, reset : BOOLEAN,
   iniFile : IniFiles, ini : IniValues, failFast : BOOLEAN, tools : BOOLEAN]

(***************************************************************************)
(* The tokens of the extensions input.                                     *)
(***************************************************************************)
Include(n) == [kind |-> "include", name |-> n]
Exclude(n) == [kind |-> "exclude", name |-> n]
None       == [kind |-> "none"]
Empty      == [kind |-> "empty"]
Token      == {Include(n) : n \in Names} \cup {Exclude(n) : n \in Names}
              \cup {None, Empty}

\* Mutant: "none" resets the includes only.
ParsedForgettingExcludes(p, t) ==
  CASE t.kind = "empty"   -> p
    [] t.kind = "none"    -> [p EXCEPT !.ext = {}, !.reset = TRUE]
    [] t.kind = "exclude" -> [p EXCEPT !.excl = @ \cup {t.name}]
    [] t.kind = "include" -> [p EXCEPT !.ext = @ \cup {t.name}]

\* One turn of the loop of ParseExtensions.
Parsed(p, t) ==
  CASE t.kind = "empty"   -> p
    [] t.kind = "none"    -> [p EXCEPT !.ext = {}, !.excl = {}, !.reset = TRUE]
    [] t.kind = "exclude" -> [p EXCEPT !.excl = @ \cup {t.name}]
    [] t.kind = "include" -> [p EXCEPT !.ext = @ \cup {t.name}]

\* Mutant: coverage: none, the default, takes listed drivers off the includes.
ApplyCoverageStripping(p) ==
  LET driver == {p.coverage} \ {"none"}
      others == {"xdebug", "pcov"} \ driver
  IN  [p EXCEPT !.ext = (@ \ others) \cup driver, !.excl = @ \cup others]

(***************************************************************************)
(* coverage: adds its driver to the includes and the others to the         *)
(* excludes.  The sorted, deduplicated slices of the code are sets here.   *)
(***************************************************************************)
ApplyCoverage(p) ==
  CASE p.coverage = "xdebug" ->
         [p EXCEPT !.ext = @ \cup {"xdebug"}, !.excl = @ \cup {"pcov"}]
    [] p.coverage = "pcov" ->
         [p EXCEPT !.ext = @ \cup {"pcov"}, !.excl = @ \cup {"xdebug"}]
    [] p.coverage = "none" ->
         [p EXCEPT !.excl = @ \cup {"xdebug", "pcov"}]

\* Excluded names and, after a reset, the bundled ones: an include wins.
DisabledExtensions(p) ==
  (p.excl \cup (IF p.reset THEN Bundled[p.php] ELSE {})) \ p.ext

\* Mutant: a reset does not reach opcache.
OpcacheExcludedByName(p) == "opcache" \in p.excl

OpcacheExcluded(p) ==
  \/ "opcache" \in p.excl
  \/ p.reset /\ "opcache" \notin p.ext

OpcacheWanted(p) == "opcache" \in Bundled[p.php] /\ ~OpcacheExcluded(p)

\* Mutant: the ini-values input is left out.
HashWithoutIni(p) ==
  [php |-> p.php, ts |-> p.ts, iniFile |-> p.iniFile, ext |-> p.ext,
   excl |-> p.excl, reset |-> p.reset, coverage |-> p.coverage]

(***************************************************************************)
(* The hash that names the cache entry: the inputs it covers.  Neither the *)
(* lockfile nor the fail-fast and tools inputs are among them.             *)
(***************************************************************************)
Hash(p) ==
  [php |-> p.php, ts |-> p.ts, iniFile |-> p.iniFile, ext |-> p.ext,
   excl |-> p.excl, reset |-> p.reset, coverage |-> p.coverage, ini |-> p.ini]

(***************************************************************************)
(* The ini layers in increasing precedence, by the inputs that choose      *)
(* them: base template, opcache and xdebug fragments, pcov.enabled, user   *)
(* values.                                                                 *)
(***************************************************************************)
IniSettings ==
  [base : IniFiles, opcache : BOOLEAN, coverage : Coverage, user : IniValues]

IniLayers(p) ==
  [base |-> p.iniFile, opcache |-> OpcacheWanted(p), coverage |-> p.coverage,
   user |-> p.ini]

(***************************************************************************)
(* Bundle keys and resolution.                                             *)
(***************************************************************************)
PHPBundleKey(v, ts)    == [kind |-> "php", name |-> "php", php |-> v, ts |-> ts]
ExtBundleKey(e, v, ts) == [kind |-> "ext", name |-> e, php |-> v, ts |-> ts]

BundleKeys ==
  {PHPBundleKey(v, ts) : v \in Versions, ts \in ThreadSafety} \cup
  {ExtBundleKey(e, v, ts) : e \in Catalog, v \in Versions, ts \in ThreadSafety}

\* A lockfile maps some of the keys to digests.
IsLockfile(l) == DOMAIN l \subseteq BundleKeys /\ l \in [DOMAIN l -> Digests]

\* Thread-safe PHP falls back to the other build unless fail-fast is set.
FallsBack(p, lf) ==
  /\ p.ts = "zts"
  /\ PHPBundleKey(p.php, "zts") \notin DOMAIN lf
  /\ ~p.failFast

CoreTS(p, lf) == IF FallsBack(p, lf) THEN "nts" ELSE p.ts

\* Extensions to fetch; their keys keep the thread safety that was asked for.
Separate(p) == p.ext \ Bundled[p.php]

Resolvable(p, lf) ==
  /\ PHPBundleKey(p.php, CoreTS(p, lf)) \in DOMAIN lf
  /\ Separate(p) \subseteq Catalog
  /\ \A e \in Separate(p) : ExtBundleKey(e, p.php, p.ts) \in DOMAIN lf
  /\ ~(p.tools /\ p.failFast)

Resolve(p, lf) ==
  [core |-> lf[PHPBundleKey(p.php, CoreTS(p, lf))],
   coreTS |-> CoreTS(p, lf),
   exts |-> [e \in Separate(p) |-> lf[ExtBundleKey(e, p.php, p.ts)]]]
=============================================================================

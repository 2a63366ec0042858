------------------------- MODULE PhpupSetup_proofs -------------------------
(***************************************************************************)
(* Proofs about PhpupSetup for all plans, lockfiles, extensions and        *)
(* digests, and for whoever shares the machine.                            *)
(***************************************************************************)
EXTENDS PhpupSetup, FiniteSetTheorems, SharedFacts, TLAPS

LEMMA PlanFields ==
  ASSUME NEW p \in Plans
  PROVE  /\ p.php \in Versions
         /\ p.ts \in ThreadSafety
         /\ p.coverage \in Coverage
         /\ p.ext \subseteq Names
         /\ p.excl \subseteq Names
         /\ p.reset \in BOOLEAN
         /\ p.iniFile \in IniFiles
         /\ p.ini \in IniValues
  BY PlansAssumption DEF Plan

\* What a resolvable plan resolves to.
LEMMA Resolution ==
  ASSUME NEW p \in Plans, NEW l \in Locks, Resolvable(p, l)
  PROVE  /\ Resolve(p, l).core \in Digests
         /\ Resolve(p, l).coreTS \in ThreadSafety
         /\ Resolve(p, l).exts \in [Separate(p) -> Digests]
<1>1. l \in [DOMAIN l -> Digests]
  BY LocksAssumption DEF IsLockfile
<1>2. CoreTS(p, l) \in ThreadSafety
  BY PlanFields DEF CoreTS, ThreadSafety
<1> QED
  BY <1>1, <1>2 DEF Resolve, Resolvable

LEMMA SeparateNames == ASSUME NEW p \in Plans PROVE Separate(p) \subseteq Names
  BY PlanFields DEF Separate

\* findSO returns the place of a shared object or nothing.
LEMMA FindSOType == \A n \in Names : FindSO(n) \in Api \cup {Absent}
<1> TAKE n \in Names
<1> DEFINE found == {a \in Api : base.so[n][a] # Absent}
           IsFirst(a) == \A b \in found \ {a} : Before(a, b)
<1>1. CASE \E a \in found : IsFirst(a)
  <2>1. (CHOOSE a \in found : IsFirst(a)) \in found
    <3> HIDE DEF found, IsFirst
    <3> QED
      BY <1>1
  <2> QED
    BY <1>1, <2>1 DEF FindSO
<1>2. CASE ~ \E a \in found : IsFirst(a)
  BY <1>2 DEF FindSO
<1> QED
  BY <1>1, <1>2

-----------------------------------------------------------------------------
(***************************************************************************)
(* Types, with what they rest on: past the resolution there is something   *)
(* to fetch for each item, and only items are extracted.                   *)
(***************************************************************************)
LEMMA DigestType ==
  ASSUME TypeOK, Resolvable(plan, lock), NEW i \in Items
  PROVE  Digest(i) \in Digests
<1>1. plan \in Plans /\ lock \in Locks
  BY DEF TypeOK
<1>2. Res.core \in Digests /\ Res.exts \in [Separate(plan) -> Digests]
  BY <1>1, Resolution DEF Res
<1> QED
  BY <1>2 DEF Digest, Items

LEMMA CoreApiType ==
  ASSUME TypeOK PROVE CoreApi \in Api /\ ExtApi \in Api
<1>1. plan \in Plans
  BY DEF TypeOK
<1>2. Res.coreTS \in ThreadSafety
  BY <1>1, PlanFields DEF Res, Resolve, CoreTS, ThreadSafety
<1> QED
  BY <1>1, <1>2, PlanFields DEF CoreApi, ExtApi, Api

\* Extraction leaves a tree.
LEMMA ExtractedType ==
  ASSUME TypeOK, Resolvable(plan, lock), NEW i \in Items, NEW f \in File
  PROVE  Extracted(i, f) \in Trees
<1>1. base \in Trees /\ plan \in Plans
  BY DEF TypeOK
<1>2. CoreApi \in Api /\ ExtApi \in Api
  BY CoreApiType
<1>3. \A n \in Names, a \in Api, v \in File :
         [base EXCEPT !.so[n][a] = v] \in Trees
  BY <1>1 DEF Trees
<1>4. CASE i = "php"
  <2> DEFINE v == IF plan.php \in SharedOpcache THEN f
                  ELSE base.so["opcache"][CoreApi]
             t == IF HasTemplates(Res.core) THEN f ELSE base.tmpl
             b == [base EXCEPT !.so["opcache"][CoreApi] = v]
  <2>1. v \in File /\ t \in File
    BY <1>1, <1>2, DriversAssumption DEF Trees
  <2>2. b \in Trees
    BY <1>2, <1>3, <2>1, DriversAssumption
  <2>3. Extracted(i, f) = [b EXCEPT !.bin = f, !.tmpl = t]
    BY <1>1, <1>4 DEF Extracted, Trees
  <2> HIDE DEF b, t
  <2> QED
    BY <2>1, <2>2, <2>3 DEF Trees
<1>5. CASE i # "php"
  <2>1. i \in Names
    BY <1>1, <1>5, SeparateNames DEF Items
  <2> QED
    BY <1>2, <1>3, <1>5, <2>1 DEF Extracted
<1> QED
  BY <1>4, <1>5

LEMMA EmptyTypes == EmptyBase \in Trees /\ NoEntry \in Entries
<1>1. NoConf \in Confs
  BY DEF NoConf, Confs
<1> QED
  BY <1>1 DEF EmptyBase, NoEntry, NoModules, Trees, Entries, File

LEMMA IniLayersType == ASSUME NEW p \in Plans PROVE IniLayers(p) \in IniSettings
<1>1. OpcacheWanted(p) \in BOOLEAN
  BY DEF OpcacheWanted, OpcacheExcluded
<1> QED
  BY <1>1, PlanFields DEF IniLayers, IniSettings

-----------------------------------------------------------------------------
\* The writes of the composition leave a tree.
LEMMA ComposedType ==
  ASSUME TypeOK, NEW es PROVE Composed(es) \in Trees
<1> DEFINE load == [n \in Names |-> IF n \in es THEN FindSO(n)
                                   ELSE base.conf.load[n]]
           link == [n \in Names |-> IF n \in es THEN FindSO(n)
                                   ELSE base.link[n]]
<1>1. base \in Trees /\ base.conf \in Confs
  BY DEF TypeOK, Trees
<1>2. load \in [Names -> Api \cup {Absent}] /\ link \in [Names -> Api \cup {Absent}]
  BY <1>1, FindSOType DEF Trees, Confs
<1>3. [base.conf EXCEPT !.load = load] \in Confs
  BY <1>1, <1>2 DEF Confs
<1>4. Composed(es) = [base EXCEPT !.link = link,
                                  !.conf = [base.conf EXCEPT !.load = load]]
  BY <1>1 DEF Composed, Trees
<1> HIDE DEF load, link
<1> QED
  BY <1>1, <1>2, <1>3, <1>4 DEF Trees

LEMMA LinkedType ==
  ASSUME TypeOK
  PROVE  /\ [base EXCEPT !.link["opcache"] = FindSO("opcache")] \in Trees
         /\ [base EXCEPT !.link["opcache"] = FindSO("opcache"),
                         !.conf.opcache = TRUE] \in Trees
<1> DEFINE so == FindSO("opcache")
<1>1. base \in Trees /\ base.conf \in Confs /\ so \in Api \cup {Absent}
  BY FindSOType, DriversAssumption DEF TypeOK, Trees
<1> HIDE DEF so
<1>2. [base.conf EXCEPT !.opcache = TRUE] \in Confs
  BY <1>1 DEF Confs
<1>3. [base.link EXCEPT !["opcache"] = so] \in [Names -> Api \cup {Absent}]
  BY <1>1 DEF Trees
<1>4. [base EXCEPT !.link = [base.link EXCEPT !["opcache"] = so]] \in Trees
  BY <1>1, <1>3 DEF Trees
<1>5. [base EXCEPT !.link = [base.link EXCEPT !["opcache"] = so],
                   !.conf = [base.conf EXCEPT !.opcache = TRUE]] \in Trees
  BY <1>1, <1>2, <1>3 DEF Trees
<1> QED
  BY <1>4, <1>5, <1>1 DEF so, Trees

LEMMA PhpIniType ==
  ASSUME TypeOK, NEW x \in {<<"none">>, <<plan.iniFile, base.tmpl>>}
  PROVE  [base EXCEPT !.conf.phpIni = x] \in Trees
<1>1. base \in Trees /\ base.conf \in Confs /\ base.tmpl \in File /\ plan \in Plans
  BY DEF TypeOK, Trees
<1>2. [base.conf EXCEPT !.phpIni = x] \in Confs
  BY <1>1, PlanFields DEF Confs
<1> QED
  BY <1>1, <1>2 DEF Trees

LEMMA ValuesType ==
  ASSUME TypeOK, NEW v \in {Absent, IniLayers(plan)}
  PROVE  [base EXCEPT !.conf.values = v] \in Trees
<1>1. base \in Trees /\ base.conf \in Confs /\ plan \in Plans
  BY DEF TypeOK, Trees
<1>2. [base.conf EXCEPT !.values = v] \in Confs
  BY <1>1, IniLayersType DEF Confs
<1> QED
  BY <1>1, <1>2 DEF Trees

\* Seed leaves an entry.
LEMMA SeededType ==
  ASSUME TypeOK, NEW e \in Entries PROVE Seeded(e) \in Entries
<1>1. base \in Trees /\ base.conf \in Confs /\ e.conf \in Confs
  BY DEF TypeOK, Trees, Entries
<1>2. Seeded(e).conf \in Confs
  BY <1>1 DEF Seeded, Confs, Over
<1>3. Over(base.bin, e.bin) \in File
  BY <1>1 DEF Entries, Trees, Over
<1> QED
  BY <1>2, <1>3 DEF Seeded, Entries

LEMMA TypeStep == TypeInv /\ [Next]_vars => TypeInv'
<1> SUFFICES ASSUME TypeInv, [Next]_vars PROVE TypeInv'
  OBVIOUS
<1> USE DEF TypeInv, TypeOK, Ended, Phases, Resolved, run, local, Gone, Locations
<1>1. CASE UNCHANGED vars
  BY <1>1 DEF vars, Items
<1>2. ASSUME NEW r \in Requests, Begin(r[1], r[2])
      PROVE  TypeInv'
  <2>1. r[1] \in Plans /\ r[2] \in Locks /\ <<r[1], r[2]>> \in Requests
    BY RequestsAssumption
  <2> QED
    BY <1>2, <2>1 DEF Begin
<1>3. CASE Abort
  BY <1>3 DEF Abort
<1>4. CASE ResolvePlan
  BY <1>4 DEF ResolvePlan
<1>5. CASE CheckCache
  <2>1. Hash(plan) \in Hashes
    BY DEF Hashes
  <2> QED
    BY <1>5, <2>1 DEF CheckCache, Locations
<1>6. CASE FetchBundles
  BY <1>6 DEF FetchBundles
<1>7. CASE CheckSchema
  <2>1. Items \subseteq {"php"} \cup Names
    BY SeparateNames DEF Items
  <2> QED
    BY <1>7, <2>1 DEF CheckSchema, Items
<1>8. ASSUME NEW i \in Items, ExtractItem(i) PROVE TypeInv'
  <2>1. Extracted(i, Digest(i)) \in Trees
    BY <1>8, DigestType, ExtractedType DEF ExtractItem, File
  <2> QED
    BY <1>8, <2>1 DEF ExtractItem, Items
<1>9. ASSUME NEW i \in Items, ExtractItemFails(i) PROVE TypeInv'
  <2>1. Extracted(i, Torn) \in Trees
    BY <1>9, ExtractedType DEF ExtractItemFails, File
  <2> QED
    BY <1>9, <2>1 DEF ExtractItemFails, Items
<1>10. CASE ExtractDone
  BY <1>10 DEF ExtractDone
<1>11. CASE ComposeExtensions
  <2>1. base' \in Trees
    BY <1>11, ComposedType, SeparateNames DEF ComposeExtensions
  <2> QED
    BY <1>11, <2>1 DEF ComposeExtensions
<1>12. CASE LoadOpcache
  <2>1. base' \in Trees
    BY <1>12, LinkedType DEF LoadOpcache
  <2> QED
    BY <1>12, <2>1 DEF LoadOpcache
<1>13. CASE SelectBaseIniFile
  <2>1. base' \in Trees
    BY <1>13, PhpIniType DEF SelectBaseIniFile
  <2> QED
    BY <1>13, <2>1 DEF SelectBaseIniFile
<1>14. CASE WriteIniValues
  <2>1. base' \in Trees
    BY <1>14, ValuesType DEF WriteIniValues
  <2> QED
    BY <1>14, <2>1 DEF WriteIniValues
<1>22. CASE ComposeFails
  <2>1. base' \in Trees
    BY <1>22, ComposedType, LinkedType, PhpIniType, ValuesType DEF ComposeFails
  <2> QED
    BY <1>22, <2>1 DEF ComposeFails
<1>15. CASE ExportEnv
  BY <1>15 DEF ExportEnv
<1>16. CASE ExportEnvFails
  <2> DEFINE Envs == [path : Locations, phprc : Locations, scan : Locations]
  <2>0. env \in Envs /\ at \in Locations
    OBVIOUS
  <2>1. env' \in Envs
    <3>1. CASE env' = [env EXCEPT !.path = at]
      BY <2>0, <3>1
    <3>2. CASE env' = [env EXCEPT !.path = at, !.phprc = at]
      BY <2>0, <3>2
    <3>3. CASE env' = [path |-> at, phprc |-> at, scan |-> at]
      BY <2>0, <3>3
    <3> QED
      BY <1>16, <3>1, <3>2, <3>3 DEF ExportEnvFails
  <2> QED
    BY <1>16, <2>1 DEF ExportEnvFails
<1>17. CASE SeedTree
  <2>1. Seeded(cache[Hash(plan)]) \in Entries
    BY SeededType DEF Hashes
  <2> QED
    BY <1>17, <2>1 DEF SeedTree
<1>18. CASE SeedMarker
  <2>1. Hash(plan) \in Hashes
    BY DEF Hashes
  <2> QED
    BY <1>18, <2>1 DEF SeedMarker, Entries
<1>19. CASE SeedFails
  <2>1. Hash(plan) \in Hashes /\ Torn \in File
    BY DEF Hashes, File
  <2>2. cache' \in [Hashes -> Entries]
    BY <1>19, <2>1 DEF SeedFails, Entries
  <2> QED
    BY <1>19, <2>2 DEF SeedFails
<1>20. CASE NewMachine
  BY <1>20, EmptyTypes DEF NewMachine, Locations, NoEnv
<1>21. CASE NewContainer
  BY <1>21, EmptyTypes DEF NewContainer, Locations, NoEnv
<1> QED
  BY <1>1, <1>2, <1>3, <1>4, <1>5, <1>6, <1>7, <1>8, <1>9, <1>10, <1>11,
     <1>12, <1>13, <1>14, <1>15, <1>16, <1>17, <1>18, <1>19, <1>20, <1>21, <1>22
  DEF Next, Install, Extract

LEMMA InitType == Init => TypeInv
<1> SUFFICES ASSUME Init PROVE TypeInv
  OBVIOUS
<1>1. pc = "idle" /\ todo = {} /\ bad = FALSE /\ served = {}
  BY DEF Init
<1>2. env \in [path : Locations, phprc : Locations, scan : Locations]
  BY DEF Init, NoEnv, Locations
<1>3. base \in Trees /\ cache \in [Hashes -> Entries]
  BY EmptyTypes DEF Init
<1>4. plan \in Plans /\ lock \in Locks /\ at \in Locations
  BY RequestsAssumption DEF Init, Locations
<1> QED
  BY <1>1, <1>2, <1>3, <1>4 DEF TypeInv, TypeOK, Ended, Phases, Resolved

(***************************************************************************)
(* Every variable keeps its type; in particular no step of a run indexes a *)
(* lockfile, a resolution or a cache with a key it does not have.          *)
(***************************************************************************)
THEOREM TypeCorrect == Spec => []TypeOK
<1>1. TypeInv => TypeOK
  BY DEF TypeInv
<1> QED
  BY <1>1, InitType, TypeStep, PTL DEF Spec

-----------------------------------------------------------------------------
\* The schema check is one for templates where the sidecar names its kind.
LEMMA CheckedCore ==
  ASSUME TypeOK, Resolvable(plan, lock), AssertBundleSchema(Res.core)
  PROVE  HasTemplates(Res.core) \/ Bare(Res.core)
<1>1. Res.core \in Digests
  BY Resolution DEF TypeOK, Res
<1> QED
  BY <1>1, MetaAssumption
  DEF AssertBundleSchema, MinBundleSchema, HasTemplates, Bare

\* What the extraction of an item does to the core.
LEMMA ExtractedCore ==
  ASSUME TypeOK, NEW i \in Items, NEW f \in File
  PROVE  /\ i = "php" => Extracted(i, f).bin = f
         /\ i = "php" /\ HasTemplates(Res.core) => Extracted(i, f).tmpl = f
         /\ ~HasTemplates(Res.core) => Extracted(i, f).tmpl = base.tmpl
         /\ i # "php" => /\ Extracted(i, f).bin = base.bin
                         /\ Extracted(i, f).tmpl = base.tmpl
<1>1. base \in Trees
  BY DEF TypeOK
<1>2. CASE i = "php"
  <2> DEFINE v == IF plan.php \in SharedOpcache THEN f
                  ELSE base.so["opcache"][CoreApi]
             t == IF HasTemplates(Res.core) THEN f ELSE base.tmpl
             b == [base EXCEPT !.so["opcache"][CoreApi] = v]
  <2>1. Extracted(i, f) = [b EXCEPT !.bin = f, !.tmpl = t]
    BY <1>1, <1>2 DEF Extracted, Trees
  <2> QED
    BY <1>1, <1>2, <2>1 DEF Trees
<1>3. CASE i # "php"
  BY <1>1, <1>3 DEF Extracted, Trees
<1> QED
  BY <1>2, <1>3

\* What composition leaves alone.
LEMMA ComposedCore ==
  ASSUME TypeOK, NEW es
  PROVE  Composed(es).bin = base.bin /\ Composed(es).tmpl = base.tmpl
  BY DEF TypeOK, Trees, Composed

LEMMA InstallStep ==
  TypeInv /\ TypeInv' /\ InstallInv /\ [Next]_vars => InstallInv'
<1> SUFFICES ASSUME TypeInv, TypeInv', InstallInv, [Next]_vars
             PROVE  InstallInv'
  OBVIOUS
<1> USE DEF InstallInv, CoreExtracted, Holds, run, local, Gone
<1>0. base \in Trees /\ base.conf \in Confs /\ base' \in Trees /\ TypeOK
  BY DEF TypeInv, TypeOK, Trees
<1>1. CASE UNCHANGED vars
  BY <1>1 DEF vars, Res
<1>2. ASSUME NEW r \in Requests, Begin(r[1], r[2]) PROVE InstallInv'
  BY <1>2 DEF Begin
<1>3. CASE Abort \/ NewMachine \/ NewContainer
  BY <1>3 DEF Abort, NewMachine, NewContainer
<1>4. CASE ResolvePlan
  BY <1>4 DEF ResolvePlan
<1>5. CASE CheckCache
  <2>1. InCache(Hash(plan)).in # InBase.in
    BY DEF InCache, InBase
  <2> QED
    BY <1>5, <2>1 DEF CheckCache
<1>6. CASE FetchBundles
  BY <1>6 DEF FetchBundles
<1>7. CASE CheckSchema
  <2>1. CASE pc' = "failed"
    BY <2>1
  <2>2. CASE pc' = "extract"
    <3>1. AssertBundleSchema(Res.core)
      BY <1>7, <2>2 DEF CheckSchema, Items, Digest
    <3>2. HasTemplates(Res.core) \/ Bare(Res.core)
      BY <1>0, <1>7, <3>1, CheckedCore DEF CheckSchema, TypeInv, Resolved, Phases
    <3>3. "php" \in todo' /\ at' = at /\ Res' = Res
      BY <1>7, <2>2 DEF CheckSchema, Items, Res
    <3> QED
      BY <1>7, <2>2, <3>2, <3>3 DEF CheckSchema, HasTemplates, Bare
  <2> QED
    BY <1>7, <2>1, <2>2 DEF CheckSchema
<1>8. ASSUME NEW i \in Items, ExtractItem(i) PROVE InstallInv'
  <2>1. Digest(i) \in File
    BY <1>0, <1>8, DigestType DEF ExtractItem, TypeInv, Resolved, Phases, File
  <2>2. Res' = Res /\ pc' = "extract" /\ bad' = bad /\ at' = at
    BY <1>8 DEF ExtractItem, Res
  <2>3. HasTemplates(Res.core) \/ Bare(Res.core)
    BY <1>8 DEF ExtractItem
  <2>4. CASE i = "php"
    <3>1. /\ base'.bin = Res.core
          /\ HasTemplates(Res.core) => base'.tmpl = Res.core
      BY <1>0, <1>8, <2>1, <2>4, ExtractedCore DEF ExtractItem, Digest
    <3> QED
      BY <1>8, <2>2, <2>3, <3>1 DEF ExtractItem, HasTemplates, Bare
  <2>5. CASE i # "php"
    <3>1. base'.bin = base.bin /\ base'.tmpl = base.tmpl
      BY <1>0, <1>8, <2>1, <2>5, ExtractedCore DEF ExtractItem
    <3> QED
      BY <1>8, <2>2, <2>3, <2>5, <3>1 DEF ExtractItem, HasTemplates, Bare
  <2> QED
    BY <2>4, <2>5
<1>9. ASSUME NEW i \in Items, ExtractItemFails(i) PROVE InstallInv'
  BY <1>9 DEF ExtractItemFails, Res, HasTemplates, Bare
<1>10. CASE ExtractDone
  BY <1>10 DEF ExtractDone, Res, HasTemplates, Bare
<1>11. CASE ComposeExtensions
  BY <1>0, <1>11, ComposedCore DEF ComposeExtensions, Res, HasTemplates, Bare
<1>12. CASE LoadOpcache
  <2>1. base'.bin = base.bin /\ base'.tmpl = base.tmpl
    BY <1>0, <1>12 DEF LoadOpcache, Trees
  <2> QED
    BY <1>12, <2>1 DEF LoadOpcache, Res, HasTemplates, Bare
<1>13. CASE SelectBaseIniFile
  <2>1. CASE pc' = "failed"
    BY <2>1
  <2>2. CASE pc' # "failed"
    <3>1. IniAsWanted(base'.conf.phpIni, plan, Res.core)
      <4>1. CASE plan.iniFile = "none"
        BY <1>0, <1>13, <2>2, <4>1
        DEF SelectBaseIniFile, WantedPhpIni, Trees, Confs, IniAsWanted
      <4>2. CASE plan.iniFile # "none"
        <5>1. /\ base'.conf.phpIni = <<plan.iniFile, base.tmpl>>
              /\ base.tmpl \in Digests \cup {Torn}
              /\ HasTemplates(Res.core) => base.tmpl = Res.core
              /\ HasTemplates(Res.core) \/ Bare(Res.core)
          BY <1>0, <1>13, <2>2, <4>2 DEF SelectBaseIniFile, Trees, Confs, File
        <5> QED
          BY <4>2, <5>1 DEF IniAsWanted, WantedPhpIni, Bare
      <4> QED
        BY <4>1, <4>2
    <3>2. base'.bin = base.bin /\ base'.tmpl = base.tmpl
      BY <1>0, <1>13, <2>2 DEF SelectBaseIniFile, Trees
    <3> QED
      BY <1>13, <2>2, <3>1, <3>2
      DEF SelectBaseIniFile, Res, HasTemplates, Bare, IniAsWanted
  <2> QED
    BY <2>1, <2>2
<1>14. CASE WriteIniValues
  <2>1. /\ base'.bin = base.bin
        /\ base'.conf.phpIni = base.conf.phpIni
        /\ base'.conf.values = IniLayers(plan)
    BY <1>0, <1>14 DEF WriteIniValues, Trees, Confs
  <2> QED
    BY <1>14, <2>1 DEF WriteIniValues, Res
<1>15. CASE ComposeFails
  BY <1>15 DEF ComposeFails
<1>16. CASE ExportEnv
  BY <1>16 DEF ExportEnv, Res
<1>17. CASE ExportEnvFails
  BY <1>17 DEF ExportEnvFails
<1>18. CASE SeedTree \/ SeedMarker \/ SeedFails
  BY <1>18 DEF SeedTree, SeedMarker, SeedFails, Res
<1> QED
  BY <1>1, <1>2, <1>3, <1>4, <1>5, <1>6, <1>7, <1>8, <1>9, <1>10, <1>11,
     <1>12, <1>13, <1>14, <1>15, <1>16, <1>17, <1>18
  DEF Next, Install, Extract

-----------------------------------------------------------------------------
\* An ini file that a plan calls for is there.
LEMMA NotAbsent ==
  ASSUME NEW p \in Plans, NEW d \in Digests
  PROVE  /\ IniLayers(p) # Absent
         /\ \A ini : IniAsWanted(ini, p, d) => ini # Absent
  BY AbsentAssumption, IniLayersType, PlanFields DEF WantedPhpIni, IniAsWanted

\* A copy takes the core and the ini files over, whatever was there before.
LEMMA SeededHolds ==
  ASSUME TypeOK, Resolvable(plan, lock), NEW e \in Entries,
         Holds(base.bin, base.conf, plan, lock)
  PROVE  /\ Holds(Seeded(e).bin, Seeded(e).conf, plan, lock)
         /\ Seeded(e).complete = e.complete
<1>1. plan \in Plans /\ lock \in Locks
  BY DEF TypeOK
<1>2. base.bin # Absent
  BY <1>1, Resolution, AbsentAssumption DEF Holds
<1>3. base.conf.values # Absent /\ base.conf.phpIni # Absent
  BY <1>1, Resolution, NotAbsent DEF Holds
<1> QED
  BY <1>2, <1>3 DEF Seeded, Over, Holds

LEMMA CacheStep ==
  TypeInv /\ InstallInv /\ CacheInv /\ [Next]_vars => CacheInv'
<1> SUFFICES ASSUME TypeInv, InstallInv, CacheInv, [Next]_vars
             PROVE  CacheInv'
  OBVIOUS
<1> USE DEF CacheInv, ServedFrom, run, local, Gone
<1>0. /\ TypeOK /\ Hash(plan) \in Hashes
      /\ cache \in [Hashes -> Entries]
  BY DEF TypeInv, TypeOK, Hashes
<1>a. ASSUME UNCHANGED <<cache, served>>
      PROVE  \A h \in Hashes :
               cache'[h].complete => \E r \in served' : ServedFrom(h, r)'
  BY <1>a
<1>1. CASE UNCHANGED vars
  BY <1>1 DEF vars
<1>2. ASSUME NEW r \in Requests, Begin(r[1], r[2]) PROVE CacheInv'
  BY <1>2 DEF Begin, Phases
<1>3. CASE Abort \/ NewContainer
  BY <1>3, <1>a DEF Abort, NewContainer, Phases
<1>4. CASE NewMachine
  BY <1>4 DEF NewMachine, NoEntry, Phases
<1>5. CASE ResolvePlan
  BY <1>5, <1>a DEF ResolvePlan, Phases
<1>6. CASE CheckCache
  <2>1. InCache(Hash(plan)).in # InBase.in
    BY DEF InCache, InBase
  <2> QED
    BY <1>6, <1>a, <2>1 DEF CheckCache, Phases
<1>7. CASE FetchBundles \/ CheckSchema
  BY <1>7, <1>a DEF FetchBundles, CheckSchema, Phases
<1>8. ASSUME NEW i \in Items, ExtractItem(i) \/ ExtractItemFails(i)
      PROVE  CacheInv'
  BY <1>8, <1>a DEF ExtractItem, ExtractItemFails, Phases
<1>9. CASE ExtractDone
  BY <1>9, <1>a DEF ExtractDone, Phases
<1>10. CASE ComposeExtensions \/ LoadOpcache \/ SelectBaseIniFile
              \/ WriteIniValues
  BY <1>10, <1>a
  DEF ComposeExtensions, LoadOpcache, SelectBaseIniFile, WriteIniValues,
      InstallInv, Phases
<1>11. CASE ComposeFails
  BY <1>11, <1>a DEF ComposeFails, Phases
<1>12. CASE ExportEnv \/ ExportEnvFails
  BY <1>12, <1>a DEF ExportEnv, ExportEnvFails, Phases
<1>13. CASE SeedTree
  <2> DEFINE e == cache[Hash(plan)]
  <2>1. Holds(base.bin, base.conf, plan, lock) /\ Resolvable(plan, lock)
    BY <1>13 DEF SeedTree, InstallInv, TypeInv, Resolved, Phases
  <2>2. /\ Holds(Seeded(e).bin, Seeded(e).conf, plan, lock)
        /\ ~Seeded(e).complete
    BY <1>0, <1>13, <2>1, SeededHolds DEF SeedTree
  <2>3. /\ cache'[Hash(plan)] = Seeded(e)
        /\ \A h \in Hashes \ {Hash(plan)} : cache'[h] = cache[h]
    BY <1>0, <1>13 DEF SeedTree
  <2>4. UNCHANGED <<plan, lock, served, at>> /\ pc = "seed" /\ pc' = "marker"
    BY <1>13 DEF SeedTree
  <2> HIDE DEF e
  <2> QED
    BY <2>2, <2>3, <2>4 DEF Phases, Holds
<1>14. CASE SeedMarker
  <2>1. /\ cache'[Hash(plan)].complete
        /\ cache'[Hash(plan)].bin = cache[Hash(plan)].bin
        /\ cache'[Hash(plan)].conf = cache[Hash(plan)].conf
        /\ \A h \in Hashes \ {Hash(plan)} : cache'[h] = cache[h]
    BY <1>0, <1>14 DEF SeedMarker, Entries
  <2>2. /\ UNCHANGED <<plan, lock, served, at>>
        /\ pc = "marker" /\ pc' = "ready" /\ at = InBase
    BY <1>14 DEF SeedMarker, InstallInv
  <2>3. <<plan, lock>> \in served /\ Resolvable(plan, lock)
    BY <2>2 DEF TypeInv, Resolved, Phases
  <2>4. ServedFrom(Hash(plan), <<plan, lock>>)'
    BY <2>1, <2>2, <2>3 DEF Holds
  <2> QED
    BY <2>1, <2>2, <2>3, <2>4 DEF Phases
<1>15. CASE SeedFails
  <2>1. /\ \A h \in Hashes : cache'[h].complete = cache[h].complete
        /\ \A h \in Hashes : cache[h].complete => cache'[h] = cache[h]
    BY <1>0, <1>15 DEF SeedFails, Entries
  <2>2. UNCHANGED <<plan, lock, served>> /\ pc' \in {"ready", "failed"}
    BY <1>15 DEF SeedFails
  <2>3. pc' = "ready" => at' = InBase
    BY <1>15 DEF SeedFails, InstallInv
  <2> QED
    BY <1>15, <2>1, <2>2, <2>3 DEF Phases, SeedFails
<1> QED
  BY <1>1, <1>2, <1>3, <1>4, <1>5, <1>6, <1>7, <1>8, <1>9, <1>10, <1>11,
     <1>12, <1>13, <1>14, <1>15
  DEF Next, Install, Extract

LEMMA SetupInvariant == Spec => []SetupInv
<1>1. Init => SetupInv
  <2> SUFFICES ASSUME Init PROVE SetupInv
    OBVIOUS
  <2>1. TypeInv
    BY InitType
  <2>2. pc = "idle" /\ \A h \in Hashes : ~cache[h].complete
    BY DEF Init, NoEntry
  <2> QED
    BY <2>1, <2>2 DEF SetupInv, InstallInv, CacheInv, Phases
<1>2. SetupInv /\ [Next]_vars => SetupInv'
  BY TypeStep, InstallStep, CacheStep DEF SetupInv
<1> QED
  BY <1>1, <1>2, PTL DEF Spec

-----------------------------------------------------------------------------
(***************************************************************************)
(* Whoever shares the machine, a run that installs replaces the core, the  *)
(* php.ini and the ini values of every run before it; the php.ini of a     *)
(* bare core, though, may be made of a template an earlier core left.      *)
(***************************************************************************)
THEOREM InstallReplaces == Spec => []InstallReplacesCore
<1>1. SetupInv => InstallReplacesCore
  BY DEF SetupInv, InstallInv, InstallReplacesCore, CoreAsWanted, Provided,
         Wanted, Tree, Holds, Res
<1> QED
  BY <1>1, SetupInvariant, PTL

(***************************************************************************)
(* Where the sidecar names the kind of the core, or the core has templates *)
(* anyway: it has them, and they are not another core's, when the base ini *)
(* file is selected.                                                       *)
(***************************************************************************)
THEOREM SchemaCheckSuffices == Spec => []SchemaCheckCoversTemplates
<1>1. SetupInv => SchemaCheckCoversTemplates
  BY DEF SetupInv, InstallInv, CoreExtracted, SchemaCheckCoversTemplates
<1> QED
  BY <1>1, SetupInvariant, PTL

(***************************************************************************)
(* The plan hash covers what the core and the ini files depend on: two     *)
(* plans of one hash that resolve against a lockfile get the same ones.    *)
(* Fail-fast is not covered; where it decides about the fallback, only one *)
(* of the two plans resolves.                                              *)
(***************************************************************************)
THEOREM HashCoversPlan ==
  ASSUME NEW p \in Plans, NEW q \in Plans, NEW l \in Locks,
         Hash(p) = Hash(q), Resolvable(p, l), Resolvable(q, l)
  PROVE  /\ Resolve(p, l).core = Resolve(q, l).core
         /\ Resolve(p, l).exts = Resolve(q, l).exts
         /\ IniLayers(p) = IniLayers(q)
         /\ p.iniFile = q.iniFile
<1>1. /\ p.php = q.php /\ p.ts = q.ts /\ p.iniFile = q.iniFile
      /\ p.ext = q.ext /\ p.excl = q.excl /\ p.reset = q.reset
      /\ p.coverage = q.coverage /\ p.ini = q.ini
  BY DEF Hash
<1>2. CoreTS(p, l) = CoreTS(q, l)
  \* With both builds missing neither plan resolves; with only the fallback
  \* there, neither plan has fail-fast.
  BY <1>1 DEF Resolvable, CoreTS, FallsBack
<1>3. Separate(p) = Separate(q)
  BY <1>1 DEF Separate
<1>4. OpcacheWanted(p) = OpcacheWanted(q)
  BY <1>1 DEF OpcacheWanted, OpcacheExcluded
<1> QED
  BY <1>1, <1>2, <1>3, <1>4 DEF Resolve, IniLayers

(***************************************************************************)
(* With one action version on the machine, a hit serves the core and the   *)
(* ini files of the plan that hit.                                         *)
(***************************************************************************)
THEOREM HitsServe == Spec => []HitServesOwnPlan
<1>1. SetupInv => HitServesOwnPlan
  <2> SUFFICES ASSUME SetupInv, pc = "ready", at # InBase, OneVersion
               PROVE  CoreAsWanted
    BY DEF HitServesOwnPlan
  <2>1. /\ at = InCache(Hash(plan)) /\ cache[Hash(plan)].complete
        /\ env = [path |-> at, phprc |-> at, scan |-> at]
        /\ Hash(plan) \in Hashes /\ plan \in Plans /\ lock \in Locks
        /\ served \subseteq Requests
    BY DEF SetupInv, TypeInv, TypeOK, InstallInv, CacheInv, Hashes
  <2>2. PICK r \in served : ServedFrom(Hash(plan), r)
    BY <2>1 DEF SetupInv, CacheInv
  <2>3. r[2] = lock /\ r[1] \in Plans
    BY <2>1, <2>2, RequestsAssumption DEF OneVersion
  <2>4. /\ Resolve(r[1], lock).core = Resolve(plan, lock).core
        /\ IniLayers(r[1]) = IniLayers(plan)
        /\ r[1].iniFile = plan.iniFile
    BY <2>1, <2>2, <2>3, HashCoversPlan
    DEF ServedFrom, SetupInv, TypeInv, Resolved
  <2>5. Holds(cache[Hash(plan)].bin, cache[Hash(plan)].conf, plan, lock)
    BY <2>2, <2>3, <2>4 DEF ServedFrom, Holds, WantedPhpIni, IniAsWanted
  <2>6. InCache(Hash(plan)).hash = Hash(plan)
    BY DEF InCache
  <2> QED
    BY <2>1, <2>5, <2>6
    DEF CoreAsWanted, Provided, Wanted, Tree, Holds, Res
<1> QED
  BY <1>1, SetupInvariant, PTL

(***************************************************************************)
(* A marked entry never changes again, whatever is killed and whoever      *)
(* shares the machine, one run at a time.                                  *)
(***************************************************************************)
THEOREM MarkedIsFinal == Spec => MarkedEntriesAreFinal
<1> DEFINE Final == (\A h \in Hashes : cache[h].complete =>
                       cache'[h] = cache[h] \/ served' = {})
<1>1. SetupInv /\ [Next]_vars => [Final]_vars
  <2> SUFFICES ASSUME SetupInv, Next PROVE Final
    OBVIOUS
  <2>0. cache \in [Hashes -> Entries]
    BY DEF SetupInv, TypeInv, TypeOK
  <2>1. CASE UNCHANGED cache
    BY <2>1
  <2>2. CASE NewMachine
    BY <2>2 DEF NewMachine
  <2>3. CASE SeedTree \/ SeedMarker \/ SeedFails
    <3>1. UNCHANGED cache \/
          (pc \in {"seed", "marker"}
             /\ \A h \in Hashes \ {Hash(plan)} : cache'[h] = cache[h])
      BY <2>0, <2>3 DEF SeedTree, SeedMarker, SeedFails
    <3> QED
      BY <3>1 DEF SetupInv, CacheInv
  <2> QED
    BY <2>1, <2>2, <2>3
    DEF Next, Install, Extract, Begin, Abort, ResolvePlan, CheckCache,
        FetchBundles, CheckSchema, ExtractItem, ExtractItemFails, ExtractDone,
        ComposeExtensions, LoadOpcache, SelectBaseIniFile, WriteIniValues,
        ComposeFails, ExportEnv, ExportEnvFails, NewContainer
<1> QED
  BY <1>1, SetupInvariant, PTL DEF Spec, MarkedEntriesAreFinal

-----------------------------------------------------------------------------
(***************************************************************************)
(* The modules.  From the extraction on, the shared objects of the plan's  *)
(* own build are those of its bundles; from the composition on, conf.d     *)
(* loads what findSO finds, which need not be that build.                  *)
(***************************************************************************)
Installed ==
  \/ pc \in {"compose", "opcache", "baseini", "values"}
  \/ pc \in {"export", "seed", "marker", "ready"} /\ at = InBase

ModulesInstalled ==
  /\ \A e \in Separate(plan) : base.so[e][ExtApi] = Res.exts[e]
  /\ plan.php \in SharedOpcache => base.so["opcache"][CoreApi] = Res.core

LoadsExts(conf) == \A e \in Separate(plan) : conf.load[e] = FindSO(e)

LoadsOpcache(conf) ==
  OpcacheWanted(plan) /\ FindSO("opcache") # Absent =>
    conf.opcache /\ base.link["opcache"] = FindSO("opcache")

ModulesInv ==
  /\ pc = "extract" /\ ~bad =>
       \A e \in Separate(plan) \ todo : base.so[e][ExtApi] = Res.exts[e]
  /\ pc = "extract" /\ ~bad /\ "php" \notin todo /\ plan.php \in SharedOpcache =>
       base.so["opcache"][CoreApi] = Res.core
  /\ Installed => ModulesInstalled
  /\ Installed /\ pc # "compose" => LoadsExts(base.conf)
  /\ Installed /\ pc \notin {"compose", "opcache"} => LoadsOpcache(base.conf)
  /\ pc = "marker" => /\ LoadsExts(cache[Hash(plan)].conf)
                      /\ LoadsOpcache(cache[Hash(plan)].conf)

(***************************************************************************)
(* Nothing is on the machine that no request of its own put there: a       *)
(* shared object, a fragment, the loader of opcache.                       *)
(***************************************************************************)
BuildOf(r)     == [ts |-> r[1].ts, php |-> r[1].php]
CoreBuildOf(r) == [ts |-> CoreTS(r[1], r[2]), php |-> r[1].php]

PutBy(r, n, a) ==
  IF n = "opcache" THEN r[1].php \in SharedOpcache /\ a = CoreBuildOf(r)
  ELSE n \in Separate(r[1]) /\ a = BuildOf(r)

ConfOrigin(conf) ==
  /\ \A n \in Names :
       conf.load[n] # Absent => \E r \in served : n \in Separate(r[1])
  /\ conf.opcache => \E r \in served : OpcacheWanted(r[1])
  /\ conf.opcache => \E r \in served : r[1].php \in SharedOpcache

OriginInv ==
  /\ served # {} => <<plan, lock>> \in served
  /\ \A n \in Names, a \in Api :
       base.so[n][a] # Absent => \E r \in served : PutBy(r, n, a)
  /\ ConfOrigin(base.conf)
  /\ \A h \in Hashes : ConfOrigin(cache[h].conf)

-----------------------------------------------------------------------------
\* Extensions are never called opcache: that one comes with the core.
LEMMA SeparateExtensions ==
  ASSUME NEW p \in Plans, NEW l \in Locks, Resolvable(p, l)
  PROVE  "opcache" \notin Separate(p) /\ "php" \notin Separate(p)
  BY NamesAssumption, SeparateNames DEF Resolvable

\* The walk of findSO finds one of the files there are.
LEMMA FoundSO ==
  ASSUME TypeOK, NEW n \in Names, NEW a \in Api, base.so[n][a] # Absent
  PROVE  FindSO(n) \in Api /\ base.so[n][FindSO(n)] # Absent
<1> DEFINE found      == {c \in Api : base.so[n][c] # Absent}
           IsFirst(c) == \A b \in found \ {c} : Before(c, b)
           Php(ts)    == {v \in Versions : [ts |-> ts, php |-> v] \in found}
<1>0. a \in found /\ found \subseteq Api
  OBVIOUS
<1>1. \A ts : Php(ts) \in SUBSET Nat
  BY VersionsAssumption
<1>a. \A c \in found : c.ts \in {"nts", "zts"} /\ c.php \in Php(c.ts)
                       /\ c = [ts |-> c.ts, php |-> c.php]
  BY DEF Api, ThreadSafety
<1>2. PICK ts \in {"nts", "zts"} :
        Php(ts) # {} /\ (ts = "zts" => Php("nts") = {})
  BY <1>0, <1>a
<1>3. PICK v \in Php(ts) : \A w \in Php(ts) : v <= w
  BY <1>1, <1>2, SmallestIndex
<1>4. [ts |-> ts, php |-> v] \in found
  BY <1>3
<1>5. IsFirst([ts |-> ts, php |-> v])
  <2> SUFFICES ASSUME NEW b \in found, b # [ts |-> ts, php |-> v]
               PROVE  Before([ts |-> ts, php |-> v], b)
    OBVIOUS
  <2>1. b.ts \in {"nts", "zts"} /\ b.php \in Php(b.ts)
        /\ b = [ts |-> b.ts, php |-> b.php]
    BY <1>a
  <2>2. v \in Nat /\ b.php \in Nat
    BY <1>1, <1>3, <2>1
  <2>3. CASE b.ts = ts
    BY <1>3, <2>1, <2>2, <2>3 DEF Before
  <2>4. CASE b.ts # ts
    BY <1>2, <2>1, <2>4 DEF Before
  <2> QED
    BY <2>3, <2>4
<1>6. FindSO(n) = CHOOSE c \in found : IsFirst(c)
  BY <1>4, <1>5 DEF FindSO
<1>7. FindSO(n) \in found
  <2> HIDE DEF found, IsFirst
  <2> QED
    BY <1>4, <1>5, <1>6
<1> QED
  BY <1>7

\* An object that is the only one of its name is the one found.
LEMMA OnlySO ==
  ASSUME TypeOK, NEW n \in Names, NEW a \in Api, base.so[n][a] # Absent,
         \A b \in Api : base.so[n][b] # Absent => b = a
  PROVE  FindSO(n) = a
  BY FoundSO

\* What the extraction of an item does to the modules.
LEMMA ExtractedModules ==
  ASSUME TypeOK, Resolvable(plan, lock), NEW i \in Items, NEW f \in File
  PROVE  /\ Extracted(i, f).conf = base.conf
         /\ \A n \in Names, a \in Api :
              Extracted(i, f).so[n][a] =
                IF \/ i = n /\ a = ExtApi
                   \/ i = "php" /\ n = "opcache" /\ a = CoreApi
                        /\ plan.php \in SharedOpcache
                THEN f ELSE base.so[n][a]
<1>1. base \in Trees /\ plan \in Plans /\ lock \in Locks
  BY DEF TypeOK
<1>2. CoreApi \in Api /\ ExtApi \in Api /\ "opcache" \in Names /\ "php" \notin Names
  BY CoreApiType, DriversAssumption, NamesAssumption
<1>4. CASE i = "php"
  <2> DEFINE v == IF plan.php \in SharedOpcache THEN f
                  ELSE base.so["opcache"][CoreApi]
             t == IF HasTemplates(Res.core) THEN f ELSE base.tmpl
             s == [base.so EXCEPT !["opcache"] =
                     [base.so["opcache"] EXCEPT ![CoreApi] = v]]
  <2>1. Extracted(i, f) = [base EXCEPT !.bin = f, !.tmpl = t, !.so = s]
    BY <1>1, <1>4 DEF Extracted, Trees
  <2>2. Extracted(i, f).conf = base.conf /\ Extracted(i, f).so = s
    <3> HIDE DEF s, t
    <3> QED
      BY <1>1, <2>1 DEF Trees
  <2>3. base.so \in [Names -> [Api -> File]]
    BY <1>1 DEF Trees
  <2>4. \A n \in Names, a \in Api :
          s[n][a] = IF n = "opcache" /\ a = CoreApi THEN v ELSE base.so[n][a]
    BY <1>2, <2>3
  <2>5. \A n \in Names, a \in Api :
          s[n][a] = IF n = "opcache" /\ a = CoreApi /\ plan.php \in SharedOpcache
                    THEN f ELSE base.so[n][a]
    BY <2>4
  <2> HIDE DEF s
  <2> QED
    BY <1>2, <1>4, <2>2, <2>5
<1>5. CASE i # "php"
  <2>1. i \in Names
    BY <1>1, <1>5, SeparateNames DEF Items
  <2>2. base.so \in [Names -> [Api -> File]]
    BY <1>1 DEF Trees
  <2>3. Extracted(i, f) = [base EXCEPT !.so = [base.so EXCEPT ![i] =
                             [base.so[i] EXCEPT ![ExtApi] = f]]]
    BY <1>1, <1>5 DEF Extracted, Trees
  <2> QED
    BY <1>1, <1>2, <1>5, <2>1, <2>2, <2>3 DEF Trees
<1> QED
  BY <1>4, <1>5

\* What composition does to conf.d: the fragments of es are written anew.
LEMMA ComposedModules ==
  ASSUME TypeOK, NEW es
  PROVE  /\ Composed(es).so = base.so
         /\ Composed(es).conf.opcache = base.conf.opcache
         /\ \A n \in Names : Composed(es).conf.load[n] =
              IF n \in es THEN FindSO(n) ELSE base.conf.load[n]
<1> DEFINE load == [n \in Names |-> IF n \in es THEN FindSO(n)
                                   ELSE base.conf.load[n]]
           link == [n \in Names |-> IF n \in es THEN FindSO(n)
                                   ELSE base.link[n]]
<1>1. base \in Trees /\ base.conf \in Confs
  BY DEF TypeOK, Trees
<1>2. Composed(es) = [base EXCEPT !.link = link,
                                  !.conf = [base.conf EXCEPT !.load = load]]
  BY <1>1 DEF Composed, Trees
<1>3. \A n \in Names : load[n] = IF n \in es THEN FindSO(n)
                                 ELSE base.conf.load[n]
  OBVIOUS
<1> HIDE DEF load, link
<1>4. /\ Composed(es).so = base.so
      /\ Composed(es).conf = [base.conf EXCEPT !.load = load]
  BY <1>1, <1>2 DEF Trees
<1>5. /\ [base.conf EXCEPT !.load = load].load = load
      /\ [base.conf EXCEPT !.load = load].opcache = base.conf.opcache
  BY <1>1 DEF Confs
<1> QED
  BY <1>3, <1>4, <1>5

\* The phases of the composition and their failures, by what they write.
LEMMA ComposingWrites ==
  ASSUME TypeOK,
         LoadOpcache \/ SelectBaseIniFile \/ WriteIniValues \/ ComposeFails
  PROVE  \/ \E es \in SUBSET Separate(plan) :
               pc = "compose" /\ base' = Composed(es)
         \/ /\ base'.so = base.so
            /\ base'.conf.load = base.conf.load
            /\ base'.conf.opcache = base.conf.opcache
                 \/ (OpcacheWanted(plan) /\ FindSO("opcache") # Absent)
<1>1. base \in Trees /\ base.conf \in Confs
  BY DEF TypeOK, Trees
<1> DEFINE so == FindSO("opcache")
<1> HIDE DEF so
<1>2. CASE LoadOpcache
  <2>1. CASE OpcacheWanted(plan) /\ so # Absent
    <3>1. base' = [base EXCEPT !.link["opcache"] = so, !.conf.opcache = TRUE]
      BY <1>2, <2>1 DEF LoadOpcache, so
    <3>2. base'.so = base.so /\ base'.conf.load = base.conf.load
      BY <1>1, <3>1 DEF Trees, Confs
    <3> QED
      BY <2>1, <3>2 DEF so
  <2>2. CASE ~(OpcacheWanted(plan) /\ so # Absent)
    BY <1>2, <2>2 DEF LoadOpcache, so
  <2> QED
    BY <2>1, <2>2
<1>3. CASE SelectBaseIniFile
  <2>1. \/ base' = base
        \/ \E x : base' = [base EXCEPT !.conf.phpIni = x]
    BY <1>3 DEF SelectBaseIniFile
  <2> QED
    BY <1>1, <2>1 DEF Trees, Confs
<1>4. CASE WriteIniValues
  BY <1>1, <1>4 DEF WriteIniValues, Trees, Confs
<1>5. CASE ComposeFails
  <2>1. CASE pc = "compose"
    BY <1>5, <2>1 DEF ComposeFails
  <2>2. CASE pc = "opcache"
    <3>1. base' = [base EXCEPT !.link["opcache"] = so]
      BY <1>5, <2>2 DEF ComposeFails, so
    <3> QED
      BY <1>1, <3>1 DEF Trees, Confs
  <2>3. CASE pc = "baseini"
    BY <1>1, <1>5, <2>3 DEF ComposeFails, Trees, Confs
  <2>4. CASE pc = "values"
    <3>1. \E v : base' = [base EXCEPT !.conf.values = v]
      BY <1>5, <2>4 DEF ComposeFails
    <3> QED
      BY <1>1, <3>1 DEF Trees, Confs
  <2> QED
    BY <1>5, <2>1, <2>2, <2>3, <2>4 DEF ComposeFails
<1> QED
  BY <1>2, <1>3, <1>4, <1>5

(***************************************************************************)
(* Nor is there a template, or an ini file made of one, on a machine that  *)
(* has served no core with templates.                                      *)
(***************************************************************************)
TemplatesServed == \E r \in served : HasTemplates(Resolve(r[1], r[2]).core)

FromTemplate(ini) == ini \in IniFiles \X (Digests \cup {Torn})

TemplatesInv ==
  ~TemplatesServed =>
    /\ base.tmpl = Absent
    /\ ~FromTemplate(base.conf.phpIni)
    /\ \A h \in Hashes : ~FromTemplate(cache[h].conf.phpIni)

\* The files in question after the phases that compose.
LEMMA ComposingTemplates ==
  ASSUME TypeOK, base.tmpl = Absent,
         \/ ComposeExtensions \/ LoadOpcache \/ SelectBaseIniFile
         \/ WriteIniValues \/ ComposeFails
  PROVE  /\ base'.tmpl = base.tmpl
         /\ base'.conf.phpIni \in {base.conf.phpIni, <<"none">>}
<1>1. base \in Trees /\ base.conf \in Confs
  BY DEF TypeOK, Trees
<1>2. ASSUME NEW es, base' = Composed(es)
      PROVE  base'.tmpl = base.tmpl /\ base'.conf.phpIni = base.conf.phpIni
  <2> DEFINE load == [n \in Names |-> IF n \in es THEN FindSO(n)
                                     ELSE base.conf.load[n]]
             link == [n \in Names |-> IF n \in es THEN FindSO(n)
                                     ELSE base.link[n]]
  <2>1. base' = [base EXCEPT !.link = link,
                             !.conf = [base.conf EXCEPT !.load = load]]
    BY <1>1, <1>2 DEF Composed, Trees
  <2> HIDE DEF load, link
  <2> QED
    BY <1>1, <2>1 DEF Trees, Confs
<1>3. ASSUME NEW x, base' = [base EXCEPT !.link["opcache"] = x]
      PROVE  base'.tmpl = base.tmpl /\ base'.conf = base.conf
  BY <1>1, <1>3 DEF Trees
<1>4. CASE LoadOpcache
  <2> DEFINE so == FindSO("opcache")
  <2> HIDE DEF so
  <2>1. \/ base' = base
        \/ base' = [base EXCEPT !.link["opcache"] = so, !.conf.opcache = TRUE]
    BY <1>4 DEF LoadOpcache, so
  <2> QED
    BY <1>1, <2>1 DEF Trees, Confs
<1>5. CASE SelectBaseIniFile
  <2>1. base' = base \/ base' = [base EXCEPT !.conf.phpIni = <<"none">>]
    BY <1>5 DEF SelectBaseIniFile
  <2> QED
    BY <1>1, <2>1 DEF Trees, Confs
<1>6. CASE WriteIniValues
  BY <1>1, <1>6 DEF WriteIniValues, Trees, Confs
<1>7. CASE ComposeFails
  <2>1. \/ \E es : base' = Composed(es)
        \/ \E x : base' = [base EXCEPT !.link["opcache"] = x]
        \/ base' = [base EXCEPT !.conf.phpIni = <<"none">>]
        \/ \E v : base' = [base EXCEPT !.conf.values = v]
    BY <1>7 DEF ComposeFails
  <2>2. CASE base' = [base EXCEPT !.conf.phpIni = <<"none">>]
    BY <1>1, <2>2 DEF Trees, Confs
  <2>3. CASE \E v : base' = [base EXCEPT !.conf.values = v]
    BY <1>1, <2>3 DEF Trees, Confs
  <2> QED
    BY <1>2, <1>3, <2>1, <2>2, <2>3
<1>8. CASE ComposeExtensions
  BY <1>2, <1>8 DEF ComposeExtensions
<1> QED
  BY <1>4, <1>5, <1>6, <1>7, <1>8

LEMMA TemplatesStep ==
  TypeInv /\ CacheInv /\ TemplatesInv /\ [Next]_vars => TemplatesInv'
<1> SUFFICES ASSUME TypeInv, CacheInv, TemplatesInv, [Next]_vars,
                    ~TemplatesServed'
             PROVE  /\ base'.tmpl = Absent
                    /\ ~FromTemplate(base'.conf.phpIni)
                    /\ \A h \in Hashes : ~FromTemplate(cache'[h].conf.phpIni)
  BY DEF TemplatesInv, FromTemplate
<1> USE DEF run, local
<1>0. /\ TypeOK /\ base \in Trees /\ base.conf \in Confs
      /\ cache \in [Hashes -> Entries] /\ Hash(plan) \in Hashes
  BY DEF TypeInv, TypeOK, Trees, Hashes
<1>e. ~FromTemplate(Absent) /\ ~FromTemplate(<<"none">>)
  BY AbsentAssumption DEF FromTemplate
<1>1. CASE NewMachine
  BY <1>1, <1>e DEF NewMachine, EmptyBase, NoConf, NoEntry
<1>2. CASE ~NewMachine
  <2>1. served \subseteq served'
    BY <1>2
    DEF vars, Next, Install, Extract, Begin, Abort, ResolvePlan, CheckCache,
        FetchBundles, CheckSchema, ExtractItem, ExtractItemFails, ExtractDone,
        ComposeExtensions, LoadOpcache, SelectBaseIniFile, WriteIniValues,
        ComposeFails, ExportEnv, ExportEnvFails, SeedTree, SeedMarker,
        SeedFails, NewContainer
  <2>2. ~TemplatesServed
    BY <2>1 DEF TemplatesServed, HasTemplates
  <2>3. /\ base.tmpl = Absent /\ ~FromTemplate(base.conf.phpIni)
        /\ \A h \in Hashes : ~FromTemplate(cache[h].conf.phpIni)
    BY <2>2 DEF TemplatesInv
  <2>4. CASE UNCHANGED <<base, cache>>
    BY <2>3, <2>4
  <2>5. CASE NewContainer
    BY <1>e, <2>3, <2>5 DEF NewContainer, EmptyBase, NoConf
  <2>6. ASSUME NEW i \in Items, ExtractItem(i) \/ ExtractItemFails(i)
        PROVE  base'.tmpl = Absent /\ base'.conf = base.conf /\ cache' = cache
    <3>1. /\ pc = "extract" /\ cache' = cache
          /\ Resolvable(plan, lock) /\ <<plan, lock>> \in served
      BY <2>6 DEF ExtractItem, ExtractItemFails, TypeInv, Resolved, Phases,
                  CacheInv
    <3>2. ~HasTemplates(Res.core)
      BY <2>2, <3>1 DEF TemplatesServed, Res
    <3>3. PICK f \in File : base' = Extracted(i, f)
      <4>1. Digest(i) \in File /\ Torn \in File
        BY <1>0, <3>1, DigestType DEF File
      <4> QED
        BY <2>6, <4>1 DEF ExtractItem, ExtractItemFails
    <3>4. base'.conf = base.conf
      BY <1>0, <3>1, <3>3, ExtractedModules
    <3>5. base'.tmpl = base.tmpl
      BY <1>0, <3>2, <3>3, ExtractedCore
    <3> QED
      BY <2>3, <3>1, <3>4, <3>5
  <2>7. CASE \/ ComposeExtensions \/ LoadOpcache \/ SelectBaseIniFile
             \/ WriteIniValues \/ ComposeFails
    <3>1. cache' = cache
      BY <2>7 DEF ComposeExtensions, LoadOpcache, SelectBaseIniFile,
                  WriteIniValues, ComposeFails
    <3> QED
      BY <1>0, <1>e, <2>3, <2>7, <3>1, ComposingTemplates
  <2>8. CASE SeedTree
    <3> DEFINE e == cache[Hash(plan)]
    <3>1. /\ base' = base /\ cache'[Hash(plan)] = Seeded(e)
          /\ \A h \in Hashes \ {Hash(plan)} : cache'[h] = cache[h]
      BY <1>0, <2>8 DEF SeedTree
    <3>2. Seeded(e).conf.phpIni \in {base.conf.phpIni, e.conf.phpIni}
      BY DEF Seeded, Over
    <3>3. ~FromTemplate(e.conf.phpIni)
      BY <1>0, <2>3
    <3> HIDE DEF e
    <3> QED
      BY <1>0, <2>3, <3>1, <3>2, <3>3
  <2>9. CASE SeedMarker \/ SeedFails
    <3>1. base' = base /\ \A h \in Hashes : cache'[h].conf = cache[h].conf
      BY <1>0, <2>9 DEF SeedMarker, SeedFails, Entries
    <3> QED
      BY <2>3, <3>1
  <2> QED
    BY <1>2, <2>4, <2>5, <2>6, <2>3, <2>7, <2>8, <2>9
    DEF vars, Next, Install, Extract, Begin, Abort, ResolvePlan, CheckCache,
        FetchBundles, CheckSchema, ExtractDone, ExportEnv, ExportEnvFails
<1> QED
  BY <1>1, <1>2

LEMMA OriginStep ==
  TypeInv /\ CacheInv /\ OriginInv /\ [Next]_vars => OriginInv'
<1> SUFFICES ASSUME TypeInv, CacheInv, OriginInv, [Next]_vars
             PROVE  OriginInv'
  OBVIOUS
<1> USE DEF run, local
<1>0. /\ TypeOK /\ base \in Trees /\ base.conf \in Confs
      /\ plan \in Plans /\ lock \in Locks
      /\ cache \in [Hashes -> Entries] /\ Hash(plan) \in Hashes
  BY DEF TypeInv, TypeOK, Trees, Hashes
<1>e. /\ \A n \in Names, a \in Api : EmptyBase.so[n][a] = Absent
      /\ \A n \in Names : EmptyBase.conf.load[n] = Absent
      /\ \A n \in Names : NoEntry.conf.load[n] = Absent
      /\ ~EmptyBase.conf.opcache /\ ~NoEntry.conf.opcache
  BY DEF EmptyBase, NoModules, NoConf, NoEntry
<1>a. ASSUME UNCHANGED <<base, cache>>, served \subseteq served'
      PROVE  /\ \A n \in Names, a \in Api :
                  base'.so[n][a] # Absent => \E r \in served' : PutBy(r, n, a)
             /\ ConfOrigin(base.conf)'
             /\ \A h \in Hashes : ConfOrigin(cache[h].conf)'
  BY <1>a DEF OriginInv, ConfOrigin
<1>1. CASE UNCHANGED vars
  BY <1>1, <1>a DEF vars, OriginInv
<1>2. ASSUME NEW r \in Requests, Begin(r[1], r[2]) PROVE OriginInv'
  <2>1. /\ UNCHANGED <<base, cache>> /\ served \subseteq served'
        /\ <<plan', lock'>> \in served'
    BY <1>2 DEF Begin
  <2> QED
    BY <1>a, <2>1 DEF OriginInv
<1>3. CASE /\ UNCHANGED <<plan, lock, base, cache, served>>
  BY <1>3, <1>a DEF OriginInv
<1>4. CASE NewMachine
  <2>1. served' = {} /\ base' = EmptyBase /\ cache' = [h \in Hashes |-> NoEntry]
    BY <1>4 DEF NewMachine
  <2>2. \A h \in Hashes : cache'[h] = NoEntry
    BY <2>1
  <2> QED
    BY <1>e, <2>1, <2>2 DEF OriginInv, ConfOrigin
<1>5. CASE NewContainer
  <2>1. UNCHANGED <<plan, lock, cache, served>> /\ base' = EmptyBase
    BY <1>5 DEF NewContainer
  <2> QED
    BY <1>e, <2>1 DEF OriginInv, ConfOrigin
<1>6. ASSUME NEW i \in Items, ExtractItem(i) \/ ExtractItemFails(i)
      PROVE  OriginInv'
  <2>1. /\ pc = "extract" /\ i \in todo
        /\ UNCHANGED <<plan, lock, cache, served>>
    BY <1>6 DEF ExtractItem, ExtractItemFails
  <2>2. Resolvable(plan, lock) /\ <<plan, lock>> \in served
    BY <2>1 DEF TypeInv, Resolved, Phases, CacheInv
  <2>3. PICK f \in File : base' = Extracted(i, f)
    <3>1. Digest(i) \in File /\ Torn \in File
      BY <1>0, <2>2, DigestType DEF File
    <3> QED
      BY <1>6, <3>1 DEF ExtractItem, ExtractItemFails
  <2>4. base'.conf = base.conf
    BY <1>0, <2>2, <2>3, ExtractedModules
  <2>5. ASSUME NEW n \in Names, NEW a \in Api, base'.so[n][a] # Absent
        PROVE  \E r \in served' : PutBy(r, n, a)
    <3>1. CASE base'.so[n][a] = base.so[n][a]
      BY <2>1, <2>5, <3>1 DEF OriginInv
    <3>2. CASE base'.so[n][a] # base.so[n][a]
      <4>1. \/ i = n /\ a = ExtApi
            \/ n = "opcache" /\ a = CoreApi /\ plan.php \in SharedOpcache
        BY <1>0, <2>2, <2>3, <3>2, ExtractedModules
      <4>2. PutBy(<<plan, lock>>, n, a)
        <5>1. CASE i = n /\ a = ExtApi
          <6>1. n \in Separate(plan) /\ n # "opcache"
            BY <1>0, <2>2, <5>1, SeparateExtensions, NamesAssumption DEF Items
          <6> QED
            BY <5>1, <6>1 DEF PutBy, BuildOf, ExtApi
        <5>2. CASE n = "opcache" /\ a = CoreApi /\ plan.php \in SharedOpcache
          BY <5>2 DEF PutBy, CoreBuildOf, CoreApi, Res, Resolve
        <5> QED
          BY <4>1, <5>1, <5>2
      <4> QED
        BY <2>1, <2>2, <4>2
    <3> QED
      BY <3>1, <3>2
  <2>6. ConfOrigin(base.conf)' /\ \A h \in Hashes : ConfOrigin(cache[h].conf)'
    BY <2>1, <2>4 DEF OriginInv, ConfOrigin
  <2> QED
    BY <2>1, <2>5, <2>6 DEF OriginInv
<1>7. CASE \/ ComposeExtensions
           \/ LoadOpcache \/ SelectBaseIniFile \/ WriteIniValues \/ ComposeFails
  <2>1. /\ UNCHANGED <<plan, lock, cache, served>>
        /\ pc \in {"compose", "opcache", "baseini", "values"}
    BY <1>7 DEF ComposeExtensions, LoadOpcache, SelectBaseIniFile,
                WriteIniValues, ComposeFails
  <2>2. Resolvable(plan, lock) /\ <<plan, lock>> \in served
    BY <2>1 DEF TypeInv, Resolved, Phases, CacheInv
  <2>3. \/ \E es \in SUBSET Separate(plan) : base' = Composed(es)
        \/ /\ base'.so = base.so
           /\ base'.conf.load = base.conf.load
           /\ base'.conf.opcache = base.conf.opcache
                \/ (OpcacheWanted(plan) /\ FindSO("opcache") # Absent)
    BY <1>0, <1>7, ComposingWrites DEF ComposeExtensions
  <2>4. base'.so = base.so
    BY <1>0, <2>3, ComposedModules
  <2>5. \A n \in Names : base'.conf.load[n] # Absent =>
           \E r \in served : n \in Separate(r[1])
    <3>1. \A n \in Names : base'.conf.load[n] = base.conf.load[n]
                           \/ n \in Separate(plan)
      BY <1>0, <2>3, ComposedModules
    <3> QED
      BY <2>2, <3>1 DEF OriginInv, ConfOrigin
  <2>6. ASSUME base'.conf.opcache
        PROVE  /\ \E r \in served : OpcacheWanted(r[1])
               /\ \E r \in served : r[1].php \in SharedOpcache
    <3>1. CASE base.conf.opcache
      BY <3>1 DEF OriginInv, ConfOrigin
    <3>2. CASE ~base.conf.opcache
      <4>1. OpcacheWanted(plan) /\ FindSO("opcache") # Absent
        BY <1>0, <2>3, <2>6, <3>2, ComposedModules
      <4>2. PICK a \in Api : base.so["opcache"][a] # Absent
        BY <4>1 DEF FindSO
      <4>3. \E r \in served : PutBy(r, "opcache", a)
        BY <4>2, DriversAssumption DEF OriginInv
      <4> QED
        BY <2>2, <4>1, <4>3 DEF PutBy
    <3> QED
      BY <3>1, <3>2
  <2> QED
    BY <2>1, <2>4, <2>5, <2>6 DEF OriginInv, ConfOrigin
<1>8. CASE SeedTree
  <2> DEFINE e == cache[Hash(plan)]
  <2>1. UNCHANGED <<plan, lock, base, served>>
    BY <1>8 DEF SeedTree
  <2>2. /\ cache'[Hash(plan)] = Seeded(e)
        /\ \A h \in Hashes \ {Hash(plan)} : cache'[h] = cache[h]
    BY <1>0, <1>8 DEF SeedTree
  <2>3. /\ Seeded(e).conf.opcache = (base.conf.opcache \/ e.conf.opcache)
        /\ \A n \in Names : Seeded(e).conf.load[n] \in
             {base.conf.load[n], e.conf.load[n]}
    BY DEF Seeded, Over
  <2>4. ConfOrigin(base.conf) /\ ConfOrigin(e.conf)
    BY <1>0 DEF OriginInv
  <2> HIDE DEF e
  <2>5. ConfOrigin(Seeded(e).conf)
    BY <2>3, <2>4 DEF ConfOrigin
  <2>6. \A h \in Hashes : ConfOrigin(cache'[h].conf)
    BY <2>2, <2>5 DEF OriginInv
  <2> QED
    BY <2>1, <2>6 DEF OriginInv, ConfOrigin
<1>9. CASE SeedMarker \/ SeedFails
  <2>1. UNCHANGED <<plan, lock, base, served>>
    BY <1>9 DEF SeedMarker, SeedFails
  <2>2. \A h \in Hashes : cache'[h].conf = cache[h].conf
    BY <1>0, <1>9 DEF SeedMarker, SeedFails, Entries
  <2> QED
    BY <2>1, <2>2 DEF OriginInv, ConfOrigin
<1> QED
  BY <1>1, <1>2, <1>3, <1>4, <1>5, <1>6, <1>7, <1>8, <1>9
  DEF Next, Install, Extract, Abort, ResolvePlan, CheckCache, FetchBundles,
      CheckSchema, ExtractDone, ExportEnv, ExportEnvFails

\* What is resolved and what is found depend on the plan, the lockfile and the
\* shared objects.
LEMMA SameModules ==
  ASSUME UNCHANGED <<plan, lock>>, base'.so = base.so
  PROVE  /\ Res' = Res /\ ExtApi' = ExtApi /\ CoreApi' = CoreApi
         /\ \A n \in Names : FindSO(n)' = FindSO(n)
         /\ ModulesInstalled' = ModulesInstalled
<1>1. Res' = Res /\ ExtApi' = ExtApi /\ CoreApi' = CoreApi
  BY DEF Res, ExtApi, CoreApi
<1>2. \A n \in Names : FindSO(n)' = FindSO(n)
  BY DEF FindSO
<1> QED
  BY <1>1, <1>2 DEF ModulesInstalled

\* The extensions of a tree that has them are found.
LEMMA InstalledFound ==
  ASSUME TypeOK, Resolvable(plan, lock), ModulesInstalled,
         NEW e \in Separate(plan)
  PROVE  FindSO(e) # Absent
<1>1. /\ e \in Names /\ ExtApi \in Api /\ Res.exts[e] \in Digests
  BY SeparateNames, CoreApiType, Resolution DEF TypeOK, Res
<1>2. base.so[e][ExtApi] # Absent
  BY <1>1, AbsentAssumption DEF ModulesInstalled
<1>3. FindSO(e) \in Api /\ base.so[e][FindSO(e)] # Absent
  BY <1>1, <1>2, FoundSO
<1> QED
  BY <1>3, AbsentAssumption DEF Api

LEMMA ModulesStep ==
  TypeInv /\ InstallInv /\ ModulesInv /\ [Next]_vars => ModulesInv'
<1> SUFFICES ASSUME TypeInv, InstallInv, ModulesInv, [Next]_vars
             PROVE  ModulesInv'
  OBVIOUS
<1> USE DEF run, local, Gone, Installed
<1>0. /\ TypeOK /\ base \in Trees /\ base.conf \in Confs
      /\ plan \in Plans /\ lock \in Locks
      /\ cache \in [Hashes -> Entries] /\ Hash(plan) \in Hashes
      /\ "opcache" \in Names
  BY DriversAssumption DEF TypeInv, TypeOK, Trees, Hashes
<1>1. CASE pc' \in {"idle", "resolve", "check", "fetch", "schema", "failed"}
  BY <1>1 DEF ModulesInv
<1>2. CASE UNCHANGED vars
  <2>1. \A n \in Names : FindSO(n)' = FindSO(n)
    BY <1>2 DEF vars, FindSO
  <2>2. Res' = Res /\ ExtApi' = ExtApi /\ CoreApi' = CoreApi
        /\ Separate(plan)' = Separate(plan) /\ Separate(plan) \subseteq Names
    BY <1>0, <1>2, SeparateNames DEF vars, Res, ExtApi, CoreApi
  <2> QED
    BY <1>0, <1>2, <2>1, <2>2
    DEF vars, ModulesInv, ModulesInstalled, LoadsExts, LoadsOpcache
<1>3. CASE CheckCache
  <2>1. InCache(Hash(plan)).in # InBase.in
    BY DEF InCache, InBase
  <2>2. pc' = "fetch" \/ (pc' = "export" /\ at' # InBase)
    BY <1>3, <2>1 DEF CheckCache
  <2> QED
    BY <2>2 DEF ModulesInv
<1>4. CASE CheckSchema
  <2>1. pc' = "failed" \/ (pc' = "extract" /\ todo' = Items /\ plan' = plan)
    BY <1>4 DEF CheckSchema
  <2> QED
    BY <2>1 DEF ModulesInv, Items
<1>5. ASSUME NEW i \in Items, ExtractItem(i) PROVE ModulesInv'
  <2>1. /\ pc = "extract" /\ pc' = "extract" /\ bad' = bad /\ todo' = todo \ {i}
        /\ UNCHANGED <<plan, lock>> /\ base' = Extracted(i, Digest(i))
    BY <1>5 DEF ExtractItem
  <2>2. Resolvable(plan, lock)
    BY <2>1 DEF TypeInv, Resolved, Phases
  <2>3. Digest(i) \in File
    BY <1>0, <2>2, DigestType DEF File
  <2>4. Res' = Res /\ ExtApi' = ExtApi /\ CoreApi' = CoreApi
    BY <2>1 DEF Res, ExtApi, CoreApi
  <2>5. \A n \in Names, a \in Api :
          base'.so[n][a] =
            IF \/ i = n /\ a = ExtApi
               \/ i = "php" /\ n = "opcache" /\ a = CoreApi
                    /\ plan.php \in SharedOpcache
            THEN Digest(i) ELSE base.so[n][a]
    BY <1>0, <2>1, <2>2, <2>3, ExtractedModules
  <2>6. /\ CoreApi \in Api /\ ExtApi \in Api /\ Separate(plan) \subseteq Names
        /\ "opcache" \notin Separate(plan) /\ "php" \notin Separate(plan)
        /\ "php" # "opcache"
    BY <1>0, <2>2, CoreApiType, SeparateNames, SeparateExtensions
  <2>7. ASSUME ~bad, NEW e \in Separate(plan), e \notin todo'
        PROVE  base'.so[e][ExtApi] = Res.exts[e]
    <3>1. CASE e = i
      BY <2>5, <2>6, <3>1 DEF Digest
    <3>2. CASE e # i
      BY <2>1, <2>5, <2>6, <2>7, <3>2 DEF ModulesInv
    <3> QED
      BY <3>1, <3>2
  <2>8. ASSUME ~bad, "php" \notin todo', plan.php \in SharedOpcache
        PROVE  base'.so["opcache"][CoreApi] = Res.core
    <3>1. CASE i = "php"
      BY <1>0, <2>5, <2>6, <2>8, <3>1 DEF Digest
    <3>2. CASE i # "php"
      <4>1. i # "opcache"
        BY <2>6, <3>2 DEF Items
      <4>2. base.so["opcache"][CoreApi] = Res.core
        BY <2>1, <2>8, <3>2 DEF ModulesInv
      <4> QED
        BY <1>0, <2>5, <2>6, <3>2, <4>1, <4>2
    <3> QED
      BY <3>1, <3>2
  <2> QED
    BY <2>1, <2>4, <2>7, <2>8 DEF ModulesInv
<1>6. ASSUME NEW i \in Items, ExtractItemFails(i) PROVE ModulesInv'
  BY <1>6 DEF ExtractItemFails, ModulesInv
<1>7. CASE ExtractDone
  <2>1. CASE bad
    BY <1>7, <2>1 DEF ExtractDone, ModulesInv
  <2>2. CASE ~bad
    <3>1. /\ pc = "extract" /\ todo = {} /\ pc' = "compose"
          /\ UNCHANGED <<plan, lock, base>>
      BY <1>7, <2>2 DEF ExtractDone
    <3>2. ModulesInstalled
      BY <2>2, <3>1 DEF ModulesInv, ModulesInstalled
    <3>3. ModulesInstalled'
      BY <3>1, <3>2, SameModules
    <3> QED
      BY <3>1, <3>3 DEF ModulesInv
  <2> QED
    BY <2>1, <2>2
<1>8. CASE ComposeExtensions
  <2>1. /\ pc = "compose" /\ pc' = "opcache" /\ UNCHANGED <<plan, lock>>
        /\ base' = Composed(Separate(plan))
    BY <1>8 DEF ComposeExtensions
  <2>2. /\ base'.so = base.so /\ Separate(plan) \subseteq Names
        /\ \A e \in Separate(plan) : base'.conf.load[e] = FindSO(e)
    BY <1>0, <2>1, ComposedModules, SeparateNames
  <2>3. ModulesInstalled' /\ LoadsExts(base.conf)'
    BY <2>1, <2>2, SameModules DEF ModulesInv, LoadsExts
  <2> QED
    BY <2>1, <2>3 DEF ModulesInv
<1>9. CASE LoadOpcache
  <2> DEFINE so == FindSO("opcache")
  <2>1. /\ pc = "opcache" /\ pc' = "baseini" /\ UNCHANGED <<plan, lock>>
        /\ base' = IF OpcacheWanted(plan) /\ so # Absent
                   THEN [base EXCEPT !.link["opcache"] = so, !.conf.opcache = TRUE]
                   ELSE base
    BY <1>9 DEF LoadOpcache
  <2>a. so' = so \/ base'.so # base.so
    BY <1>0, <2>1, SameModules
  <2> HIDE DEF so
  <2>2. /\ base'.so = base.so
        /\ base'.conf.load = base.conf.load
        /\ OpcacheWanted(plan) /\ so # Absent =>
             base'.conf.opcache /\ base'.link["opcache"] = so
    BY <1>0, <2>1 DEF Trees, Confs
  <2>3. ModulesInstalled' /\ LoadsExts(base.conf)'
    BY <1>0, <2>1, <2>2, SameModules, SeparateNames DEF ModulesInv, LoadsExts
  <2>4. LoadsOpcache(base.conf)'
    BY <2>1, <2>2, <2>a DEF LoadsOpcache, so
  <2> QED
    BY <2>1, <2>3, <2>4 DEF ModulesInv
<1>10. CASE (SelectBaseIniFile \/ WriteIniValues) /\ pc' # "failed"
  <2>1. /\ pc \in {"baseini", "values"} /\ pc' \in {"values", "export"}
        /\ UNCHANGED <<plan, lock>>
    BY <1>10 DEF SelectBaseIniFile, WriteIniValues
  <2>2. \/ \E x : base' = [base EXCEPT !.conf.phpIni = x]
        \/ \E x : base' = [base EXCEPT !.conf.values = x]
    BY <1>10 DEF SelectBaseIniFile, WriteIniValues
  <2>3. /\ base'.so = base.so /\ base'.link = base.link
        /\ base'.conf.load = base.conf.load
        /\ base'.conf.opcache = base.conf.opcache
    BY <1>0, <2>2 DEF Trees, Confs
  <2>4. ModulesInstalled' /\ LoadsExts(base.conf)' /\ LoadsOpcache(base.conf)'
    BY <1>0, <2>1, <2>3, SameModules, SeparateNames
    DEF ModulesInv, LoadsExts, LoadsOpcache
  <2> QED
    BY <2>1, <2>4 DEF ModulesInv
<1>a. ASSUME pc \in {"export", "seed", "marker"}, at = InBase,
             UNCHANGED <<plan, lock, base>>
      PROVE  ModulesInstalled' /\ LoadsExts(base.conf)' /\ LoadsOpcache(base.conf)'
  BY <1>0, <1>a, SameModules, SeparateNames
  DEF ModulesInv, LoadsExts, LoadsOpcache
<1>11. CASE ExportEnv \/ ExportEnvFails
  BY <1>11, <1>a DEF ExportEnv, ExportEnvFails, ModulesInv
<1>12. CASE SeedTree
  <2> DEFINE e == cache[Hash(plan)]
  <2>1. /\ pc = "seed" /\ pc' = "marker" /\ UNCHANGED <<plan, lock, base>>
        /\ at = InBase /\ Resolvable(plan, lock)
    BY <1>12 DEF SeedTree, InstallInv, TypeInv, Resolved, Phases
  <2>2. cache'[Hash(plan)] = Seeded(e)
    BY <1>0, <1>12 DEF SeedTree
  <2>3. /\ ModulesInstalled /\ LoadsExts(base.conf) /\ LoadsOpcache(base.conf)
    BY <2>1 DEF ModulesInv
  <2>4. LoadsExts(Seeded(e).conf)
    <3>1. \A x \in Separate(plan) : base.conf.load[x] # Absent
      BY <1>0, <2>1, <2>3, InstalledFound DEF LoadsExts
    <3> QED
      BY <1>0, <2>3, <3>1, SeparateNames DEF Seeded, Over, LoadsExts
  <2>5. LoadsOpcache(Seeded(e).conf)
    BY <2>3 DEF Seeded, LoadsOpcache
  <2> HIDE DEF e
  <2>6. LoadsExts(cache[Hash(plan)].conf)' /\ LoadsOpcache(cache[Hash(plan)].conf)'
    BY <1>0, <2>1, <2>2, <2>4, <2>5, SameModules, SeparateNames
    DEF LoadsExts, LoadsOpcache
  <2> QED
    BY <1>a, <2>1, <2>6 DEF ModulesInv
<1>13. CASE SeedMarker \/ SeedFails
  BY <1>13, <1>a DEF SeedMarker, SeedFails, InstallInv, ModulesInv
<1> QED
  BY <1>1, <1>2, <1>3, <1>4, <1>5, <1>6, <1>7, <1>8, <1>9, <1>10, <1>11,
     <1>12, <1>13
  DEF Next, Install, Extract, Begin, Abort, ResolvePlan, FetchBundles,
      ComposeFails, NewMachine, NewContainer

-----------------------------------------------------------------------------
(***************************************************************************)
(* The cache: a marked entry has a fragment for each extension of the      *)
(* plans of its hash; and where one request has the machine to itself, the *)
(* marked entry and the install directory under it are those of the run    *)
(* that wrote the marker.                                                  *)
(***************************************************************************)
EntryInv ==
  \A p \in Plans :
    cache[Hash(p)].complete =>
      \A x \in Separate(p) : cache[Hash(p)].conf.load[x] # Absent

SingleInv ==
  ~Containers /\ served = {<<plan, lock>>} /\ cache[Hash(plan)].complete =>
    /\ Resolvable(plan, lock)
    /\ ModulesInstalled
    /\ LoadsExts(cache[Hash(plan)].conf)
    /\ LoadsOpcache(cache[Hash(plan)].conf)

MachineInv ==
  /\ SetupInv /\ OriginInv /\ ModulesInv /\ EntryInv /\ SingleInv
  /\ TemplatesInv

\* What a step does to the marks: the walk of Seed and the marker are the only
\* writes, and they have an unmarked entry before them.
LEMMA CacheWrites ==
  ASSUME SetupInv, [Next]_vars
  PROVE  \/ UNCHANGED cache
         \/ NewMachine
         \/ SeedMarker
         \/ /\ pc \in {"seed", "marker"} /\ UNCHANGED <<plan, lock, served>>
            /\ ~cache[Hash(plan)].complete /\ ~cache'[Hash(plan)].complete
            /\ \A h \in Hashes \ {Hash(plan)} : cache'[h] = cache[h]
<1> USE DEF run
<1>0. cache \in [Hashes -> Entries] /\ Hash(plan) \in Hashes
  BY DEF SetupInv, TypeInv, TypeOK, Hashes
<1>1. CASE SeedTree \/ SeedFails
  <2>1. pc \in {"seed", "marker"} /\ UNCHANGED <<plan, lock, served>>
    BY <1>1 DEF SeedTree, SeedFails
  <2>2. ~cache[Hash(plan)].complete
    BY <2>1 DEF SetupInv, CacheInv
  <2>3. /\ cache'[Hash(plan)].complete = cache[Hash(plan)].complete
        /\ \A h \in Hashes \ {Hash(plan)} : cache'[h] = cache[h]
    BY <1>0, <1>1 DEF SeedTree, SeedFails, Seeded, Entries
  <2> QED
    BY <2>1, <2>2, <2>3
<1> QED
  BY <1>1
  DEF vars, Next, Install, Extract, Begin, Abort, ResolvePlan, CheckCache,
      FetchBundles, CheckSchema, ExtractItem, ExtractItemFails, ExtractDone,
      ComposeExtensions, LoadOpcache, SelectBaseIniFile, WriteIniValues,
      ComposeFails, ExportEnv, ExportEnvFails, NewContainer

\* The plans of one hash ask for the same extensions.
LEMMA HashSeparate ==
  ASSUME NEW p, NEW q, Hash(p) = Hash(q)
  PROVE  Separate(p) = Separate(q)
  BY DEF Hash, Separate

\* What the run that writes the marker has in the entry and under it.
LEMMA Marking ==
  ASSUME TypeInv, InstallInv, ModulesInv, SeedMarker
  PROVE  /\ UNCHANGED <<plan, lock, base, served>>
         /\ Resolvable(plan, lock) /\ ModulesInstalled
         /\ LoadsExts(cache[Hash(plan)].conf)
         /\ LoadsOpcache(cache[Hash(plan)].conf)
         /\ cache'[Hash(plan)].conf = cache[Hash(plan)].conf
         /\ \A h \in Hashes \ {Hash(plan)} : cache'[h] = cache[h]
<1>1. /\ pc = "marker" /\ at = InBase /\ UNCHANGED <<plan, lock, base, served>>
  BY DEF SeedMarker, InstallInv, run
<1>2. Resolvable(plan, lock)
  BY <1>1 DEF TypeInv, Resolved, Phases
<1>3. cache \in [Hashes -> Entries] /\ Hash(plan) \in Hashes
  BY DEF TypeInv, TypeOK, Hashes
<1> QED
  BY <1>1, <1>2, <1>3 DEF SeedMarker, ModulesInv, Installed, Entries

LEMMA EntryStep ==
  SetupInv /\ ModulesInv /\ EntryInv /\ [Next]_vars => EntryInv'
<1> SUFFICES ASSUME SetupInv, ModulesInv, EntryInv, [Next]_vars,
                    NEW p \in Plans, cache'[Hash(p)].complete,
                    NEW x \in Separate(p)
             PROVE  cache'[Hash(p)].conf.load[x] # Absent
  BY DEF EntryInv
<1>0. /\ TypeInv /\ InstallInv /\ TypeOK
      /\ Hash(p) \in Hashes /\ Hash(plan) \in Hashes
  BY DEF SetupInv, TypeInv, TypeOK, Hashes
<1>1. CASE UNCHANGED cache
  BY <1>1 DEF EntryInv
<1>2. CASE NewMachine
  BY <1>0, <1>2 DEF NewMachine, NoEntry
<1>3. CASE SeedMarker
  <2>1. CASE Hash(p) = Hash(plan)
    <3>1. x \in Separate(plan)
      BY <2>1, HashSeparate
    <3>2. FindSO(x) # Absent /\ cache[Hash(plan)].conf.load[x] = FindSO(x)
      BY <1>0, <1>3, <3>1, Marking, InstalledFound DEF LoadsExts
    <3> QED
      BY <1>0, <1>3, <2>1, <3>2, Marking
  <2>2. CASE Hash(p) # Hash(plan)
    <3>1. cache'[Hash(p)] = cache[Hash(p)]
      BY <1>0, <1>3, <2>2, Marking
    <3> QED
      BY <3>1 DEF EntryInv
  <2> QED
    BY <2>1, <2>2
<1>4. CASE /\ ~cache'[Hash(plan)].complete
           /\ \A h \in Hashes \ {Hash(plan)} : cache'[h] = cache[h]
  <2>1. cache'[Hash(p)] = cache[Hash(p)]
    BY <1>0, <1>4
  <2> QED
    BY <2>1 DEF EntryInv
<1> QED
  BY <1>1, <1>2, <1>3, <1>4, CacheWrites

LEMMA SingleStep ==
  SetupInv /\ OriginInv /\ ModulesInv /\ SingleInv /\ [Next]_vars => SingleInv'
<1> SUFFICES ASSUME SetupInv, OriginInv, ModulesInv, SingleInv, [Next]_vars,
                    ~Containers, served' = {<<plan', lock'>>},
                    cache'[Hash(plan')].complete
             PROVE  /\ Resolvable(plan, lock)'
                    /\ ModulesInstalled'
                    /\ LoadsExts(cache[Hash(plan)].conf)'
                    /\ LoadsOpcache(cache[Hash(plan)].conf)'
  BY DEF SingleInv
<1> USE DEF run, local
<1>0. /\ TypeInv /\ InstallInv /\ CacheInv /\ TypeOK /\ Hash(plan) \in Hashes
      /\ plan \in Plans /\ Separate(plan) \subseteq Names /\ "opcache" \in Names
  BY SeparateNames, DriversAssumption DEF SetupInv, TypeInv, TypeOK, Hashes
<1>a. ASSUME UNCHANGED <<plan, lock, base>>,
             cache'[Hash(plan)].conf = cache[Hash(plan)].conf,
             Resolvable(plan, lock), ModulesInstalled,
             LoadsExts(cache[Hash(plan)].conf),
             LoadsOpcache(cache[Hash(plan)].conf)
      PROVE  /\ Resolvable(plan, lock)'
             /\ ModulesInstalled'
             /\ LoadsExts(cache[Hash(plan)].conf)'
             /\ LoadsOpcache(cache[Hash(plan)].conf)'
  BY <1>0, <1>a, SameModules DEF LoadsExts, LoadsOpcache
<1>1. CASE SeedMarker
  BY <1>0, <1>1, <1>a, Marking
<1>2. CASE NewMachine
  BY <1>2 DEF NewMachine
<1>3. CASE ~cache'[Hash(plan)].complete /\ UNCHANGED plan
  BY <1>3
<1>4. CASE UNCHANGED cache /\ ~NewMachine
  <2>1. UNCHANGED <<plan, lock>> /\ served = served'
    <3>1. ASSUME NEW r \in Requests, Begin(r[1], r[2])
          PROVE  UNCHANGED <<plan, lock>> /\ served = served'
      <4>1. /\ plan' = r[1] /\ lock' = r[2]
            /\ served' = served \cup {<<r[1], r[2]>>}
        BY <3>1 DEF Begin
      <4>2. Hash(plan') \in Hashes
        <5>1. r[1] \in Plans
          BY RequestsAssumption
        <5> QED
          BY <4>1, <5>1 DEF Hashes
      <4>3. served # {}
        BY <1>0, <1>4, <4>2 DEF CacheInv
      <4>4. served = {<<r[1], r[2]>>} /\ <<plan, lock>> \in served
        BY <4>1, <4>3 DEF OriginInv
      <4> QED
        BY <4>1, <4>4
    <3> QED
      BY <1>4, <3>1
      DEF vars, Next, Install, Extract, Abort, ResolvePlan, CheckCache,
          FetchBundles, CheckSchema, ExtractItem, ExtractItemFails, ExtractDone,
          ComposeExtensions, LoadOpcache, SelectBaseIniFile, WriteIniValues,
          ComposeFails, ExportEnv, ExportEnvFails, SeedTree, SeedMarker,
          SeedFails, NewContainer
  <2>2. cache[Hash(plan)].complete
    BY <1>4, <2>1
  <2>3. UNCHANGED base
    <3>1. pc \notin {"extract", "compose", "opcache", "baseini", "values"}
      BY <1>0, <2>2 DEF CacheInv
    <3> QED
      BY <1>4, <3>1
      DEF vars, Next, Install, Extract, Begin, Abort, ResolvePlan, CheckCache,
          FetchBundles, CheckSchema, ExtractItem, ExtractItemFails, ExtractDone,
          ComposeExtensions, LoadOpcache, SelectBaseIniFile, WriteIniValues,
          ComposeFails, ExportEnv, ExportEnvFails, SeedTree, SeedMarker,
          SeedFails, NewContainer
  <2> QED
    BY <1>4, <1>a, <2>1, <2>2, <2>3 DEF SingleInv
<1> QED
  BY <1>1, <1>2, <1>3, <1>4, CacheWrites

LEMMA MachineInvariant == Spec => []MachineInv
<1>1. Init => OriginInv /\ ModulesInv /\ EntryInv /\ SingleInv /\ TemplatesInv
  <2> SUFFICES ASSUME Init
               PROVE  /\ OriginInv /\ ModulesInv /\ EntryInv /\ SingleInv
                      /\ TemplatesInv
    OBVIOUS
  <2>1. /\ pc = "idle" /\ served = {} /\ base = EmptyBase
        /\ \A h \in Hashes : cache[h] = NoEntry
    BY DEF Init
  <2>2. OriginInv
    BY <2>1 DEF OriginInv, ConfOrigin, EmptyBase, NoModules, NoConf, NoEntry
  <2>3. ModulesInv
    BY <2>1 DEF ModulesInv, Installed
  <2>4. EntryInv
    BY <2>1 DEF EntryInv, NoEntry, Hashes
  <2>5. SingleInv
    BY <2>1 DEF SingleInv
  <2>6. TemplatesInv
    BY <2>1, AbsentAssumption
    DEF TemplatesInv, FromTemplate, EmptyBase, NoConf, NoEntry
  <2> QED
    BY <2>2, <2>3, <2>4, <2>5, <2>6
<1>2. SetupInv /\ OriginInv /\ ModulesInv /\ EntryInv /\ SingleInv
        /\ TemplatesInv /\ [Next]_vars
        => (OriginInv /\ ModulesInv /\ EntryInv /\ SingleInv /\ TemplatesInv)'
  BY OriginStep, ModulesStep, EntryStep, SingleStep, TemplatesStep DEF SetupInv
<1> QED
  BY <1>1, <1>2, SetupInvariant, PTL DEF Spec, MachineInv

-----------------------------------------------------------------------------
(***************************************************************************)
(* As long as a machine keeps to one PHP version, an installing run loads  *)
(* every extension it was asked for from the bundle its lockfile names:    *)
(* all the builds there are of it are of that version, so there is one.    *)
(***************************************************************************)
THEOREM ExtensionsLoaded == Spec => []RequestedExtensionsLoaded
<1>1. MachineInv => RequestedExtensionsLoaded
  <2> SUFFICES ASSUME MachineInv, pc = "ready", at = InBase, OneBuild,
                      NEW e \in Separate(plan)
               PROVE  Provided.so[e] = Res.exts[e]
    BY DEF RequestedExtensionsLoaded
  <2>1. /\ TypeOK /\ plan \in Plans /\ lock \in Locks /\ Resolvable(plan, lock)
        /\ env.scan = InBase /\ e \in Names /\ e # "opcache"
    BY SeparateNames, SeparateExtensions
    DEF MachineInv, SetupInv, TypeInv, TypeOK, InstallInv, Resolved
  <2>2. /\ ExtApi \in Api /\ Res.exts[e] \in Digests
        /\ base.so[e][ExtApi] = Res.exts[e]
        /\ base.conf.load[e] = FindSO(e)
    BY <2>1, CoreApiType, Resolution
    DEF MachineInv, ModulesInv, Installed, ModulesInstalled, LoadsExts, Res
  <2>3. \A a \in Api : base.so[e][a] # Absent => a = ExtApi
    BY <2>1 DEF MachineInv, OriginInv, PutBy, BuildOf, OneBuild, ExtApi
  <2>4. base.conf.load[e] = ExtApi /\ ExtApi # Absent
    BY <2>1, <2>2, <2>3, OnlySO, AbsentAssumption DEF Api
  <2> QED
    BY <2>1, <2>2, <2>4 DEF Provided, LoadedFrom, Tree
<1> QED
  BY <1>1, MachineInvariant, PTL

(***************************************************************************)
(* The marker is only on whole trees, whoever shares the machine and       *)
(* whatever died in the middle of Seed.                                    *)
(***************************************************************************)
THEOREM MarkedAreWhole == Spec => []CompleteEntriesAreWhole
<1>1. MachineInv => CompleteEntriesAreWhole
  <2> SUFFICES ASSUME MachineInv, NEW p \in Plans, cache[Hash(p)].complete
               PROVE  /\ cache[Hash(p)].bin \notin {Absent, Torn}
                      /\ cache[Hash(p)].conf.values = IniLayers(p)
                      /\ IniAsWanted(cache[Hash(p)].conf.phpIni, p,
                                     cache[Hash(p)].bin)
                      /\ \A x \in Separate(p) :
                           cache[Hash(p)].conf.load[x] # Absent
    BY DEF CompleteEntriesAreWhole
  <2>1. Hash(p) \in Hashes /\ served \subseteq Requests
    BY DEF Hashes, MachineInv, SetupInv, TypeInv, TypeOK
  <2>2. PICK r \in served : ServedFrom(Hash(p), r)
    BY <2>1 DEF MachineInv, SetupInv, CacheInv
  <2>3. r[1] \in Plans /\ r[2] \in Locks
    BY <2>1, RequestsAssumption
  <2>4. cache[Hash(p)].bin \in Digests
    BY <2>2, <2>3, Resolution DEF ServedFrom, Holds
  <2>5. r[1].iniFile = p.iniFile /\ IniLayers(r[1]) = IniLayers(p)
    <3>1. /\ r[1].php = p.php /\ r[1].iniFile = p.iniFile
          /\ r[1].ext = p.ext /\ r[1].excl = p.excl /\ r[1].reset = p.reset
          /\ r[1].coverage = p.coverage /\ r[1].ini = p.ini
      BY <2>2 DEF ServedFrom, Hash
    <3>2. OpcacheWanted(r[1]) = OpcacheWanted(p)
      BY <3>1 DEF OpcacheWanted, OpcacheExcluded
    <3> QED
      BY <3>1, <3>2 DEF IniLayers
  <2>6. \A x \in Separate(p) : cache[Hash(p)].conf.load[x] # Absent
    BY DEF MachineInv, EntryInv
  <2> QED
    BY <2>2, <2>4, <2>5, <2>6, AbsentAssumption
    DEF ServedFrom, Holds, WantedPhpIni, IniAsWanted
<1> QED
  BY <1>1, MachineInvariant, PTL

-----------------------------------------------------------------------------
\* A conf.d that loads what is found, and nothing that was not asked for, over
\* a directory with the modules of its only request, provides those modules.
LEMMA ModulesProvided ==
  ASSUME MachineInv, served = {<<plan, lock>>}, Resolvable(plan, lock),
         ModulesInstalled, NEW conf \in Confs, ConfOrigin(conf),
         LoadsExts(conf), LoadsOpcache(conf)
  PROVE  LoadedFrom(conf) = [n \in Names |-> WantedModule(plan, lock, n)]
<1>0. /\ TypeOK /\ plan \in Plans /\ lock \in Locks
      /\ "opcache" \in Names /\ "opcache" \notin Separate(plan)
      /\ Separate(plan) \subseteq Names /\ CoreApi \in Api /\ ExtApi \in Api
  BY SeparateNames, SeparateExtensions, DriversAssumption, CoreApiType
  DEF MachineInv, SetupInv, TypeInv, TypeOK
<1>1. \A n \in Names, a \in Api :
        base.so[n][a] # Absent => PutBy(<<plan, lock>>, n, a)
  BY DEF MachineInv, OriginInv
<1>2. CoreBuildOf(<<plan, lock>>) = CoreApi /\ BuildOf(<<plan, lock>>) = ExtApi
  BY DEF CoreBuildOf, BuildOf, CoreApi, ExtApi, Res, Resolve
<1>3. Absent \notin Api
  BY AbsentAssumption DEF Api
<1> DEFINE Loaded(n) ==
             IF n = "opcache"
             THEN IF conf.opcache /\ base.link[n] # Absent
                  THEN base.so[n][base.link[n]] ELSE Absent
             ELSE IF conf.load[n] # Absent THEN base.so[n][conf.load[n]]
             ELSE Absent
<1>4. ASSUME NEW n \in Separate(plan)
      PROVE  Loaded(n) = WantedModule(plan, lock, n)
  <2>1. base.so[n][ExtApi] = Res.exts[n] /\ Res.exts[n] \in Digests
    BY <1>0, Resolution DEF ModulesInstalled, Res
  <2>2. \A a \in Api : base.so[n][a] # Absent => a = ExtApi
    BY <1>0, <1>1, <1>2 DEF PutBy
  <2>3. FindSO(n) = ExtApi
    BY <1>0, <2>1, <2>2, OnlySO, AbsentAssumption
  <2>4. conf.load[n] = ExtApi
    BY <2>3 DEF LoadsExts
  <2> QED
    BY <1>0, <1>3, <2>1, <2>4 DEF WantedModule, Res
<1>5. ASSUME NEW n \in Names \ Separate(plan), n # "opcache"
      PROVE  Loaded(n) = WantedModule(plan, lock, n)
  <2>1. conf.load[n] = Absent
    BY <1>5 DEF ConfOrigin
  <2> QED
    BY <1>5, <2>1 DEF WantedModule
<1>6. Loaded("opcache") = WantedModule(plan, lock, "opcache")
  <2>1. CASE OpcacheWanted(plan) /\ plan.php \in SharedOpcache
    <3>1. base.so["opcache"][CoreApi] = Res.core /\ Res.core \in Digests
      BY <1>0, <2>1, Resolution DEF ModulesInstalled, Res
    <3>2. \A a \in Api : base.so["opcache"][a] # Absent => a = CoreApi
      BY <1>0, <1>1, <1>2 DEF PutBy
    <3>3. FindSO("opcache") = CoreApi
      BY <1>0, <3>1, <3>2, OnlySO, AbsentAssumption
    <3>4. conf.opcache /\ base.link["opcache"] = CoreApi
      BY <1>0, <1>3, <2>1, <3>3 DEF LoadsOpcache
    <3> QED
      BY <1>0, <1>3, <2>1, <3>1, <3>4 DEF WantedModule, Res
  <2>2. CASE ~(OpcacheWanted(plan) /\ plan.php \in SharedOpcache)
    <3>1. ~conf.opcache
      BY <2>2 DEF ConfOrigin
    <3> QED
      BY <1>0, <2>2, <3>1 DEF WantedModule
  <2> QED
    BY <2>1, <2>2
<1>7. \A n \in Names : Loaded(n) = WantedModule(plan, lock, n)
  BY <1>4, <1>5, <1>6
<1>8. LoadedFrom(conf) = [n \in Names |-> Loaded(n)]
  BY DEF LoadedFrom
<1> HIDE DEF Loaded
<1> QED
  BY <1>7, <1>8

\* What is delivered in a ready state, from the base directory or an entry.
LEMMA AsResolved == MachineInv => EnvironmentAsResolved
<1> SUFFICES ASSUME MachineInv, pc = "ready", served = {<<plan, lock>>},
                    ~Containers
             PROVE  Provided = Wanted(plan, lock)
  BY DEF EnvironmentAsResolved
<1>0. /\ SetupInv /\ TypeOK /\ Resolvable(plan, lock) /\ plan \in Plans
      /\ base.conf \in Confs /\ cache \in [Hashes -> Entries]
      /\ Hash(plan) \in Hashes /\ env = [path |-> at, phprc |-> at, scan |-> at]
  BY DEF MachineInv, SetupInv, TypeInv, TypeOK, InstallInv, Resolved, Trees,
         Hashes
<1>t. ASSUME NEW ini, IniAsWanted(ini, plan, Resolve(plan, lock).core),
             FromTemplate(ini) => TemplatesServed
      PROVE  ini = WantedPhpIni(plan, Resolve(plan, lock).core)
  \* A bare core that got a template would be the only one served, and has none.
  <2>1. plan.iniFile \in IniFiles
    BY <1>0, PlanFields
  <2>2. TemplatesServed <=> HasTemplates(Resolve(plan, lock).core)
    BY DEF TemplatesServed
  <2> QED
    BY <1>t, <2>1, <2>2 DEF IniAsWanted, FromTemplate, Bare
<1>1. CASE at = InBase
  <2>1. /\ ModulesInstalled /\ LoadsExts(base.conf) /\ LoadsOpcache(base.conf)
        /\ ConfOrigin(base.conf)
    BY <1>1 DEF MachineInv, ModulesInv, Installed, OriginInv
  <2>2. LoadedFrom(base.conf) = [n \in Names |-> WantedModule(plan, lock, n)]
    BY <1>0, <2>1, ModulesProvided
  <2>3. Holds(base.bin, base.conf, plan, lock)
    BY <1>1 DEF MachineInv, SetupInv, InstallInv
  <2>4. base.conf.phpIni = WantedPhpIni(plan, Resolve(plan, lock).core)
    BY <1>t, <2>3 DEF Holds, MachineInv, TemplatesInv
  <2> QED
    BY <1>0, <1>1, <2>2, <2>3, <2>4 DEF Provided, Wanted, Tree, Holds
<1>2. CASE at # InBase
  <2> DEFINE e == cache[Hash(plan)]
  <2>1. /\ at = InCache(Hash(plan)) /\ e.complete
        /\ InCache(Hash(plan)).hash = Hash(plan)
    BY <1>0, <1>2 DEF SetupInv, CacheInv, InCache
  <2>2. e.conf \in Confs /\ ConfOrigin(e.conf)
    BY <1>0 DEF Entries, MachineInv, OriginInv
  <2>3. ModulesInstalled /\ LoadsExts(e.conf) /\ LoadsOpcache(e.conf)
    BY <2>1 DEF MachineInv, SingleInv
  <2>4. LoadedFrom(e.conf) = [n \in Names |-> WantedModule(plan, lock, n)]
    BY <1>0, <2>2, <2>3, ModulesProvided
  <2>5. Holds(e.bin, e.conf, plan, lock)
    BY <1>0, <2>1 DEF SetupInv, CacheInv, ServedFrom
  <2>6. e.conf.phpIni = WantedPhpIni(plan, Resolve(plan, lock).core)
    BY <1>0, <1>t, <2>5 DEF Holds, MachineInv, TemplatesInv
  <2> QED
    BY <1>0, <1>2, <2>1, <2>4, <2>5, <2>6 DEF Provided, Wanted, Tree, Holds
<1> QED
  BY <1>1, <1>2

(***************************************************************************)
(* On a machine of one request, whatever was killed or failed on it, a     *)
(* ready run exports the environment its plan and lockfile call for, in    *)
(* all its parts: freshly installed or from the cache, nothing is missing, *)
(* nothing is of another build, and nothing else is loaded.                *)
(***************************************************************************)
THEOREM ReadyAsResolved == Spec => []EnvironmentAsResolved
  BY AsResolved, MachineInvariant, PTL

-----------------------------------------------------------------------------
\* A machine of at most one request: the requests it has served are its own.
OneTenantInv ==
  IsFiniteSet(served) /\ (served # {} => served = {<<plan, lock>>})

LEMMA OneTenantStep ==
  ASSUME MaxTenants = 1
  PROVE  OneTenantInv /\ OriginInv' /\ [Next]_vars => OneTenantInv'
<1> SUFFICES ASSUME OneTenantInv, OriginInv', [Next]_vars PROVE OneTenantInv'
  OBVIOUS
<1> USE DEF OneTenantInv
<1>1. ASSUME NEW r \in Requests, Begin(r[1], r[2]) PROVE OneTenantInv'
  <2> DEFINE x == <<r[1], r[2]>>
  <2>1. served' = served \cup {x} /\ Cardinality(served \cup {x}) <= 1
        /\ plan' = r[1] /\ lock' = r[2]
    BY <1>1 DEF Begin
  <2>2. IsFiniteSet(served') /\ Cardinality(served') <= 1 /\ x \in served'
    BY <2>1, FS_AddElement
  <2>3. served' = {x}
    <3>1. /\ IsFiniteSet(served' \ {x})
          /\ Cardinality(served' \ {x}) = Cardinality(served') - 1
      BY <2>2, FS_RemoveElement
    <3>2. Cardinality(served' \ {x}) \in Nat /\ Cardinality(served') \in Nat
      BY <2>2, <3>1, FS_CardinalityType
    <3>3. served' \ {x} = {}
      BY <2>2, <3>1, <3>2, FS_EmptySet
    <3> QED
      BY <2>2, <3>3
  <2> QED
    BY <2>1, <2>2, <2>3
<1>2. CASE NewMachine
  BY <1>2, FS_EmptySet DEF NewMachine
<1>3. CASE UNCHANGED <<plan, lock, served>>
  BY <1>3
<1> QED
  BY <1>1, <1>2, <1>3
  DEF vars, run, Next, Install, Extract, Abort, ResolvePlan, CheckCache,
      FetchBundles, CheckSchema, ExtractItem, ExtractItemFails, ExtractDone,
      ComposeExtensions, LoadOpcache, SelectBaseIniFile, WriteIniValues,
      ComposeFails, ExportEnv, ExportEnvFails, SeedTree, SeedMarker,
      SeedFails, NewContainer

\* What a run looks like to the workflow: it asks, fails, is answered, or goes
\* on without a word.
LEMMA ContractStep ==
  ASSUME EnvironmentAsResolved', CacheInv', OneTenantInv', ~Containers,
         [Next]_vars
  PROVE  [Contract!Next]_<<IF pc \in Phases THEN "running" ELSE pc,
                           <<plan, lock>>,
                           IF pc = "ready" THEN Provided ELSE Absent>>
<1> USE DEF run, Ended, Phases
<1>1. CASE UNCHANGED vars
  <2>1. Provided' = Provided
    BY <1>1 DEF vars, Provided, LoadedFrom, Tree
  <2> QED
    BY <1>1, <2>1 DEF vars
<1>2. ASSUME NEW r \in Requests, Begin(r[1], r[2]) PROVE Contract!Next
  <2>1. r = <<r[1], r[2]>>
    BY RequestsAssumption
  <2>2. Contract!Ask(r)
    BY <1>2, <2>1 DEF Begin, Contract!Ask
  <2> QED
    BY <2>2 DEF Contract!Next
<1>3. CASE NewMachine
  BY <1>3 DEF NewMachine, Contract!Next, Contract!Discard
<1>4. CASE pc \in Phases /\ pc' = "failed" /\ UNCHANGED <<plan, lock>>
  BY <1>4 DEF Contract!Next, Contract!Fail
<1>5. CASE pc \in Phases /\ pc' = "ready" /\ UNCHANGED <<plan, lock>>
  <2>1. served' = {<<plan', lock'>>}
    BY <1>5 DEF CacheInv, OneTenantInv
  <2>2. Provided' = Wanted(plan, lock)'
    BY <1>5, <2>1 DEF EnvironmentAsResolved
  <2> QED
    BY <1>5, <2>2 DEF Contract!Next, Contract!Deliver
<1>6. CASE pc \in Phases /\ pc' \in Phases /\ UNCHANGED <<plan, lock>>
  BY <1>6
<1>7. ASSUME Next, ~NewMachine, \A r \in Requests : ~Begin(r[1], r[2])
      PROVE  /\ pc \in Phases /\ UNCHANGED <<plan, lock>>
             /\ pc' \in Phases \cup {"ready", "failed"}
  <2>1. ASSUME Extract
        PROVE  /\ pc = "extract" /\ UNCHANGED <<plan, lock>>
               /\ pc' \in {"extract", "compose", "failed"}
    BY <2>1 DEF Extract, ExtractItem, ExtractItemFails, ExtractDone
  <2> QED
    BY <1>7, <2>1
    DEF Next, Install, Abort, ResolvePlan, CheckCache, FetchBundles,
        CheckSchema, ComposeExtensions, LoadOpcache, SelectBaseIniFile,
        WriteIniValues, ComposeFails, ExportEnv, ExportEnvFails, SeedTree,
        SeedMarker, SeedFails, NewContainer
<1> QED
  BY <1>1, <1>2, <1>3, <1>4, <1>5, <1>6, <1>7

(***************************************************************************)
(* The setup implements its contract: on a machine of one request every    *)
(* run is answered by exactly the environment promised, or by a failure,   *)
(* and what was delivered does not change under the workflow.              *)
(***************************************************************************)
THEOREM ContractKept ==
  ASSUME MaxTenants = 1, ~Containers
  PROVE  Spec => KeepsContract
<1>1. Init => Contract!Init
  <2> SUFFICES ASSUME Init PROVE Contract!Init
    OBVIOUS
  <2>1. pc = "idle" /\ <<plan, lock>> \in Requests
    <3>1. PICK r \in Requests : plan = r[1] /\ lock = r[2]
      BY DEF Init
    <3> QED
      BY <3>1, RequestsAssumption DEF Init
  <2> QED
    BY <2>1 DEF Contract!Init, Phases
<1>2. Init => OneTenantInv
  BY FS_EmptySet DEF Init, OneTenantInv
<1>3. Spec => []OneTenantInv
  <2>1. OneTenantInv /\ MachineInv' /\ [Next]_vars => OneTenantInv'
    BY OneTenantStep DEF MachineInv
  <2> QED
    BY <1>2, <2>1, MachineInvariant, PTL DEF Spec
<1>4. MachineInv' /\ OneTenantInv' /\ [Next]_vars =>
        [Contract!Next]_<<IF pc \in Phases THEN "running" ELSE pc,
                          <<plan, lock>>,
                          IF pc = "ready" THEN Provided ELSE Absent>>
  <2>1. MachineInv' => EnvironmentAsResolved' /\ CacheInv'
    <3>1. MachineInv => EnvironmentAsResolved /\ CacheInv
      BY AsResolved DEF MachineInv, SetupInv
    <3> QED
      BY <3>1, PTL
  <2> QED
    BY <2>1, ContractStep
<1> QED
  BY <1>1, <1>3, <1>4, MachineInvariant, PTL
  DEF Spec, KeepsContract, Contract!Spec
=============================================================================

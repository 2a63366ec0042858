--------------------------- MODULE MCPhpupSetup ---------------------------
(***************************************************************************)
(* Small instances of PhpupSetup for TLC.                                  *)
(***************************************************************************)
EXTENDS PhpupSetup, TLC

\* 8.3 and 8.4 have a shared opcache, 8.5 a static one.
MCVersions      == {83, 84, 85}
MCSharedOpcache == {83, 84}
MCNames         == {"opcache", "xdebug", "pcov", "redis", "curl"}
MCBundled       == [v \in MCVersions |-> {"opcache", "curl"}]
MCCatalog       == {"xdebug", "pcov", "redis"}
MCIniValues     == {"default", "memory"}

\* Digests: four builds of a core, two of redis.  core0 is older than the
\* templates and than the kind in the sidecar, core00 has a sidecar that names
\* its kind, the other two have the templates.
MCDigests   == {"core0", "core00", "core1", "core2", "redis1", "redis2", "xdebug1"}
MCTemplated == {"core1", "core2"}
MCMeta ==
  [d \in MCDigests |->
     CASE d = "core0"   -> [kind |-> "", schema |-> 1]
       [] d = "core00"  -> [kind |-> "php-core", schema |-> 1]
       [] d = "core1"   -> [kind |-> "php-core", schema |-> 2]
       [] d = "core2"   -> [kind |-> "php-core", schema |-> 3]
       [] OTHER         -> [kind |-> "php-ext", schema |-> 1]]

\* A lockfile for the given versions: these digests, on the NTS build only.
LockOf(vs, core, redis) ==
  [k \in {PHPBundleKey(v, "nts") : v \in vs} \cup
         {ExtBundleKey(e, v, "nts") : e \in {"redis", "xdebug"}, v \in vs} |->
     CASE k.kind = "php"      -> core
       [] k.name = "redis"    -> redis
       [] k.name = "xdebug"   -> "xdebug1"]

\* The same with thread-safe builds as well.
LockZts(core, redis) ==
  LockOf({84}, core, redis) @@
  [k \in {PHPBundleKey(84, "zts"), ExtBundleKey("redis", 84, "zts")} |->
     IF k.kind = "php" THEN core ELSE redis]

Request(v, ext, excl) ==
  ApplyCoverage([php |-> v, ts |-> "nts", coverage |-> "none", ext |-> ext,
                 excl |-> excl, reset |-> FALSE, iniFile |-> "production",
                 ini |-> "default", failFast |-> FALSE, tools |-> FALSE])

Covered(p, c) == ApplyCoverage([p EXCEPT !.coverage = c,
                                         !.excl = @ \ {"xdebug", "pcov"}])

Plain    == Request(84, {}, {})
Memory   == [Plain EXCEPT !.ini = "memory"]
Plain85  == Request(85, {}, {"curl"})
Redis    == Request(84, {"redis"}, {})
NoRedis  == Request(84, {}, {"redis"})
Redis85  == Request(85, {"redis"}, {"curl"})
Xdebug   == Covered(Redis, "xdebug")
Zts      == [Redis EXCEPT !.ts = "zts"]
Reset    == [Redis EXCEPT !.reset = TRUE, !.iniFile = "none"]
Unknown  == Request(84, {"pcov"}, {})
Tools    == [Plain EXCEPT !.tools = TRUE, !.failFast = TRUE]

First  == LockOf({83, 84, 85}, "core1", "redis1")
Second == LockOf({84, 85}, "core2", "redis2")
Oldest == LockOf({84}, "core0", "redis1")
Legacy == LockOf({84}, "core00", "redis1")
Both   == LockZts("core2", "redis2")

\* Every machine serves one of these requests.
OneRequests ==
  {Redis, Xdebug, Redis85, Reset, Zts, Unknown, Tools} \X {First, Oldest, Legacy, Both}

\* Machines, and containers on them, that serve any two of these: plans that
\* differ in an ini value, in version or in extensions, and four action
\* versions with the same plan, two of them older than the templates.
SharedRequests ==
  ({Plain, Memory, Plain85} \X {First}) \cup ({Redis} \X {First, Second})
    \cup ({Plain} \X {Legacy, Oldest})

\* The pair behind the finding.
RedisAndNot == {Redis, NoRedis} \X {First}
=============================================================================

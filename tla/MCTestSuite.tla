---------------------------- MODULE MCTestSuite ----------------------------
(* Fixtures of the kinds of fixtures.yaml; a core and an extension that are   *)
(* built again while two calls run.                                           *)
EXTENDS TestSuite, TLC

CONSTANTS t1, t2

MCTesters == {t1, t2}
TesterSymmetry == Permutations(MCTesters)

MCVersions == {83, 84}
MCNames == {"opcache", "xdebug", "pcov", "redis", "curl"}
MCBundled == [v \in MCVersions |-> {"opcache", "curl"}]
MCCatalog == {"xdebug", "pcov", "redis"}
MCIniValues == {"default", "memory"}
MCDigests == 1 .. 8

Fixture(name, v, tokens) ==
  [name |-> name, php |-> v, arch |-> Unset, os |-> Unset, tokens |-> tokens,
   iniFile |-> Unset, ini |-> "default", coverage |-> "none"]

MCFixtures ==
  <<Fixture("bare", 84, <<>>),
    Fixture("exclusion", 84, <<Exclude("opcache")>>),
    [Fixture("ini-and-coverage", 84, <<>>) EXCEPT !.iniFile = "development", !.ini = "memory",
                                           !.coverage = "xdebug"],
    Fixture("none-reset", 84, <<None, Include("redis")>>),
    [Fixture("bare-arm64", 84, <<>>) EXCEPT !.arch = "aarch64"],
    [Fixture("bare-jammy", 84, <<>>) EXCEPT !.os = "ubuntu-22.04"],
    Fixture("redis-83", 83, <<Include("redis")>>),
    Fixture("no-redis-83", 83, <<Exclude("redis")>>)>>

\* A file of one's own, for a machine the repository's file has nothing for as
\* well.
MCOwnFixtures ==
  <<Fixture("mine", 83, <<>>), [Fixture("mine-arm64", 83, <<>>) EXCEPT !.arch = "aarch64"]>>

Call(os, arch, php) == [os |-> os, arch |-> arch, php |-> php, fixtures |-> MCFixtures]
MCRequests ==
  {Call(<<"ubuntu-22.04", "jammy">>, <<"amd64">>, <<84>>),
   Call(<<"noble">>, <<"x86_64", "arm64">>, <<84>>),
   Call(<<"noble", "focal">>, <<"riscv64", "x86_64">>, <<83>>),
   [Call(<<"noble">>, <<"x86_64", "arm64">>, <<83>>) EXCEPT !.fixtures = MCOwnFixtures]}

Image(k, arch, d) == [name |-> k.name, key |-> <<k, arch>>, spec |-> d, digest |-> d]
Core(v, arch, d) == Image(PHPBundleKey(v, "nts"), arch, d)
Ext(n, v, d) == Image(ExtBundleKey(n, v, "nts"), "x86_64", d)

MCFirstImages ==
  <<Core(84, "x86_64", 1), Ext("redis", 84, 2), Ext("xdebug", 84, 3),
    Core(84, "aarch64", 4), Core(83, "x86_64", 5), Ext("redis", 83, 6)>>
MCBuilds == {Core(84, "x86_64", 7), Ext("redis", 84, 8)}
=============================================================================

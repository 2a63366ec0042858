----------------------------- MODULE MCBuildCell -----------------------------
(* Work directories for BuildCell: one PHP version, one or two extensions, and *)
(* a tree that changes the core, or a file every build depends on.             *)
EXTENDS BuildCell, TLC

CONSTANTS b1, b2

Os == {"linux"}
Arch == {"x86_64"}
Nts == {"nts"}

Php(flags) == "8.4" :> [sources |-> TRUE, os |-> Os, arch |-> Arch, ts |-> Nts,
                        flags |-> flags]

Extension(kind, versions) ==
    [kind |-> kind, versions |-> versions, php |-> {"8.4"}, os |-> Os, arch |-> Arch,
     ts |-> Nts, exclude |-> {}]

OneExt == "redis" :> Extension("pecl", <<"6.3.0">>) @@ "intl" :> Extension("bundled", <<>>)

Files(pack) == "build-php.sh" :> 1 @@ "build-ext.sh" :> 1 @@ "bundle-schema-version.env" :> 1
               @@ "capture-hermetic-libs.sh" :> 1 @@ "pack-bundle.sh" :> pack

TreeOf(flags, pack) ==
    [catalog |-> [php |-> Php(flags), ext |-> OneExt], files |-> Files(pack),
     builderOS |-> "ubuntu-22.04"]

MCTrees == <<TreeOf(1, 1), TreeOf(2, 2)>>
MCTreesBack == <<TreeOf(1, 1), TreeOf(1, 2), TreeOf(1, 1)>>
MCCells == {PhpCell("8.4", "linux", "x86_64", "nts")}
MCBuilders == {b1, b2}
BuilderSymmetry == Permutations(MCBuilders)
=============================================================================

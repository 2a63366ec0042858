----------------------------- MODULE MCPublish -----------------------------
(* One PHP version and one extension, built by two jobs whose runners differ; *)
(* the second tree changes what both bundles depend on, the third takes the   *)
(* core back and changes the extension again.                                 *)
EXTENDS GcBundles, TLC

CONSTANTS r1, r2

Os == {"linux"}
Arch == {"x86_64"}
Nts == {"nts"}

TreeOf(flags, pack) ==
    [catalog |->
       [php |-> "8.4" :> [sources |-> TRUE, os |-> Os, arch |-> Arch, ts |-> Nts,
                          flags |-> flags],
        ext |-> "redis" :> [kind |-> "pecl", versions |-> <<"6.3.0">>, php |-> {"8.4"},
                            os |-> Os, arch |-> Arch, ts |-> Nts, exclude |-> {}]],
     files |-> "build-php.sh" :> 1 @@ "build-ext.sh" :> 1 @@ "bundle-schema-version.env" :> 1
               @@ "capture-hermetic-libs.sh" :> 1 @@ "pack-bundle.sh" :> pack,
     builderOS |-> "ubuntu-22.04"]

MCTrees == <<TreeOf(1, 1), TreeOf(2, 1), [TreeOf(1, 1) EXCEPT !.files["build-ext.sh"] = 2]>>
MCJobs == <<[os |-> "jammy", core |-> PhpCell("8.4", "linux", "x86_64", "nts")],
            [os |-> "noble", core |-> PhpCell("8.4", "linux", "x86_64", "nts")]>>
MCOneJob == <<MCJobs[1]>>
MCRunnerOS == "jammy" :> "ubuntu-22.04" @@ "noble" :> "ubuntu-24.04"
MCRuns == {r1, r2}
RunSymmetry == Permutations(MCRuns)

\* A merge that leaves builders and catalog as they were counts as a mishap, and so
\* does a sweep from a clone that lacks something.
IdleMerges == Cardinality({i \in 2 .. Len(main) : main[i] = main[i - 1]})
BadSweeps == IF swept.stale THEN 1 ELSE 0
FewMishaps == past.faults + past.evicted + IdleMerges + BadSweeps <= MaxMishaps
=============================================================================

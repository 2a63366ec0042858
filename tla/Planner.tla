------------------------------ MODULE Planner ------------------------------
(***************************************************************************)
(* What is to be built, and under which names and hashes: the catalog, the *)
(* matrices the planner expands it to (planner/planner.go), the extensions *)
(* `phpup build cell` discovers for one cell (build/cell.go), the spec     *)
(* hashes of the two and of `phpup lockfile-update`, and the keys and tags *)
(* a bundle is found by.  Names are model values or strings; a joined name *)
(* is the tuple of its parts, a hash the record of what it is taken of.    *)
(*                                                                         *)
(* A catalog is a record                                                   *)
(*   php: version -> [sources, os, arch, ts]                               *)
(*   ext: name -> [kind, versions, php, os, arch, ts, exclude]             *)
(* and a source tree a record [catalog, files, builderOS], where `files`   *)
(* gives every builder file its content.                                   *)
(***************************************************************************)
EXTENDS Naturals, Sequences, FiniteSets

\* An exclude rule with this value in a field matches whatever is there.
Whatever == ""

NoValue == ""

----------------------------------------------------------------------------
(* The matrices. *)

PhpCell(v, o, a, ts) ==
    [extension |-> NoValue, version |-> v, php |-> NoValue, os |-> o, arch |-> a, ts |-> ts]

ExtCell(name, v, php, o, a, ts) ==
    [extension |-> name, version |-> v, php |-> php, os |-> o, arch |-> a, ts |-> ts]

IsExt(cell) == cell.extension # NoValue

\* Versions without sources only say what is compatible.
BuildTargets(catalog) == {v \in DOMAIN catalog.php : catalog.php[v].sources}

ExpandPHPMatrix(catalog) ==
    UNION {{PhpCell(v, o, a, ts) : o \in catalog.php[v].os,
                                   a \in catalog.php[v].arch,
                                   ts \in catalog.php[v].ts} :
           v \in BuildTargets(catalog)}

ExcludeMatches(rule, o, a, php) ==
    rule.os \in {Whatever, o} /\ rule.arch \in {Whatever, a} /\ rule.php \in {Whatever, php}

ExpandExtMatrix(name, spec) ==
    IF spec.kind = "bundled" THEN {}
    ELSE {c \in {ExtCell(name, spec.versions[i], php, o, a, ts) :
                    i \in DOMAIN spec.versions, php \in spec.php,
                    o \in spec.os, a \in spec.arch, ts \in spec.ts} :
            \A rule \in spec.exclude : ~ExcludeMatches(rule, c.os, c.arch, c.php)}

AllCells(catalog) ==
    ExpandPHPMatrix(catalog)
        \union UNION {ExpandExtMatrix(n, catalog.ext[n]) : n \in DOMAIN catalog.ext}

\* What validation makes sure of: extensions have names, and the versions of one
\* are a list.
IsCatalog(catalog) ==
    LET ext == catalog.ext IN
    /\ IsFiniteSet(DOMAIN ext) /\ NoValue \notin DOMAIN ext
    /\ \A n \in DOMAIN ext : ext[n].versions = <<>> \/ 1 \in DOMAIN ext[n].versions

----------------------------------------------------------------------------
(* What `phpup build cell` builds beside the core. *)

ExtensionSupportsCell(spec, php, o, a, ts) ==
    /\ spec.kind # "bundled"
    /\ php \in spec.php
    /\ o \in spec.os
    /\ a \in spec.arch
    /\ ts \in spec.ts
    /\ \A rule \in spec.exclude : ~ExcludeMatches(rule, o, a, php)

DiscoverExtensionsForCell(catalog, php, o, a, ts) ==
    {ExtCell(n, catalog.ext[n].versions[1], php, o, a, ts) :
        n \in {m \in DOMAIN catalog.ext :
                 /\ ExtensionSupportsCell(catalog.ext[m], php, o, a, ts)
                 /\ catalog.ext[m].versions # <<>>}}

Elements(s) == {s[i] : i \in DOMAIN s}

\* A set in a fixed order.
InOrder(S) == CHOOSE s \in [1..Cardinality(S) -> S] : Elements(s) = S

\* The sub-builds of a cell: its core, then its extensions.
ItemsOf(core, catalog) ==
    <<core>> \o InOrder(DiscoverExtensionsForCell(catalog, core.version, core.os,
                                                  core.arch, core.ts))

----------------------------------------------------------------------------
(* Spec hashes. *)

BuilderScript(cell) == IF IsExt(cell) THEN "build-ext.sh" ELSE "build-php.sh"

\* The files whose content the planner and `phpup build` hash.
BuilderFilesFor(cell) ==
    {BuilderScript(cell), "bundle-schema-version.env",
     "capture-hermetic-libs.sh", "pack-bundle.sh"}

\* The files whose content `phpup lockfile-update` hashes.
LockBuilderFilesFor(cell) == {BuilderScript(cell), "bundle-schema-version.env"}

\* The part of the catalog that is marshalled for the cell: one version of PHP,
\* or the whole extension.
CatalogOf(cell, tree) ==
    IF IsExt(cell) THEN tree.catalog.ext[cell.extension] ELSE tree.catalog.php[cell.version]

\* An extension's own version is hashed only as part of its catalog entry.
HashOver(cell, tree, files) ==
    [catalog |-> CatalogOf(cell, tree),
     files   |-> [f \in files |-> tree.files[f]],
     os      |-> tree.builderOS,
     cell    |-> IF IsExt(cell) THEN [cell EXCEPT !.version = NoValue] ELSE cell]

ComputeSpecHash(cell, tree) == HashOver(cell, tree, BuilderFilesFor(cell))

LockSpecHash(cell, tree) == HashOver(cell, tree, LockBuilderFilesFor(cell))

----------------------------------------------------------------------------
(* Keys and tags. *)

BundleKey(cell) ==
    IF IsExt(cell)
    THEN <<"ext", cell.extension, cell.version, cell.php, cell.os, cell.arch, cell.ts>>
    ELSE <<"php", cell.version, cell.os, cell.arch, cell.ts>>

\* The image a bundle is stored under: php-core, or php-ext-<name>.
ImageName(cell) == IF IsExt(cell) THEN <<"php-ext", cell.extension>> ELSE <<"php-core">>

\* The tag `phpup push` derives from a key.
CanonicalRefFromBundleKey(k) ==
    IF k[1] = "php" THEN <<<<"php-core">>, <<k[2], k[3], k[4], k[5]>>>>
    ELSE <<<<"php-ext", k[2]>>, <<k[3], k[4], k[7], k[5], k[6]>>>>

\* The tag `phpup lockfile-update` and the planner ask the registry for.
TagOf(cell) ==
    <<ImageName(cell),
      IF IsExt(cell) THEN <<cell.version, cell.php, cell.ts, cell.os, cell.arch>>
      ELSE <<cell.version, cell.os, cell.arch, cell.ts>>>>

=============================================================================

---------------------------- MODULE BundleLayout ----------------------------
(***************************************************************************)
(* The OCI image layout that phpup keeps bundles in (registry/layout.go)   *)
(* and the lockfile synthesized from one (layoutlockfile).  A layout is    *)
(* the sequence of the manifests of its index.json, each the record        *)
(*   [name, key, spec, digest]                                             *)
(* of its annotations and digest.  An absent layout reads as an empty one: *)
(* every operation here treats the two alike.                              *)
(***************************************************************************)
EXTENDS Integers, Sequences, FiniteSets

\* The name and key of a manifest that carries no such annotation.
NoName == <<>>
NoKey == <<>>

\* The digest of a request that names none, and of a lookup that misses.
NoDigest == 0

FirstOf(S) == CHOOSE i \in S : \A j \in S : i <= j
LastOf(S) == CHOOSE i \in S : \A j \in S : j <= i

\* Mutant: the last of the index is replaced when it has the key.
AppendImageReplacing(index, m) ==
    IF index # <<>> /\ index[Len(index)].key = m.key
    THEN [index EXCEPT ![Len(index)] = m] ELSE Append(index, m)

\* Push adds a descriptor at the end, whatever the index holds already.  The file
\* is written in place: BuildCell has the writer that is killed in the middle.
AppendImage(index, m) == Append(index, m)

\* Mutant: only the last manifest is looked at.
LookupBySpecLast(index, name, spec) ==
    IF index # <<>> /\ index[Len(index)].name = name /\ index[Len(index)].spec = spec
    THEN index[Len(index)].digest ELSE NoDigest

\* The first manifest of that name and spec hash.
LookupBySpec(index, name, spec) ==
    LET hits == {i \in DOMAIN index : index[i].name = name /\ index[i].spec = spec}
    IN  IF hits = {} THEN NoDigest ELSE index[FirstOf(hits)].digest

\* A manifest with another bundle's name is never taken for this one; one
\* without any name is.
Has(index, name, digest) ==
    /\ digest # NoDigest
    /\ \E i \in DOMAIN index :
          index[i].digest = digest /\ index[i].name \in {name, NoName}

Named(index, name, digest) ==
    {i \in DOMAIN index : index[i].name = name /\ digest \in {NoDigest, index[i].digest}}

Unnamed(index, digest) ==
    {i \in DOMAIN index : index[i].name = NoName /\ index[i].digest = digest
                          /\ digest # NoDigest}

\* The digest whose content is returned, NoDigest if there is none.
Fetch(index, name, digest) ==
    CASE Named(index, name, digest) # {} -> index[FirstOf(Named(index, name, digest))].digest
      [] Named(index, name, digest) = {} /\ Unnamed(index, digest) # {} -> digest
      [] OTHER -> NoDigest

\* The members of a sequence at some of its places, in its order.
Nth(S, n) == CHOOSE i \in S : Cardinality({j \in S : j <= i}) = n
At(s, S) == [n \in 1..Cardinality(S) |-> s[Nth(S, n)]]

\* Manifests without a key are left out.
ListKeyed(index) == At(index, {i \in DOMAIN index : index[i].key # NoKey})

KeysOf(index) == {index[i].key : i \in DOMAIN index} \ {NoKey}

PlacesOf(index, k) == {i \in DOMAIN index : index[i].key = k}

\* Mutant: the first manifest of a key stays.
SynthesizedLockfileFirst(index) ==
    LET first(k) == index[FirstOf(PlacesOf(index, k))]
    IN  [k \in KeysOf(index) |-> [digest |-> first(k).digest, spec |-> first(k).spec]]

\* Later manifests of a key replace earlier ones.
SynthesizedLockfile(index) ==
    LET last(k) == index[LastOf(PlacesOf(index, k))]
    IN  [k \in KeysOf(index) |-> [digest |-> last(k).digest, spec |-> last(k).spec]]
=============================================================================

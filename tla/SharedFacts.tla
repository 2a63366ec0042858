---------------------------- MODULE SharedFacts ----------------------------
(***************************************************************************)
(* Facts about what the specifications share: sequences that only grow at  *)
(* their end, as the commits of main and the bundles that were made do;    *)
(* the lookups of a layout, which go by the first and the last of the      *)
(* places in its index; the planner's cells, keys, tags and hashes, for    *)
(* every catalog that validation lets pass.  What is a theorem here holds  *)
(* between packages that compute the same thing each in its own way.       *)
(***************************************************************************)
EXTENDS Planner, BundleLayout, SequenceTheorems, FiniteSetTheorems, WellFoundedInduction, TLAPS

\* What is added comes at the end; what was there before stays.
LEMMA Appended ==
  ASSUME NEW S, NEW s \in Seq(S), NEW x
  PROVE  /\ Append(s, x) \in Seq(S \union {x})
         /\ Append(s, x) # <<>>
         /\ Len(Append(s, x)) = Len(s) + 1
         /\ DOMAIN Append(s, x) = 1..(Len(s) + 1)
         /\ \A i \in DOMAIN s : Append(s, x)[i] = s[i]
         /\ Append(s, x)[Len(s) + 1] = x
<1>1. s \in Seq(S \union {x})
  OBVIOUS
<1>2. Append(s, x) \in Seq(S \union {x}) /\ Len(Append(s, x)) = Len(s) + 1
  BY <1>1
<1>3. DOMAIN Append(s, x) = 1..(Len(s) + 1) /\ DOMAIN s = 1..Len(s) /\ Len(s) \in Nat
  BY <1>1, <1>2
<1>4. \A i \in DOMAIN s : Append(s, x)[i] = s[i]
  BY <1>1, <1>3
<1>5. Append(s, x)[Len(s) + 1] = x
  BY <1>1
<1>6. Append(s, x) # <<>>
  <2>1. Len(s) + 1 # 0
    BY <1>3
  <2> QED
    BY <2>1, <1>2, Len(<<>>) = 0
<1> QED
  BY <1>2, <1>3, <1>4, <1>5, <1>6

\* The whole of a sequence is the sequence.
LEMMA WholeSeq ==
  ASSUME NEW S, NEW s \in Seq(S)
  PROVE  SubSeq(s, 1, Len(s)) = s
  OBVIOUS

\* Cutting off what was added gives what was there before.
LEMMA PrefixOfAppend ==
  ASSUME NEW S, NEW s \in Seq(S), NEW x
  PROVE  SubSeq(Append(s, x), 1, Len(s)) = s
<1>1. Append(s, x) \in Seq(S \union {x}) /\ Len(Append(s, x)) = Len(s) + 1
  BY Appended
<1>2. \A i \in 1..Len(s) : Append(s, x)[i] = s[i]
  OBVIOUS
<1> QED
  BY <1>1, <1>2

\* What is left of a sequence of several elements is not empty.
LEMMA TailLeft ==
  ASSUME NEW S, NEW s \in Seq(S), s # <<>>, Len(s) # 1
  PROVE  Tail(s) \in Seq(S) /\ Tail(s) # <<>>
<1>1. Len(s) # 0
  BY EmptySeq
<1>2. Tail(s) \in Seq(S) /\ Len(Tail(s)) = Len(s) - 1
  BY <1>1
<1>3. Len(Tail(s)) # 0
  BY <1>1, <1>2
<1> QED
  BY <1>2, <1>3, EmptySeq

\* Indices have a first one.
LEMMA SmallestIndex ==
  ASSUME NEW N \in SUBSET Nat, N # {}
  PROVE  \E i \in N : \A j \in N : i <= j
<1> DEFINE Less == {p \in Nat \X Nat : p[1] < p[2]}
<1>1. IsWellFoundedOn(Less, Nat)
  BY NatLessThanWellFounded DEF OpToRel
<1>2. PICK i \in N : \A j \in N : <<j, i>> \notin Less
  BY <1>1, WFMin
<1>3. \A j \in N : ~(j < i)
  BY <1>2
<1> QED
  BY <1>2, <1>3

\* Indices of a sequence have a last one.
LEMMA LargestIndex ==
  ASSUME NEW L \in Nat, NEW N \in SUBSET (1..L), N # {}
  PROVE  \E i \in N : \A j \in N : j <= i
<1> DEFINE M == {n \in Nat : L - n \in N}
<1>1. M # {}
  <2>1. PICK i \in N : TRUE
    OBVIOUS
  <2>2. L - i \in Nat /\ L - (L - i) = i
    BY <2>1
  <2> QED
    BY <2>1, <2>2
<1>2. PICK m \in M : \A n \in M : m <= n
  <2>1. M \in SUBSET Nat
    OBVIOUS
  <2> HIDE DEF M
  <2> QED
    BY <1>1, <2>1, SmallestIndex
<1>3. \A j \in N : L - j \in M
  OBVIOUS
<1>4. m \in Nat /\ L - m \in N
  OBVIOUS
<1>5. ASSUME NEW j \in N PROVE j <= L - m
  <2>1. m <= L - j /\ j \in Nat
    BY <1>2, <1>3
  <2> QED
    BY <1>4, <2>1
<1> QED
  BY <1>4, <1>5

\* The tail of a sequence is the sequence from its second place on.
LEMMA TailPlaces ==
  ASSUME NEW S, NEW s \in Seq(S), s # <<>>
  PROVE  /\ 1 \in DOMAIN s /\ s[1] \in S
         /\ Tail(s) \in Seq(S)
         /\ Len(s) \in Nat /\ Len(Tail(s)) = Len(s) - 1
         /\ Len(s) > 1 => Tail(s) # <<>>
         /\ ~(Len(s) > 1) => Tail(s) = <<>> /\ DOMAIN s = {1}
         /\ \A i \in DOMAIN Tail(s) : i + 1 \in DOMAIN s /\ Tail(s)[i] = s[i + 1]
         /\ \A i \in DOMAIN s : i = 1 \/ (i - 1 \in DOMAIN Tail(s) /\ Tail(s)[i - 1] = s[i])
<1>1. Len(s) \in Nat /\ Len(s) # 0 /\ DOMAIN s = 1..Len(s)
  BY EmptySeq
<1>2. /\ Tail(s) \in Seq(S) /\ Len(Tail(s)) = Len(s) - 1
      /\ DOMAIN Tail(s) = 1..(Len(s) - 1)
      /\ \A i \in 1..(Len(s) - 1) : Tail(s)[i] = s[i + 1]
  BY <1>1
<1>3. 1 \in DOMAIN s /\ s[1] \in S
  BY <1>1
<1>4. Len(s) > 1 => Tail(s) # <<>>
  <2>1. Len(s) > 1 => Len(Tail(s)) # 0
    BY <1>1, <1>2
  <2> QED
    BY <1>2, <2>1, EmptySeq
<1>5. ~(Len(s) > 1) => Tail(s) = <<>> /\ DOMAIN s = {1}
  <2>1. ~(Len(s) > 1) => Len(s) = 1
    BY <1>1
  <2>2. ~(Len(s) > 1) => Len(Tail(s)) = 0 /\ DOMAIN s = {1}
    BY <1>1, <1>2, <2>1
  <2> QED
    BY <1>2, <2>2, EmptySeq
<1>6. \A i \in DOMAIN Tail(s) : i + 1 \in DOMAIN s /\ Tail(s)[i] = s[i + 1]
  BY <1>1, <1>2
<1>7. ASSUME NEW i \in DOMAIN s
      PROVE  i = 1 \/ (i - 1 \in DOMAIN Tail(s) /\ Tail(s)[i - 1] = s[i])
  <2>1. i \in 1..Len(s)
    BY <1>1
  <2>2. i = 1 \/ (i - 1 \in 1..(Len(s) - 1) /\ (i - 1) + 1 = i)
    BY <1>1, <2>1
  <2> QED
    BY <1>2, <2>2
<1> QED
  BY <1>1, <1>2, <1>3, <1>4, <1>5, <1>6, <1>7

\* Two sequences one after the other.
LEMMA Concatenated ==
  ASSUME NEW S, NEW s \in Seq(S), NEW T, NEW t \in Seq(T)
  PROVE  /\ s \o t \in Seq(S \union T)
         /\ Len(s) \in Nat /\ Len(t) \in Nat
         /\ DOMAIN s = 1..Len(s) /\ DOMAIN t = 1..Len(t)
         /\ DOMAIN (s \o t) = 1..(Len(s) + Len(t))
         /\ \A i \in DOMAIN s : i \in DOMAIN (s \o t) /\ (s \o t)[i] = s[i]
         /\ \A i \in DOMAIN t : Len(s) + i \in DOMAIN (s \o t) /\ (s \o t)[Len(s) + i] = t[i]
         /\ \A i \in DOMAIN (s \o t) :
               \/ i \in DOMAIN s
               \/ \E k \in DOMAIN t : i = Len(s) + k
<1>1. s \in Seq(S \union T) /\ t \in Seq(S \union T)
  OBVIOUS
<1>2. /\ s \o t \in Seq(S \union T)
      /\ Len(s) \in Nat /\ Len(t) \in Nat
      /\ DOMAIN s = 1..Len(s) /\ DOMAIN t = 1..Len(t)
      /\ DOMAIN (s \o t) = 1..(Len(s) + Len(t))
      /\ \A i \in 1..Len(s) : (s \o t)[i] = s[i]
      /\ \A i \in 1..Len(t) : (s \o t)[Len(s) + i] = t[i]
  BY <1>1
<1>3. ASSUME NEW m \in Nat, NEW n \in Nat, NEW i \in 1..(m + n)
      PROVE  i \in 1..m \/ \E k \in 1..n : i = m + k
  <2>1. CASE i <= m
    BY <2>1
  <2>2. CASE ~(i <= m)
    <3>1. i - m \in 1..n /\ i = m + (i - m)
      BY <2>2
    <3> QED
      BY <3>1
  <2> QED
    BY <2>1, <2>2
<1>4. \A i \in 1..Len(s) : i \in 1..(Len(s) + Len(t))
  BY <1>2
<1>5. \A i \in 1..Len(t) : Len(s) + i \in 1..(Len(s) + Len(t))
  BY <1>2
<1>6. \A i \in 1..(Len(s) + Len(t)) : i \in 1..Len(s) \/ \E k \in 1..Len(t) : i = Len(s) + k
  BY <1>2, <1>3
<1> QED
  BY <1>2, <1>4, <1>5, <1>6

-----------------------------------------------------------------------------
(* Layouts. *)

\* The lookup finds a manifest with the name and the spec hash if there is one.
LEMMA LookupFinds ==
  ASSUME NEW index, \E S : index \in Seq(S), NEW name, NEW spec
  PROVE  LET hits == {i \in DOMAIN index : index[i].name = name /\ index[i].spec = spec}
             found == LookupBySpec(index, name, spec)
         IN  IF hits = {} THEN found = NoDigest ELSE \E i \in hits : found = index[i].digest
<1> DEFINE hits == {i \in DOMAIN index : index[i].name = name /\ index[i].spec = spec}
           found == LookupBySpec(index, name, spec)
<1>1. CASE hits = {}
  BY <1>1 DEF LookupBySpec
<1>2. CASE hits # {}
  <2>1. hits \in SUBSET Nat
    OBVIOUS
  <2>2. \E i \in hits : \A j \in hits : i <= j
    <3> HIDE DEF hits
    <3> QED
      BY <1>2, <2>1, SmallestIndex
  <2>3. FirstOf(hits) \in hits
    BY <2>2 DEF FirstOf
  <2>4. found = index[FirstOf(hits)].digest
    BY <1>2 DEF LookupBySpec
  <2> QED
    BY <1>2, <2>3, <2>4
<1> QED
  BY <1>1, <1>2

\* What is pushed under another name leaves a lookup as it was.
LEMMA LookupOfPush ==
  ASSUME NEW S, NEW index \in Seq(S), NEW m, NEW name, NEW spec, m.name # name
  PROVE  LookupBySpec(Append(index, m), name, spec) = LookupBySpec(index, name, spec)
<1> DEFINE hits(l) == {i \in DOMAIN l : l[i].name = name /\ l[i].spec = spec}
           more == Append(index, m)
           n == Len(index) + 1
<1>1. /\ DOMAIN more = 1..n /\ more[n] = m
      /\ \A i \in DOMAIN index : more[i] = index[i]
      /\ DOMAIN index = 1..Len(index) /\ Len(index) \in Nat
  BY Appended
<1> HIDE DEF more
<1>2. DOMAIN more = DOMAIN index \union {n}
  BY <1>1
<1>3. hits(more) = hits(index)
  BY <1>1, <1>2
<1>4. CASE hits(index) = {}
  BY <1>3, <1>4 DEF LookupBySpec, more
<1>5. CASE hits(index) # {}
  <2>1. hits(index) \in SUBSET Nat
    OBVIOUS
  <2>2. \E i \in hits(index) : \A j \in hits(index) : i <= j
    <3> HIDE DEF hits
    <3> QED
      BY <1>5, <2>1, SmallestIndex
  <2>3. FirstOf(hits(index)) \in hits(index)
    BY <2>2 DEF FirstOf
  <2>4. more[FirstOf(hits(index))] = index[FirstOf(hits(index))]
    BY <1>1, <2>3
  <2>5. /\ LookupBySpec(index, name, spec) = index[FirstOf(hits(index))].digest
        /\ LookupBySpec(more, name, spec) = more[FirstOf(hits(more))].digest
    BY <1>3, <1>5 DEF LookupBySpec
  <2> QED
    BY <1>3, <2>4, <2>5 DEF more
<1> QED
  BY <1>4, <1>5

\* The last place of a key is one of its places.
LEMMA LastPlace ==
  ASSUME NEW S, NEW index \in Seq(S), NEW k, PlacesOf(index, k) # {}
  PROVE  /\ LastOf(PlacesOf(index, k)) \in PlacesOf(index, k)
         /\ \A i \in PlacesOf(index, k) : i <= LastOf(PlacesOf(index, k))
<1> DEFINE N == PlacesOf(index, k)
<1>1. Len(index) \in Nat /\ N \in SUBSET (1..Len(index))
  BY DEF PlacesOf
<1>2. \E i \in N : \A j \in N : j <= i
  <2> HIDE DEF N
  <2>1. N # {}
    BY DEF N
  <2> QED
    BY <1>1, <2>1, LargestIndex
<1> QED
  BY <1>2 DEF LastOf

\* A lockfile with the entry of one more manifest.
WithEntry(lock, m) ==
    [k \in DOMAIN lock \union {m.key} |->
       IF k = m.key THEN [digest |-> m.digest, spec |-> m.spec] ELSE lock[k]]

\* A push to a layout changes its lockfile in the entry of one key.
LEMMA LockfileOfPush ==
  ASSUME NEW S, NEW index \in Seq(S), NEW m, m.key # NoKey
  PROVE  SynthesizedLockfile(Append(index, m)) = WithEntry(SynthesizedLockfile(index), m)
<1> DEFINE more == Append(index, m)
           n == Len(index) + 1
           entry(l, k) == [digest |-> l[LastOf(PlacesOf(l, k))].digest,
                           spec |-> l[LastOf(PlacesOf(l, k))].spec]
<1>1. /\ more \in Seq(S \union {m}) /\ DOMAIN more = 1..n /\ more[n] = m
      /\ \A i \in DOMAIN index : more[i] = index[i]
      /\ DOMAIN index = 1..Len(index) /\ Len(index) \in Nat
  BY Appended
<1> HIDE DEF more
<1>2. DOMAIN more = DOMAIN index \union {n} /\ n \notin DOMAIN index /\ n \in DOMAIN more
  BY <1>1
<1>3. ASSUME NEW l
      PROVE  /\ DOMAIN SynthesizedLockfile(l) = KeysOf(l)
             /\ \A k \in KeysOf(l) : SynthesizedLockfile(l)[k] = entry(l, k)
  BY DEF SynthesizedLockfile
<1> HIDE DEF n
<1>4. KeysOf(more) = KeysOf(index) \union {m.key}
  <2>1. ASSUME NEW k \in KeysOf(more) PROVE k \in KeysOf(index) \union {m.key}
    <3>1. PICK i \in DOMAIN more : k = more[i].key
      BY DEF KeysOf
    <3>2. CASE i \in DOMAIN index
      BY <1>1, <3>1, <3>2 DEF KeysOf
    <3>3. CASE i = n
      BY <1>1, <3>1, <3>3
    <3> QED
      BY <1>2, <3>2, <3>3
  <2>2. ASSUME NEW k \in KeysOf(index) PROVE k \in KeysOf(more)
    <3>1. PICK i \in DOMAIN index : k = index[i].key
      BY DEF KeysOf
    <3>2. more[i].key = k /\ i \in DOMAIN more
      BY <1>1, <1>2, <3>1
    <3> QED
      BY <3>2 DEF KeysOf
  <2>3. m.key \in KeysOf(more)
    BY <1>1, <1>2 DEF KeysOf
  <2> QED
    BY <2>1, <2>2, <2>3
<1>5. entry(more, m.key) = [digest |-> m.digest, spec |-> m.spec]
  <2>1. n \in PlacesOf(more, m.key)
    BY <1>1, <1>2 DEF PlacesOf
  <2>2. PICK j : j = LastOf(PlacesOf(more, m.key))
    OBVIOUS
  <2>3. j \in DOMAIN more /\ n <= j
    <3>1. j \in PlacesOf(more, m.key) /\ n <= j
      BY <1>1, <2>1, <2>2, LastPlace
    <3> QED
      BY <3>1 DEF PlacesOf
  <2>4. j = n
    BY <1>1, <2>3 DEF n
  <2> QED
    BY <1>1, <2>2, <2>4
<1>6. ASSUME NEW k \in KeysOf(index), k # m.key
      PROVE  entry(more, k) = entry(index, k)
  <2>1. PlacesOf(more, k) = PlacesOf(index, k)
    BY <1>1, <1>2, <1>6 DEF PlacesOf
  <2>2. PlacesOf(index, k) # {}
    BY DEF KeysOf, PlacesOf
  <2>3. LastOf(PlacesOf(index, k)) \in DOMAIN index
    <3>1. LastOf(PlacesOf(index, k)) \in PlacesOf(index, k)
      BY <2>2, LastPlace
    <3> QED
      BY <3>1 DEF PlacesOf
  <2> QED
    BY <1>1, <2>1, <2>3
<1> DEFINE new == [k \in KeysOf(index) \union {m.key} |->
                     IF k = m.key THEN [digest |-> m.digest, spec |-> m.spec]
                     ELSE SynthesizedLockfile(index)[k]]
<1>7. ASSUME NEW k \in KeysOf(more) PROVE SynthesizedLockfile(more)[k] = new[k]
  <2> HIDE DEF entry
  <2> QED
    BY <1>3, <1>4, <1>5, <1>6
<1>8. SynthesizedLockfile(more) = [k \in KeysOf(more) |-> SynthesizedLockfile(more)[k]]
  BY DEF SynthesizedLockfile
<1> QED
  BY <1>3, <1>4, <1>7, <1>8 DEF more, WithEntry

\* Some places of a sequence, counted from the front: each has its number.
LEMMA NthPlace ==
  ASSUME NEW L \in Nat, NEW S \in SUBSET (1..L)
  PROVE  /\ IsFiniteSet(S) /\ Cardinality(S) \in Nat
         /\ \A n \in 1..Cardinality(S) : Nth(S, n) \in S
         /\ \A i \in S : \E n \in 1..Cardinality(S) : i = Nth(S, n)
         /\ \A m, n \in 1..Cardinality(S) : m < n => Nth(S, m) < Nth(S, n)
<1> DEFINE below(i) == {j \in S : j <= i}
           C == Cardinality(S)
           f == [i \in S |-> Cardinality(below(i))]
<1>1. IsFiniteSet(S) /\ C \in Nat
  <2>1. IsFiniteSet(1..L)
    BY FS_Interval
  <2>2. IsFiniteSet(S)
    BY <2>1, FS_Subset
  <2> QED
    BY <2>2, FS_CardinalityType
<1>2. ASSUME NEW i \in S
      PROVE  /\ IsFiniteSet(below(i)) /\ Cardinality(below(i)) \in 1..C
  <2>1. below(i) \in SUBSET S /\ i \in below(i)
    OBVIOUS
  <2>2. IsFiniteSet(below(i)) /\ Cardinality(below(i)) <= C
    BY <1>1, <2>1, FS_Subset
  <2>3. Cardinality(below(i)) \in Nat /\ Cardinality(below(i)) # 0
    BY <2>1, <2>2, FS_CardinalityType, FS_EmptySet
  <2> HIDE DEF below
  <2> QED
    BY <1>1, <2>2, <2>3
<1>3. ASSUME NEW i \in S, NEW k \in S, i < k
      PROVE  Cardinality(below(i)) < Cardinality(below(k))
  <2>1. below(i) \in SUBSET below(k) /\ below(i) # below(k)
    <3>1. \A j \in S : j \in Nat
      OBVIOUS
    <3>2. k \in below(k) /\ k \notin below(i)
      BY <1>3, <3>1
    <3>3. \A j \in S : j <= i => j <= k
      BY <1>3, <3>1
    <3> QED
      BY <3>2, <3>3
  <2>2. Cardinality(below(i)) <= Cardinality(below(k))
        /\ Cardinality(below(i)) # Cardinality(below(k))
    BY <1>2, <2>1, FS_Subset
  <2>3. Cardinality(below(i)) \in Nat /\ Cardinality(below(k)) \in Nat
    BY <1>1, <1>2
  <2> HIDE DEF below
  <2> QED
    BY <2>2, <2>3
<1> HIDE DEF below, C
<1>4. \A i \in S : i \in Nat /\ i \in Int
  OBVIOUS
<1>5. f \in Surjection(S, 1..C)
  <2>1. f \in [S -> 1..C]
    BY <1>2
  <2>2. \A i, k \in S : i # k => f[i] # f[k]
    <3>1. ASSUME NEW i \in S, NEW k \in S, i < k PROVE f[i] # f[k]
      BY <1>1, <1>2, <1>3, <3>1
    <3> QED
      BY <1>4, <3>1
  <2>3. f \in Injection(S, 1..C)
    BY <2>1, <2>2 DEF Injection, IsInjective
  <2>4. IsFiniteSet(1..C) /\ Cardinality(1..C) = C
    BY <1>1, FS_Interval
  <2> HIDE DEF f
  <2> QED
    BY <2>3, <2>4, FS_Injection DEF C
<1>6. ASSUME NEW n \in 1..C PROVE Nth(S, n) \in S /\ Cardinality(below(Nth(S, n))) = n
  <2>1. \E i \in S : Cardinality(below(i)) = n
    BY <1>5 DEF Surjection
  <2> QED
    BY <2>1 DEF Nth, below
<1>7. ASSUME NEW i \in S PROVE \E n \in 1..C : i = Nth(S, n)
  <2> DEFINE n == Cardinality(below(i))
  <2>1. n \in 1..C
    BY <1>2
  <2>2. Nth(S, n) \in S /\ Cardinality(below(Nth(S, n))) = n
    BY <1>6, <2>1
  <2> DEFINE k == Nth(S, n)
  <2>3. ~(i < k) /\ ~(k < i)
    <3> HIDE DEF k
    <3>1. k \in S /\ Cardinality(below(k)) = Cardinality(below(i))
      BY <2>2 DEF k
    <3>2. Cardinality(below(i)) \in Int
      BY <1>1, <2>1
    <3> QED
      BY <1>3, <3>1, <3>2
  <2>4. i = k
    <3> HIDE DEF k
    <3>1. k \in S
      BY <2>2 DEF k
    <3> QED
      BY <1>4, <2>3, <3>1
  <2> QED
    BY <2>1, <2>4
<1>8. ASSUME NEW m \in 1..C, NEW n \in 1..C, m < n PROVE Nth(S, m) < Nth(S, n)
  <2>1. /\ Nth(S, m) \in S /\ Cardinality(below(Nth(S, m))) = m
        /\ Nth(S, n) \in S /\ Cardinality(below(Nth(S, n))) = n
    BY <1>6
  <2> DEFINE i == Nth(S, m)
             k == Nth(S, n)
  <2>2. i \in S /\ k \in S /\ Cardinality(below(i)) = m /\ Cardinality(below(k)) = n
    BY <2>1
  <2> HIDE DEF i, k, f
  <2>3. m \in Int /\ n \in Int
    BY <1>1
  <2>4. ~(k < i)
    BY <1>3, <1>8, <2>2, <2>3
  <2>5. k # i
    BY <1>8, <2>2, <2>3
  <2>6. i < k
    BY <1>4, <2>2, <2>4, <2>5
  <2> QED
    BY <2>6 DEF i, k
<1> QED
  BY <1>1, <1>6, <1>7, <1>8 DEF C

\* What is at some places of a sequence is a sequence of just that, in order.
LEMMA AtPlaces ==
  ASSUME NEW X, NEW s \in Seq(X), NEW S \in SUBSET DOMAIN s
  PROVE  /\ At(s, S) \in Seq({s[i] : i \in S})
         /\ \A i \in S : \E n \in DOMAIN At(s, S) : At(s, S)[n] = s[i]
         /\ \A n \in DOMAIN At(s, S) : Nth(S, n) \in S /\ At(s, S)[n] = s[Nth(S, n)]
         /\ \A m, n \in DOMAIN At(s, S) : m < n => Nth(S, m) < Nth(S, n)
<1>1. DOMAIN s = 1..Len(s) /\ Len(s) \in Nat
  OBVIOUS
<1>2. /\ IsFiniteSet(S) /\ Cardinality(S) \in Nat
      /\ \A n \in 1..Cardinality(S) : Nth(S, n) \in S
      /\ \A i \in S : \E n \in 1..Cardinality(S) : i = Nth(S, n)
      /\ \A m, n \in 1..Cardinality(S) : m < n => Nth(S, m) < Nth(S, n)
  BY <1>1, NthPlace
<1>3. At(s, S) = [n \in 1..Cardinality(S) |-> s[Nth(S, n)]]
  BY DEF At
<1>4. At(s, S) \in Seq({s[i] : i \in S})
  <2>1. At(s, S) \in [1..Cardinality(S) -> {s[i] : i \in S}]
    BY <1>2, <1>3
  <2> QED
    BY <1>2, <2>1
<1>5. ASSUME NEW i \in S PROVE \E n \in DOMAIN At(s, S) : At(s, S)[n] = s[i]
  BY <1>2, <1>3
<1> QED
  BY <1>2, <1>3, <1>4, <1>5

\* Where every manifest has a key, the keyed ones are the layout.
LEMMA AllKeyed ==
  ASSUME NEW X, NEW index \in Seq(X), \A i \in DOMAIN index : index[i].key # NoKey
  PROVE  ListKeyed(index) = index
<1> DEFINE D == DOMAIN index
<1>1. D = 1..Len(index) /\ Len(index) \in Nat
  OBVIOUS
<1>2. {i \in D : index[i].key # NoKey} = D
  OBVIOUS
<1>3. Cardinality(D) = Len(index)
  <2> DEFINE L == Len(index)
  <2>0. L \in Nat
    BY <1>1
  <2>1. Cardinality(1..L) = L
    <3> HIDE DEF L
    <3>1. 1 \in Int /\ L \in Int
      BY <2>0
    <3>2. Cardinality(1..L) = IF 1 > L THEN 0 ELSE L - 1 + 1
      BY <3>1, FS_Interval
    <3> QED
      BY <2>0, <3>2
  <2> QED
    BY <1>1, <2>1
<1>4. ASSUME NEW n \in 1..Len(index) PROVE Nth(D, n) = n
  <2>1. ASSUME NEW i \in 1..Len(index) PROVE Cardinality({j \in D : j <= i}) = i
    <3>1. {j \in D : j <= i} = 1..i
      BY <1>1
    <3>2. Cardinality(1..i) = i
      BY <2>1, FS_Interval
    <3> QED
      BY <3>1, <3>2
  <2>2. Nth(D, n) \in D
    BY <1>1, <1>3, NthPlace
  <2>3. Cardinality({j \in D : j <= Nth(D, n)}) = n
    <3>1. \E i \in D : Cardinality({j \in D : j <= i}) = n
      BY <1>1, <2>1
    <3> HIDE DEF D
    <3> QED
      BY <3>1 DEF Nth
  <2> QED
    BY <1>1, <2>1, <2>2, <2>3
<1>5. ListKeyed(index) = [n \in 1..Len(index) |-> index[Nth(D, n)]]
  BY <1>2, <1>3 DEF ListKeyed, At
<1>6. ListKeyed(index) = [n \in 1..Len(index) |-> index[n]]
  BY <1>4, <1>5
<1> QED
  BY <1>1, <1>6


-----------------------------------------------------------------------------
(* The items of a core. *)

\* A set in order has the elements of the set.
LEMMA ElementsInOrder ==
  ASSUME NEW S, IsFiniteSet(S)
  PROVE  InOrder(S) \in Seq(S) /\ Elements(InOrder(S)) = S
<1>1. Cardinality(S) \in Nat /\ ExistsBijection(1..Cardinality(S), S)
  BY FS_CardinalityType
<1>2. PICK s \in Bijection(1..Cardinality(S), S) : TRUE
  BY <1>1 DEF ExistsBijection
<1>3. s \in [1..Cardinality(S) -> S] /\ Elements(s) = S
  BY <1>2 DEF Bijection, Surjection, Elements
<1>4. InOrder(S) \in [1..Cardinality(S) -> S] /\ Elements(InOrder(S)) = S
  BY <1>3 DEF InOrder
<1> QED
  BY <1>1, <1>4

\* What is discovered for a cell is of the catalog: extensions of that cell.
LEMMA DiscoveredOfCatalog ==
  ASSUME NEW catalog, IsCatalog(catalog), NEW php, NEW o, NEW a, NEW ts
  PROVE  LET S == DiscoverExtensionsForCell(catalog, php, o, a, ts)
         IN  /\ IsFiniteSet(S) /\ S \subseteq AllCells(catalog)
             /\ \A x \in S :
                   /\ IsExt(x)
                   /\ x = ExtCell(x.extension, x.version, php, o, a, ts)
                   /\ x.version = catalog.ext[x.extension].versions[1]
<1> DEFINE M == {m \in DOMAIN catalog.ext :
                   /\ ExtensionSupportsCell(catalog.ext[m], php, o, a, ts)
                   /\ catalog.ext[m].versions # <<>>}
           cell(n) == ExtCell(n, catalog.ext[n].versions[1], php, o, a, ts)
           S == {cell(n) : n \in M}
<1>1. S = DiscoverExtensionsForCell(catalog, php, o, a, ts)
  BY DEF DiscoverExtensionsForCell
<1>2. IsFiniteSet(S)
  <2> DEFINE f == [n \in M |-> cell(n)]
  <2>1. IsFiniteSet(M)
    BY FS_Subset DEF IsCatalog
  <2>2. f \in Surjection(M, S)
    BY DEF Surjection
  <2> QED
    BY <2>1, <2>2, FS_Surjection DEF ExistsSurjection
<1>3. ASSUME NEW n \in M
      PROVE  cell(n) \in ExpandExtMatrix(n, catalog.ext[n])
  <2>1. 1 \in DOMAIN catalog.ext[n].versions
    BY DEF IsCatalog
  <2>2. \A rule \in catalog.ext[n].exclude : ~ExcludeMatches(rule, o, a, php)
    BY DEF ExtensionSupportsCell
  <2>3. cell(n).os = o /\ cell(n).arch = a /\ cell(n).php = php
    BY DEF ExtCell
  <2> QED
    BY <2>1, <2>2, <2>3 DEF ExtensionSupportsCell, ExpandExtMatrix
<1>4. S \subseteq AllCells(catalog)
  BY <1>3 DEF AllCells
<1>5. ASSUME NEW n \in M
      PROVE  /\ IsExt(cell(n))
             /\ cell(n) = ExtCell(cell(n).extension, cell(n).version, php, o, a, ts)
             /\ cell(n).version = catalog.ext[cell(n).extension].versions[1]
  <2>1. cell(n).extension = n /\ cell(n).version = catalog.ext[n].versions[1]
    BY DEF ExtCell
  <2>2. n # NoValue
    BY DEF IsCatalog
  <2> QED
    BY <2>1, <2>2 DEF IsExt
<1> QED
  BY <1>1, <1>2, <1>4, <1>5

\* The extensions a cell is built with are those the planner enqueues for it: the
\* cells of the matrices of all extensions that are of its PHP version, system and
\* thread safety, in the first version the catalog has ("the compatibility check
\* mirrors planner.ExpandExtMatrix exactly", build/cell.go).
THEOREM DiscoveryMirrorsPlanner ==
  ASSUME NEW catalog, IsCatalog(catalog), NEW php, NEW o, NEW a, NEW ts
  PROVE  DiscoverExtensionsForCell(catalog, php, o, a, ts) =
           {x \in UNION {ExpandExtMatrix(n, catalog.ext[n]) : n \in DOMAIN catalog.ext} :
              /\ x.php = php /\ x.os = o /\ x.arch = a /\ x.ts = ts
              /\ x.version = catalog.ext[x.extension].versions[1]}
<1> DEFINE D == DiscoverExtensionsForCell(catalog, php, o, a, ts)
           P == UNION {ExpandExtMatrix(n, catalog.ext[n]) : n \in DOMAIN catalog.ext}
           Of(x) == /\ x.php = php /\ x.os = o /\ x.arch = a /\ x.ts = ts
                    /\ x.version = catalog.ext[x.extension].versions[1]
<1>1. ASSUME NEW x \in D PROVE x \in P /\ Of(x)
  <2>1. /\ x \in AllCells(catalog) /\ IsExt(x)
        /\ x = ExtCell(x.extension, x.version, php, o, a, ts)
        /\ x.version = catalog.ext[x.extension].versions[1]
    BY DiscoveredOfCatalog
  <2>2. x \notin ExpandPHPMatrix(catalog)
    BY <2>1 DEF ExpandPHPMatrix, PhpCell, IsExt
  <2>3. x \in P
    BY <2>1, <2>2 DEF AllCells
  <2>4. x.php = php /\ x.os = o /\ x.arch = a /\ x.ts = ts
    BY <2>1 DEF ExtCell
  <2> QED
    BY <2>1, <2>3, <2>4
<1>2. ASSUME NEW x \in P, Of(x) PROVE x \in D
  <2>1. PICK n \in DOMAIN catalog.ext : x \in ExpandExtMatrix(n, catalog.ext[n])
    OBVIOUS
  <2> DEFINE spec == catalog.ext[n]
  <2>2. /\ spec.kind # "bundled"
        /\ \A rule \in spec.exclude : ~ExcludeMatches(rule, x.os, x.arch, x.php)
        /\ \E i \in DOMAIN spec.versions, p \in spec.php, s \in spec.os, m \in spec.arch,
              t \in spec.ts : x = ExtCell(n, spec.versions[i], p, s, m, t)
    BY <2>1 DEF ExpandExtMatrix
  <2>3. PICK i \in DOMAIN spec.versions, p \in spec.php, s \in spec.os, m \in spec.arch,
             t \in spec.ts : x = ExtCell(n, spec.versions[i], p, s, m, t)
    BY <2>2
  <2>4. x.extension = n /\ p = php /\ s = o /\ m = a /\ t = ts /\ spec.versions[i] = x.version
    BY <1>2, <2>3 DEF ExtCell
  <2>5. x = ExtCell(n, spec.versions[1], php, o, a, ts)
    BY <1>2, <2>3, <2>4
  <2>6. ExtensionSupportsCell(spec, php, o, a, ts)
    BY <1>2, <2>2, <2>3, <2>4 DEF ExtensionSupportsCell
  <2>7. spec.versions # <<>>
    BY <2>3
  <2> QED
    BY <2>5, <2>6, <2>7 DEF DiscoverExtensionsForCell
<1> HIDE DEF D, P, Of
<1>3. D = {x \in P : Of(x)}
  BY <1>1, <1>2
<1> QED
  BY <1>3 DEF D, P, Of

\* The items of a core are the core and what is discovered for it, the core first.
LEMMA ItemsOfCatalog ==
  ASSUME NEW catalog, IsCatalog(catalog), NEW core \in ExpandPHPMatrix(catalog)
  PROVE  LET items == ItemsOf(core, catalog)
             S == DiscoverExtensionsForCell(catalog, core.version, core.os, core.arch, core.ts)
         IN  /\ items \in Seq(AllCells(catalog)) /\ items # <<>>
             /\ items[1] = core /\ ~IsExt(core) /\ core \in AllCells(catalog)
             /\ Elements(items) = {core} \union S
             /\ \A i \in DOMAIN items : items[i] = core \/ items[i] \in S
<1> DEFINE S == DiscoverExtensionsForCell(catalog, core.version, core.os, core.arch, core.ts)
<1>1. core \in AllCells(catalog) /\ ~IsExt(core)
  BY DEF AllCells, ExpandPHPMatrix, PhpCell, IsExt
<1>2. IsFiniteSet(S) /\ S \subseteq AllCells(catalog)
  BY DiscoveredOfCatalog
<1>3. ItemsOf(core, catalog) = <<core>> \o InOrder(S)
  BY DEF ItemsOf
<1> DEFINE rest == InOrder(S)
           items == <<core>> \o rest
<1> HIDE DEF S
<1>4. rest \in Seq(S) /\ Elements(rest) = S
  BY <1>2, ElementsInOrder
<1> HIDE DEF rest
<1>5. items \in Seq(AllCells(catalog)) /\ items # <<>> /\ items[1] = core
  BY <1>1, <1>2, <1>4
<1>6. \A i \in DOMAIN items : items[i] = core \/ items[i] \in S
  BY <1>4
<1>7. Elements(items) = {core} \union S
  <2>1. core \in Elements(items)
    <3>1. 1 \in DOMAIN items
      BY <1>5
    <3> QED
      BY <1>5, <3>1 DEF Elements
  <2>2. ASSUME NEW x \in S PROVE x \in Elements(items)
    <3>1. PICK i \in DOMAIN rest : x = rest[i]
      BY <1>4 DEF Elements
    <3>2. i + 1 \in DOMAIN items /\ items[i + 1] = x
      BY <1>4, <3>1
    <3> QED
      BY <3>2 DEF Elements
  <2>3. ASSUME NEW x \in Elements(items) PROVE x = core \/ x \in S
    BY <1>6 DEF Elements
  <2> QED
    BY <2>1, <2>2, <2>3
<1> QED
  BY <1>1, <1>3, <1>5, <1>6, <1>7 DEF rest, S

-----------------------------------------------------------------------------
(* Keys, tags and hashes. *)

LEMMA ShapeOfCell ==
  ASSUME NEW catalog, IsCatalog(catalog), NEW c \in AllCells(catalog)
  PROVE  \/ ~IsExt(c) /\ c = PhpCell(c.version, c.os, c.arch, c.ts)
         \/ IsExt(c) /\ c = ExtCell(c.extension, c.version, c.php, c.os, c.arch, c.ts)
<1>1. CASE c \in ExpandPHPMatrix(catalog)
  <2>1. \E v, o, a, ts : c = PhpCell(v, o, a, ts)
    BY <1>1 DEF ExpandPHPMatrix
  <2> QED
    BY <2>1 DEF PhpCell, IsExt
<1>2. CASE c \notin ExpandPHPMatrix(catalog)
  <2>1. PICK n \in DOMAIN catalog.ext : c \in ExpandExtMatrix(n, catalog.ext[n])
    BY <1>2 DEF AllCells
  <2>2. \E v, php, o, a, ts : c = ExtCell(n, v, php, o, a, ts)
    BY <2>1 DEF ExpandExtMatrix
  <2>3. n # NoValue
    BY DEF IsCatalog
  <2> QED
    BY <2>2, <2>3 DEF ExtCell, IsExt
<1> QED
  BY <1>1, <1>2

\* A cell's key names the cell, whichever the catalogs are.
LEMMA KeyNamesCell ==
  ASSUME NEW catalog, IsCatalog(catalog), NEW c \in AllCells(catalog),
         NEW other, IsCatalog(other), NEW d \in AllCells(other),
         BundleKey(c) = BundleKey(d)
  PROVE  c = d
<1>1. CASE IsExt(c) /\ IsExt(d)
  <2>1. /\ c.extension = d.extension /\ c.version = d.version /\ c.php = d.php
        /\ c.os = d.os /\ c.arch = d.arch /\ c.ts = d.ts
    BY <1>1 DEF BundleKey
  <2> QED
    BY <1>1, <2>1, ShapeOfCell
<1>2. CASE ~IsExt(c) /\ ~IsExt(d)
  <2>1. c.version = d.version /\ c.os = d.os /\ c.arch = d.arch /\ c.ts = d.ts
    BY <1>2 DEF BundleKey
  <2> QED
    BY <1>2, <2>1, ShapeOfCell
<1>3. IsExt(c) <=> IsExt(d)
  BY DEF BundleKey
<1> QED
  BY <1>1, <1>2, <1>3

\* The tag that a bundle is pushed under is the one its cell is looked up by.
LEMMA TagOfKey ==
  ASSUME NEW c
  PROVE  CanonicalRefFromBundleKey(BundleKey(c)) = TagOf(c)
<1>1. CASE IsExt(c)
  BY <1>1 DEF CanonicalRefFromBundleKey, BundleKey, TagOf, ImageName
<1>2. CASE ~IsExt(c)
  BY <1>2 DEF CanonicalRefFromBundleKey, BundleKey, TagOf, ImageName
<1> QED
  BY <1>1, <1>2

\* A cell's tag names the cell.
LEMMA TagNamesCell ==
  ASSUME NEW catalog, IsCatalog(catalog), NEW c \in AllCells(catalog),
         NEW other, IsCatalog(other), NEW d \in AllCells(other),
         TagOf(c) = TagOf(d)
  PROVE  c = d
<1>1. ImageName(c) = ImageName(d)
  BY DEF TagOf
<1>2. IsExt(c) <=> IsExt(d)
  <2>1. /\ ImageName(c) = IF IsExt(c) THEN <<"php-ext", c.extension>> ELSE <<"php-core">>
        /\ ImageName(d) = IF IsExt(d) THEN <<"php-ext", d.extension>> ELSE <<"php-core">>
    BY DEF ImageName
  <2>2. ASSUME NEW x PROVE <<"php-ext", x>> # <<"php-core">>
    OBVIOUS
  <2> QED
    BY <1>1, <2>1, <2>2
<1>3. CASE IsExt(c)
  <2>1. c.extension = d.extension
    BY <1>1, <1>2, <1>3 DEF ImageName
  <2>2. c.version = d.version /\ c.php = d.php /\ c.ts = d.ts /\ c.os = d.os /\ c.arch = d.arch
    BY <1>2, <1>3 DEF TagOf
  <2>3. BundleKey(c) = BundleKey(d)
    BY <1>2, <1>3, <2>1, <2>2 DEF BundleKey
  <2> QED
    BY <2>3, KeyNamesCell
<1>4. CASE ~IsExt(c)
  <2>1. c.version = d.version /\ c.ts = d.ts /\ c.os = d.os /\ c.arch = d.arch
    BY <1>2, <1>4 DEF TagOf
  <2>2. BundleKey(c) = BundleKey(d)
    BY <1>2, <1>4, <2>1 DEF BundleKey
  <2> QED
    BY <2>2, KeyNamesCell
<1> QED
  BY <1>3, <1>4

\* The tag `phpup push` derives from a bundle's key is the tag that the planner and
\* `phpup lockfile-update` look the bundle up by, and of no other cell, whatever
\* catalogs the two cells are of: what is found under a cell's tag was pushed for
\* that cell (canonicalRefFromBundleKey, push.go; the references in update.go).
THEOREM TagFindsCell ==
  ASSUME NEW catalog, IsCatalog(catalog), NEW c \in AllCells(catalog),
         NEW other, IsCatalog(other), NEW d \in AllCells(other)
  PROVE  CanonicalRefFromBundleKey(BundleKey(c)) = TagOf(d) <=> c = d
<1>1. CanonicalRefFromBundleKey(BundleKey(c)) = TagOf(c)
  BY TagOfKey
<1> QED
  BY <1>1, TagNamesCell

\* Of what is built for a core, in whatever trees, a spec hash names one cell: a hit
\* of the lookup is never another bundle's.  An extension's own version is not
\* hashed, but it is the first of the catalog entry, which is (ComputeSpecHash,
\* spechash.go; discoverExtensionsForCell).
THEOREM HashNamesItem ==
  ASSUME NEW t, IsCatalog(t.catalog), NEW u, IsCatalog(u.catalog),
         NEW c \in ExpandPHPMatrix(t.catalog), NEW x \in Elements(ItemsOf(c, t.catalog)),
         NEW d \in ExpandPHPMatrix(u.catalog), NEW y \in Elements(ItemsOf(d, u.catalog)),
         ComputeSpecHash(x, t) = ComputeSpecHash(y, u)
  PROVE  x = y
<1> DEFINE Cut(z) == IF IsExt(z) THEN [z EXCEPT !.version = NoValue] ELSE z
<1>1. /\ ComputeSpecHash(x, t).cell = Cut(x) /\ ComputeSpecHash(y, u).cell = Cut(y)
      /\ ComputeSpecHash(x, t).catalog = CatalogOf(x, t)
      /\ ComputeSpecHash(y, u).catalog = CatalogOf(y, u)
  BY DEF ComputeSpecHash, HashOver
<1>2. Cut(x) = Cut(y) /\ CatalogOf(x, t) = CatalogOf(y, u)
  BY <1>1
<1>3. /\ x \in {c} \union DiscoverExtensionsForCell(t.catalog, c.version, c.os, c.arch, c.ts)
      /\ y \in {d} \union DiscoverExtensionsForCell(u.catalog, d.version, d.os, d.arch, d.ts)
      /\ ~IsExt(c) /\ ~IsExt(d)
  BY ItemsOfCatalog
<1>4. /\ IsExt(x) => /\ x = ExtCell(x.extension, x.version, x.php, x.os, x.arch, x.ts)
                     /\ x.version = t.catalog.ext[x.extension].versions[1]
      /\ IsExt(y) => /\ y = ExtCell(y.extension, y.version, y.php, y.os, y.arch, y.ts)
                     /\ y.version = u.catalog.ext[y.extension].versions[1]
  <2>1. /\ IsExt(x) => /\ x = ExtCell(x.extension, x.version, c.version, c.os, c.arch, c.ts)
                       /\ x.version = t.catalog.ext[x.extension].versions[1]
        /\ IsExt(y) => /\ y = ExtCell(y.extension, y.version, d.version, d.os, d.arch, d.ts)
                       /\ y.version = u.catalog.ext[y.extension].versions[1]
    BY <1>3, DiscoveredOfCatalog
  <2> QED
    BY <2>1 DEF ExtCell
<1>5. ASSUME NEW z PROVE IsExt(z) /\ z = ExtCell(z.extension, z.version, z.php, z.os, z.arch, z.ts)
                         => IsExt(Cut(z))
  <2>1. ASSUME IsExt(z), z = ExtCell(z.extension, z.version, z.php, z.os, z.arch, z.ts)
        PROVE  [z EXCEPT !.version = NoValue].extension = z.extension
    BY <2>1 DEF ExtCell
  <2> QED
    BY <2>1 DEF IsExt
<1>6. IsExt(x) <=> IsExt(y)
  BY <1>2, <1>4, <1>5
<1>7. CASE ~IsExt(x)
  BY <1>2, <1>6, <1>7
<1>8. CASE IsExt(x)
  <2>1. [x EXCEPT !.version = NoValue] = [y EXCEPT !.version = NoValue]
    BY <1>2, <1>6, <1>8
  <2>2. /\ x.extension = y.extension /\ x.php = y.php
        /\ x.os = y.os /\ x.arch = y.arch /\ x.ts = y.ts
    <3> HIDE DEF Cut
    <3> QED
      BY <1>4, <1>6, <1>8, <2>1 DEF ExtCell
  <2>3. t.catalog.ext[x.extension] = u.catalog.ext[y.extension]
    BY <1>2, <1>6, <1>8 DEF CatalogOf
  <2> QED
    BY <1>4, <1>6, <1>8, <2>2, <2>3
<1> QED
  BY <1>7, <1>8

\* The spec hash that `phpup lockfile-update` records for a bundle is never the one
\* the planner and `phpup build` compute, of no cell and in no tree: the two are
\* taken over different sets of builder files, so a planner that leaves out what is
\* locked under its hash leaves out nothing (update.go 64, cli.go 65).
THEOREM RecordedHashNeverMatches ==
  ASSUME NEW c, NEW t, NEW d, NEW u
  PROVE  LockSpecHash(c, t) # ComputeSpecHash(d, u)
<1>1. "pack-bundle.sh" \notin LockBuilderFilesFor(c)
  BY DEF LockBuilderFilesFor, BuilderScript
<1>2. "pack-bundle.sh" \in BuilderFilesFor(d)
  BY DEF BuilderFilesFor
<1>3. /\ DOMAIN LockSpecHash(c, t).files = LockBuilderFilesFor(c)
      /\ DOMAIN ComputeSpecHash(d, u).files = BuilderFilesFor(d)
  BY DEF LockSpecHash, ComputeSpecHash, HashOver
<1> QED
  BY <1>1, <1>2, <1>3

\* What a choice of places holds.
LEMMA ElementsAt ==
  ASSUME NEW X, NEW s \in Seq(X), NEW S \in SUBSET DOMAIN s
  PROVE  Elements(At(s, S)) = {s[i] : i \in S}
<1> DEFINE a == At(s, S)
<1>1. /\ \A n \in DOMAIN a : Nth(S, n) \in S /\ a[n] = s[Nth(S, n)]
      /\ \A i \in S : \E n \in DOMAIN a : a[n] = s[i]
  BY AtPlaces
<1> HIDE DEF a
<1>2. ASSUME NEW x \in Elements(a) PROVE x \in {s[i] : i \in S}
  BY <1>1 DEF Elements
<1>3. ASSUME NEW i \in S PROVE s[i] \in Elements(a)
  BY <1>1 DEF Elements
<1>4. Elements(a) = {s[i] : i \in S}
  BY <1>2, <1>3
<1> QED
  BY <1>4 DEF a
=============================================================================

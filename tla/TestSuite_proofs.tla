-------------------------- MODULE TestSuite_proofs --------------------------
(***************************************************************************)
(* Proofs about TestSuite for any fixtures, calls, layouts and builds, and *)
(* any number of faults: no fixture of the repository is skipped where a   *)
(* call has cells, and nothing passes on a bundle older than the oldest    *)
(* listing that was still to be written when its cell began.               *)
(***************************************************************************)
EXTENDS TestSuite, SharedFacts

-----------------------------------------------------------------------------
(* The cells of a call. *)

Among(x, s) == \E i \in DOMAIN s : s[i] = x

\* What is in a list is its head or left in its tail.
LEMMA AmongTail ==
  ASSUME NEW S, NEW s \in Seq(S), s # <<>>, NEW x, Among(x, s)
  PROVE  x = s[1] \/ Among(x, Tail(s))
<1>1. PICK i \in DOMAIN s : s[i] = x
  BY DEF Among
<1>2. i = 1 \/ (i - 1 \in DOMAIN Tail(s) /\ Tail(s)[i - 1] = s[i])
  BY TailPlaces
<1> QED
  BY <1>1, <1>2 DEF Among

\* Whatever was given is seen for a first time.
LEMMA AllSeen ==
  ASSUME NEW S, NEW s \in Seq(S)
  PROVE  /\ \E T : FirstSeen(s) \in Seq(T)
         /\ \A j \in DOMAIN s : Among(s[j], FirstSeen(s))
<1> DEFINE P == {i \in DOMAIN s : \A j \in DOMAIN s : s[j] = s[i] => i <= j}
           q == At(s, P)
<1>1. /\ q \in Seq({s[i] : i \in P})
      /\ \A i \in P : \E n \in DOMAIN q : q[n] = s[i]
  BY AtPlaces
<1>2. q = FirstSeen(s)
  BY DEF FirstSeen
<1>3. ASSUME NEW j \in DOMAIN s PROVE \E i \in P : s[i] = s[j]
  <2> DEFINE N == {i \in DOMAIN s : s[i] = s[j]}
  <2>1. N \in SUBSET Nat /\ N # {}
    OBVIOUS
  <2>2. PICK i \in N : \A k \in N : i <= k
    <3> HIDE DEF N
    <3> QED
      BY <2>1, SmallestIndex
  <2> QED
    BY <2>2
<1> HIDE DEF P, q
<1> QED
  BY <1>1, <1>2, <1>3 DEF Among

\* The place of a cell in three nested loops, and back.
LEMMA PlaceOfTwo ==
  ASSUME NEW n \in Nat, n > 0, NEW q \in Nat, NEW z \in 0..(n - 1)
  PROVE  (q * n + z) \div n = q /\ (q * n + z) % n = z
  OBVIOUS

LEMMA PlaceBelow ==
  ASSUME NEW n \in Nat, NEW m \in Nat, NEW q \in 0..(m - 1), NEW z \in 0..(n - 1)
  PROVE  q * n + z \in 0..(m * n - 1)
<1>1. (m - 1 - q) * n >= 0
  OBVIOUS
<1>2. (m - 1 - q) * n = m * n - n - q * n /\ q * n >= 0
  OBVIOUS
<1>3. q * n \in Int /\ m * n \in Int /\ (m - 1 - q) * n \in Int
  OBVIOUS
<1> QED
  BY <1>1, <1>2, <1>3

LEMMA PlaceOfThree ==
  ASSUME NEW x \in Int, NEW y \in Int, NEW z \in Int, NEW a \in Int, NEW v \in Int
  PROVE  x * (a * v) + (y * v + z) = (x * a + y) * v + z
  OBVIOUS

\* The three loops pass each combination of what was asked for, by its own
\* name for it.
LEMMA EveryCell ==
  ASSUME NEW r \in Requests,
         NEW i \in DOMAIN r.os, NEW j \in DOMAIN r.arch, NEW k \in DOMAIN r.php
  PROVE  Among([os |-> Codename(r.os[i]), arch |-> NormalizeArch(r.arch[j]), php |-> r.php[k]],
               CellsOf(r))
<1> DEFINE os == SplitNormalizedOS(r.os)
           arch == SplitNormalizedArch(r.arch)
           a == Len(arch)
           v == Len(r.php)
<1>1. \E S : r.os \in Seq(S) /\ r.arch \in Seq(S)
  BY RequestsAssumption
<1>2. [h \in DOMAIN r.os |-> Codename(r.os[h])] \in Seq({Codename(r.os[h]) : h \in DOMAIN r.os})
  BY <1>1
<1>3. [h \in DOMAIN r.arch |-> NormalizeArch(r.arch[h])]
        \in Seq({NormalizeArch(r.arch[h]) : h \in DOMAIN r.arch})
  BY <1>1
<1>4. PICK x \in DOMAIN os : os[x] = Codename(r.os[i])
  BY <1>2, AllSeen DEF SplitNormalizedOS, Among
<1>5. PICK y \in DOMAIN arch : arch[y] = NormalizeArch(r.arch[j])
  BY <1>3, AllSeen DEF SplitNormalizedArch, Among
<1>6. /\ Len(os) \in Nat /\ DOMAIN os = 1..Len(os)
      /\ a \in Nat /\ DOMAIN arch = 1..a
      /\ v \in Nat /\ DOMAIN r.php = 1..v
  <2>1. (\E S : os \in Seq(S)) /\ (\E S : arch \in Seq(S)) /\ r.php \in Seq(Nat)
    BY <1>2, <1>3, AllSeen, RequestsAssumption DEF SplitNormalizedOS, SplitNormalizedArch
  <2> HIDE DEF os, arch
  <2> QED
    BY <2>1
<1> DEFINE place == (x - 1) * (a * v) + ((y - 1) * v + (k - 1))
           cells == CellsOf(r)
<1> HIDE DEF os, arch, a, v
<1>7. /\ x - 1 \in 0..(Len(os) - 1) /\ y - 1 \in 0..(a - 1) /\ k - 1 \in 0..(v - 1)
      /\ x \in Int /\ y \in Int /\ k \in Int
  BY <1>6
<1>8. (y - 1) * v + (k - 1) \in 0..(a * v - 1)
  BY <1>6, <1>7, PlaceBelow
<1>9. a * v \in Nat /\ a * v > 0
  BY <1>6, <1>8
<1>10. place \in 0..(Len(os) * (a * v) - 1)
  BY <1>6, <1>7, <1>8, <1>9, PlaceBelow
<1> DEFINE n == a * v
           z == (y - 1) * v + (k - 1)
<1>11. place \div (a * v) = x - 1 /\ place % (a * v) = z
  <2>1. n \in Nat /\ n > 0 /\ z \in 0..(n - 1) /\ x - 1 \in Nat
    BY <1>6, <1>7, <1>8, <1>9
  <2> HIDE DEF n, z
  <2>2. ((x - 1) * n + z) \div n = x - 1 /\ ((x - 1) * n + z) % n = z
    BY <2>1, PlaceOfTwo
  <2> QED
    BY <2>2 DEF n, z
<1>12. v > 0 /\ y - 1 \in Nat
  BY <1>6, <1>7
<1>13. z \div v = y - 1 /\ z % v = k - 1
  BY <1>6, <1>7, <1>12, PlaceOfTwo
<1>14. place % v = k - 1
  <2> DEFINE q == (x - 1) * a + (y - 1)
  <2>1. q \in Nat
    BY <1>6, <1>7
  <2>2. place = q * v + (k - 1)
    <3>1. x - 1 \in Int /\ y - 1 \in Int /\ k - 1 \in Int /\ a \in Int /\ v \in Int
      BY <1>6, <1>7
    <3> QED
      BY <3>1, PlaceOfThree
  <2> HIDE DEF q, place
  <2>3. (q * v + (k - 1)) % v = k - 1
    BY <1>6, <1>7, <1>12, <2>1, PlaceOfTwo
  <2> QED
    BY <2>2, <2>3
<1>15. place + 1 \in 1..(Len(os) * n) /\ (place + 1) - 1 = place
  <2>1. Len(os) * n \in Int
    BY <1>6, <1>9
  <2> HIDE DEF place, n
  <2> QED
    BY <1>10, <2>1 DEF n
<1>16. cells[place + 1] = [os   |-> os[1 + (place \div n)],
                          arch |-> arch[1 + ((place % n) \div v)],
                          php  |-> r.php[1 + (place % v)]]
       /\ place + 1 \in DOMAIN cells
  <2>1. cells = [c \in 1..(Len(os) * n) |->
                   [os   |-> os[1 + ((c - 1) \div n)],
                    arch |-> arch[1 + (((c - 1) % n) \div v)],
                    php  |-> r.php[1 + ((c - 1) % v)]]]
    BY DEF CellsOf, os, arch, a, v
  <2> HIDE DEF place, cells, n
  <2> QED
    BY <1>15, <2>1
<1>17. 1 + (place \div n) = x /\ 1 + ((place % n) \div v) = y /\ 1 + (place % v) = k
  <2> HIDE DEF place, z
  <2> QED
    BY <1>7, <1>11, <1>13, <1>14
<1> HIDE DEF place, n, z, cells
<1> QED
  BY <1>4, <1>5, <1>16, <1>17 DEF Among, cells

-----------------------------------------------------------------------------
(* The fixtures of a cell. *)

FixturesFor(cell) == {f \in {Fixtures[i] : i \in DOMAIN Fixtures} :
                        Among(f, Filter(Fixtures, cell.os, cell.arch, cell.php))}

\* Filter gives what it is asked for, and nothing else.
LEMMA Filtered ==
  ASSUME NEW file, IsList(file), NEW o, NEW a, NEW v
  PROVE  /\ \E T : Filter(file, o, a, v) \in Seq(T)
         /\ \A n \in DOMAIN Filter(file, o, a, v) :
              /\ Filter(file, o, a, v)[n] \in {file[i] : i \in DOMAIN file}
              /\ Filter(file, o, a, v)[n].php = v
         /\ \A f \in {file[i] : i \in DOMAIN file} :
              /\ f.php = v
              /\ NormalizeArch(IF f.arch = Unset THEN "x86_64" ELSE f.arch) = NormalizeArch(a)
              /\ f.os = Unset \/ NormalizeOS(f.os) = NormalizeOS(o)
              => Among(f, Filter(file, o, a, v))
<1> DEFINE P == {i \in DOMAIN file :
                   LET f == file[i] IN
                   /\ f.php = v
                   /\ NormalizeArch(IF f.arch = Unset THEN "x86_64" ELSE f.arch)
                        = NormalizeArch(a)
                   /\ f.os = Unset \/ NormalizeOS(f.os) = NormalizeOS(o)}
           q == At(file, P)
<1>1. /\ q \in Seq({file[i] : i \in P})
      /\ \A i \in P : \E n \in DOMAIN q : q[n] = file[i]
      /\ \A n \in DOMAIN q : Nth(P, n) \in P /\ q[n] = file[Nth(P, n)]
  <2>1. P \in SUBSET DOMAIN file
    OBVIOUS
  <2> HIDE DEF P
  <2> QED
    BY <2>1, AtPlaces DEF IsList
<1>2. q = Filter(file, o, a, v)
  BY DEF Filter
<1>3. P \in SUBSET DOMAIN file /\ \A i \in P : file[i].php = v
  OBVIOUS
<1>4. ASSUME NEW f \in {file[i] : i \in DOMAIN file},
             f.php = v,
             NormalizeArch(IF f.arch = Unset THEN "x86_64" ELSE f.arch) = NormalizeArch(a),
             f.os = Unset \/ NormalizeOS(f.os) = NormalizeOS(o)
      PROVE  \E i \in P : f = file[i]
  BY <1>4
<1> HIDE DEF P, q
<1> QED
  BY <1>1, <1>2, <1>3, <1>4 DEF Among

\* A fixture is found for every name that the request has for its machine.
LEMMA FoundByAnyName ==
  ASSUME NEW r \in Requests, NEW i \in DOMAIN r.os, NEW j \in DOMAIN r.arch, NEW v,
         NEW file, IsList(file),
         NEW f \in {file[k] : k \in DOMAIN file}, IsFor(f, r.os[i], r.arch[j], v)
  PROVE  Among(f, Filter(file, Codename(r.os[i]), NormalizeArch(r.arch[j]), v))
<1> DEFINE o == r.os[i]
           a == r.arch[j]
<1>1. o # Unset /\ a # Unset
  <2>1. r.os \in Seq(STRING \ {Unset}) /\ r.arch \in Seq(STRING \ {Unset})
    BY RequestsAssumption
  <2> QED
    BY <2>1
<1>2. f.php = v /\ Same(f.arch, a, Processors) /\ (f.os = Unset \/ Same(f.os, o, Machines))
  BY DEF IsFor
<1> HIDE DEF o, a
<1>3. f.os = Unset \/ NormalizeOS(f.os) = NormalizeOS(Codename(o))
  BY <1>1, <1>2 DEF Same, Machines, NormalizeOS, Codename
<1>4. NormalizeArch(IF f.arch = Unset THEN "x86_64" ELSE f.arch)
        = NormalizeArch(NormalizeArch(a))
  BY <1>1, <1>2, FixturesAssumption DEF Same, Processors, NormalizeArch
<1> QED
  BY <1>2, <1>3, <1>4, Filtered DEF o, a

\* The plan of a fixture is for its version and the build that is not thread-safe.
LEMMA PlanOfFixture ==
  ASSUME NEW f \in {Fixtures[i] : i \in DOMAIN Fixtures}
  PROVE  FixturePlan(f).php = f.php /\ FixturePlan(f).ts = "nts"
<1>1. f.coverage \in Coverage
  BY FixturesAssumption
<1> QED
  BY <1>1 DEF FixturePlan, ApplyCoverage, Coverage

-----------------------------------------------------------------------------
(* The lockfile of a layout. *)

Images == {FirstImages[i] : i \in DOMAIN FirstImages} \cup Builds

\* What the layout L gave for a lockfile when it had i manifests.
LockOf(L, i) == SynthesizedLockfile(SubSeq(L, 1, i))

\* A lockfile names digests of the layout.
LEMMA LockedAreBuilt ==
  ASSUME NEW L \in Seq(Images), NEW i \in 0..Len(L), NEW k \in DOMAIN LockOf(L, i)
  PROVE  LockOf(L, i)[k].digest \in Digests
<1> DEFINE s == SubSeq(L, 1, i)
           places == PlacesOf(s, k)
<1>1. s \in Seq(Images) /\ Len(s) \in Nat /\ DOMAIN s = 1..Len(s)
  OBVIOUS
<1>2. k \in KeysOf(s) /\ LockOf(L, i)[k].digest = s[LastOf(places)].digest
  BY DEF LockOf, SynthesizedLockfile
<1> HIDE DEF s
<1>3. places \in SUBSET (1..Len(s)) /\ places # {}
  BY <1>1, <1>2 DEF KeysOf, PlacesOf
<1>4. LastOf(places) \in places
  <2>1. \E n \in places : \A m \in places : m <= n
    <3> HIDE DEF places
    <3> QED
      BY <1>1, <1>3, LargestIndex
  <2> QED
    BY <2>1 DEF LastOf
<1>5. s[LastOf(places)] \in Images
  BY <1>1, <1>3, <1>4
<1> QED
  BY <1>2, <1>5, ImagesAssumption DEF Images

\* What the layout gave once it would give again.
LEMMA LockOfGrown ==
  ASSUME NEW L \in Seq(Images), NEW m \in Images
  PROVE  /\ Append(L, m) \in Seq(Images) /\ Len(Append(L, m)) = Len(L) + 1
         /\ \A i \in 0..Len(L) : LockOf(Append(L, m), i) = LockOf(L, i)
<1>1. Append(L, m) \in Seq(Images) /\ Len(Append(L, m)) = Len(L) + 1 /\ Len(L) \in Nat
  OBVIOUS
<1>2. ASSUME NEW i \in 0..Len(L) PROVE SubSeq(Append(L, m), 1, i) = SubSeq(L, 1, i)
  <2>1. \A j \in 1..i : Append(L, m)[j] = L[j]
    OBVIOUS
  <2> QED
    BY <1>1, <2>1
<1> QED
  BY <1>1, <1>2 DEF LockOf

-----------------------------------------------------------------------------
(***************************************************************************)
(* The inductive invariant.  It is about one call, as an operator of its   *)
(* state and the layout.                                                   *)
(***************************************************************************)

\* A bundle is the one that the layout had for its key at some time since then.
IsCurrent(L, since, cell, n, d) ==
  \E i \in 0..Len(L) :
    /\ since <= i
    /\ <<KeyOf(n, cell.php), cell.arch>> \in DOMAIN LockOf(L, i)
    /\ d = LockOf(L, i)[<<KeyOf(n, cell.php), cell.arch>>].digest

\* Whatever a hit of the tool cache leads to is current: the core of the entry,
\* and the modules of its plan in the install directory.
BoxOk(b, L, since, cell) ==
  /\ DOMAIN b = {"base", "entries"}
  /\ DOMAIN b.base = {"got", "on", "ini"}
  /\ DOMAIN b.base.got = Names \cup {"php"}
  /\ \A h \in DOMAIN b.entries :
       /\ DOMAIN b.entries[h] = {"got", "on", "ini"}
       /\ IsCurrent(L, since, cell, "php", b.entries[h].got["php"])
       /\ h.ext \ Bundled[h.php] \subseteq Names
       /\ \A n \in h.ext \ Bundled[h.php] : IsCurrent(L, since, cell, n, b.base.got[n])

HasPassed(passed, cell, f) == \E run \in passed : run.cell = cell /\ run.fixture = f.name

\* A cell that the call counts is done when all that its container finds passed.
Counted(s, c) == Filter(s.request.fixtures, c.os, c.arch, c.php) # <<>>
Done(s, c) == Counted(s, c) => \A f \in FixturesFor(c) : HasPassed(s.passed, c, f)

\* Inside a container: each fixture of the cell is still to come, or a failure
\* is remembered, or it has passed.
InCell(s, L) ==
  /\ s.cells # <<>>
  /\ \E S : s.fixtures \in Seq(S)
  /\ \A i \in DOMAIN s.fixtures : s.fixtures[i] \in FixturesFor(s.cells[1])
  /\ \A f \in FixturesFor(s.cells[1]) :
       Among(f, s.fixtures) \/ s.failed \/ HasPassed(s.passed, s.cells[1], f)
  /\ BoxOk(s.box, L, s.since, s.cells[1])

\* The same of the cells of a call.
CellsOk(s) ==
  /\ s.request \in Requests
  /\ \E S : s.cells \in Seq(S)
  /\ \A c : Among(c, CellsOf(s.request)) =>
       Among(c, s.cells) \/ s.errs \/ Done(s, c)

PassOk(run, L) ==
  /\ run.since \in Nat
  /\ \A n \in DOMAIN run.got : IsCurrent(L, run.since, run.cell, n, run.got[n])

Phases == {"idle", "cells", "listed", "fixtures", "ok", "failed"}

Fields == {"phase", "cells", "fixtures", "box", "failed", "since", "errs", "request",
           "passed"}

CallOk(s, L) ==
  /\ DOMAIN s = Fields /\ s.phase \in Phases
  /\ s.since \in 0..Len(L) /\ s.failed \in BOOLEAN /\ s.errs \in BOOLEAN
  /\ s.phase = "fixtures" => InCell(s, L)
  /\ s.phase = "listed" => s.cells # <<>>
  /\ s.phase # "fixtures" => s.box = Fresh /\ s.failed = FALSE
  /\ s.phase # "idle" => CellsOk(s)
  /\ s.phase = "ok" => s.cells = <<>> /\ s.errs = FALSE
  /\ \A run \in s.passed : PassOk(run, L)

\* The lockfile in the work directory holds nothing or was made of the layout as
\* it was after what every cell under way goes back to, whichever call wrote it;
\* and so is each listing that a call has yet to write.
LockInv ==
  /\ \/ DOMAIN lock = {}
     \/ \E i \in 0..Len(layout) :
          /\ lock = LockOf(layout, i)
          /\ \A t \in Testers : suite[t].phase = "fixtures" => suite[t].since <= i
  /\ \A t, u \in Testers :
       suite[t].phase = "fixtures" /\ suite[u].phase = "listed"
         => suite[t].since <= suite[u].since

SuiteInv ==
  /\ layout \in Seq(Images) /\ faults \in 0..MaxFaults
  /\ DOMAIN suite = Testers
  /\ LockInv
  /\ \A t \in Testers : CallOk(suite[t], layout)

-----------------------------------------------------------------------------
(* What a step makes of the state of a call. *)

\* What is pushed to the layout does not make anything outdated afterwards.
LEMMA CurrentGrown ==
  ASSUME NEW L \in Seq(Images), NEW m \in Images,
         NEW since, NEW cell, NEW n, NEW d, IsCurrent(L, since, cell, n, d)
  PROVE  IsCurrent(Append(L, m), since, cell, n, d)
<1>1. PICK i \in 0..Len(L) :
        /\ since <= i
        /\ <<KeyOf(n, cell.php), cell.arch>> \in DOMAIN LockOf(L, i)
        /\ d = LockOf(L, i)[<<KeyOf(n, cell.php), cell.arch>>].digest
  BY DEF IsCurrent
<1>2. /\ Len(Append(L, m)) = Len(L) + 1 /\ LockOf(Append(L, m), i) = LockOf(L, i)
  BY LockOfGrown
<1>3. i \in 0..Len(Append(L, m))
  BY <1>2
<1> QED
  BY <1>1, <1>2, <1>3 DEF IsCurrent

LEMMA CallGrown ==
  ASSUME NEW L \in Seq(Images), NEW m \in Images, NEW s, CallOk(s, L)
  PROVE  CallOk(s, Append(L, m))
<1> DEFINE M == Append(L, m)
<1>1. \A since, cell, n, d : IsCurrent(L, since, cell, n, d) => IsCurrent(M, since, cell, n, d)
  BY CurrentGrown
<1>2. s.since \in 0..Len(M)
  <2>1. Len(M) = Len(L) + 1 /\ Len(L) \in Nat
    BY LockOfGrown
  <2> HIDE DEF M
  <2> QED
    BY <2>1 DEF CallOk
<1> HIDE DEF M
<1>3. s.phase = "fixtures" => InCell(s, M)
  BY <1>1 DEF CallOk, InCell, BoxOk
<1>4. \A run \in s.passed : PassOk(run, M)
  BY <1>1 DEF CallOk, PassOk
<1> QED
  BY <1>2, <1>3, <1>4 DEF CallOk, M

\* A call begins.
LEMMA CallBegun ==
  ASSUME NEW L \in Seq(Images), NEW r \in Requests
  PROVE  CallOk([Idle EXCEPT !.phase = "cells", !.request = r, !.cells = CellsOf(r)], L)
<1>1. \E S : CellsOf(r) \in Seq(S)
  <2> DEFINE os == SplitNormalizedOS(r.os)
             n == Len(SplitNormalizedArch(r.arch)) * Len(r.php)
             N == Len(os) * n
  <2>1. N \in Nat
    <3>1. \E S : r.os \in Seq(S) /\ r.arch \in Seq(S) /\ r.php \in Seq(Nat)
      BY RequestsAssumption
    <3>2. [h \in DOMAIN r.os |-> Codename(r.os[h])]
            \in Seq({Codename(r.os[h]) : h \in DOMAIN r.os})
      BY <3>1
    <3>3. [h \in DOMAIN r.arch |-> NormalizeArch(r.arch[h])]
            \in Seq({NormalizeArch(r.arch[h]) : h \in DOMAIN r.arch})
      BY <3>1
    <3>4. (\E S : os \in Seq(S)) /\ (\E S : SplitNormalizedArch(r.arch) \in Seq(S))
      BY <3>2, <3>3, AllSeen DEF SplitNormalizedOS, SplitNormalizedArch
    <3>5. Len(os) \in Nat /\ Len(SplitNormalizedArch(r.arch)) \in Nat /\ Len(r.php) \in Nat
      BY <3>1, <3>4
    <3>6. \A x, y \in Nat : x * y \in Nat
      OBVIOUS
    <3>7. n \in Nat
      BY <3>5, <3>6
    <3> HIDE DEF os, n
    <3> QED
      BY <3>5, <3>6, <3>7
  <2>2. PICK c : CellsOf(r) = [i \in 1..N |-> c[i]] /\ c = CellsOf(r)
    BY DEF CellsOf
  <2> HIDE DEF N
  <2>3. CellsOf(r) \in Seq({c[i] : i \in 1..N})
    BY <2>1, <2>2
  <2> QED
    BY <2>3
<1>2. 0 \in 0..Len(L)
  OBVIOUS
<1> QED
  BY <1>1, <1>2 DEF CallOk, CellsOk, Idle, Phases, Fields

\* A cell is over: its fixtures have passed, or the call fails.
LEMMA CallAfterCell ==
  ASSUME NEW L \in Seq(Images), NEW s, CallOk(s, L), s.phase \in {"cells", "listed", "fixtures"},
         s.cells # <<>>, NEW err \in BOOLEAN, err \/ Done(s, s.cells[1])
  PROVE  CallOk([s EXCEPT !.phase = "cells", !.cells = Tail(@), !.fixtures = <<>>,
                          !.box = Fresh, !.failed = FALSE, !.since = 0,
                          !.errs = @ \/ err], L)
<1> DEFINE q == [s EXCEPT !.phase = "cells", !.cells = Tail(@), !.fixtures = <<>>,
                          !.box = Fresh, !.failed = FALSE, !.since = 0,
                          !.errs = @ \/ err]
<1>1. DOMAIN s = Fields /\ CellsOk(s) /\ s.errs \in BOOLEAN
  BY DEF CallOk
<1>2. /\ DOMAIN q = Fields /\ q.phase = "cells" /\ q.cells = Tail(s.cells)
      /\ q.fixtures = <<>> /\ q.box = Fresh /\ q.failed = FALSE /\ q.since = 0
      /\ q.request = s.request /\ q.passed = s.passed
  BY <1>1 DEF Fields
<1>3. q.errs = (s.errs \/ err)
  BY <1>1 DEF Fields
<1> HIDE DEF q
<1>4. PICK S : s.cells \in Seq(S)
  BY <1>1 DEF CellsOk
<1>5. \A c : Among(c, s.cells) => c = s.cells[1] \/ Among(c, q.cells)
  BY <1>2, <1>4, AmongTail
<1>6. CellsOk(q)
  <2>1. \E T : q.cells \in Seq(T)
    BY <1>2, <1>4, TailPlaces
  <2> QED
    BY <1>1, <1>2, <1>3, <1>5, <2>1 DEF CellsOk, Done, Counted
<1>7. q.errs \in BOOLEAN
  BY <1>1, <1>3
<1>8. 0 \in 0..Len(L)
  OBVIOUS
<1> QED
  BY <1>2, <1>6, <1>7, <1>8 DEF CallOk, Phases, q

\* A call lists the layout for a cell.
LEMMA CallListed ==
  ASSUME NEW L \in Seq(Images), NEW s, CallOk(s, L), s.phase = "cells", s.cells # <<>>
  PROVE  CallOk([s EXCEPT !.phase = "listed", !.since = Len(L)], L)
<1> DEFINE q == [s EXCEPT !.phase = "listed", !.since = Len(L)]
<1>1. DOMAIN s = Fields
  BY DEF CallOk
<1>2. /\ DOMAIN q = Fields /\ q.phase = "listed" /\ q.cells = s.cells
      /\ q.box = s.box /\ q.failed = s.failed /\ q.since = Len(L)
      /\ q.request = s.request /\ q.passed = s.passed /\ q.errs = s.errs
  BY <1>1 DEF Fields
<1> HIDE DEF q
<1>3. Len(L) \in 0..Len(L)
  OBVIOUS
<1>4. CellsOk(q)
  BY <1>2 DEF CallOk, CellsOk, Done, Counted
<1> QED
  BY <1>2, <1>3, <1>4 DEF CallOk, Phases, q

\* A cell begins, in a container of its own.
LEMMA CallInCell ==
  ASSUME NEW L \in Seq(Images), NEW s, CallOk(s, L), s.phase = "listed",
         NEW n \in 0..Len(L)
  PROVE  CallOk([s EXCEPT !.phase = "fixtures",
                          !.fixtures = Filter(Fixtures, s.cells[1].os, s.cells[1].arch,
                                              s.cells[1].php),
                          !.since = n], L)
<1> DEFINE fs == Filter(Fixtures, s.cells[1].os, s.cells[1].arch, s.cells[1].php)
           q == [s EXCEPT !.phase = "fixtures", !.fixtures = fs, !.since = n]
<1>1. DOMAIN s = Fields
  BY DEF CallOk
<1>2. /\ DOMAIN q = Fields /\ q.phase = "fixtures" /\ q.cells = s.cells
      /\ q.fixtures = fs /\ q.box = s.box /\ q.failed = s.failed /\ q.since = n
      /\ q.request = s.request /\ q.passed = s.passed /\ q.errs = s.errs
  BY <1>1 DEF Fields
<1> HIDE DEF q
<1>3. InCell(q, L)
  <2>1. /\ \E T : fs \in Seq(T)
        /\ \A i \in DOMAIN fs : fs[i] \in FixturesFor(s.cells[1])
    BY Filtered, FixturesAssumption DEF FixturesFor, Among
  <2>2. \A f \in FixturesFor(s.cells[1]) : Among(f, fs)
    BY DEF FixturesFor
  <2>3. BoxOk(Fresh, L, n, s.cells[1])
    BY DEF BoxOk, Fresh, Bare
  <2> HIDE DEF fs
  <2> QED
    BY <1>2, <2>1, <2>2, <2>3 DEF InCell, CallOk
<1>4. CellsOk(q)
  BY <1>2 DEF CallOk, CellsOk, Done, Counted
<1> QED
  BY <1>2, <1>3, <1>4 DEF CallOk, Phases, q

\* A fixture is judged, in a container whose tool cache leads to what is current.
LEMMA CallJudged ==
  ASSUME NEW L \in Seq(Images), NEW s, CallOk(s, L), s.phase = "fixtures",
         s.fixtures # <<>>, NEW box, BoxOk(box, L, s.since, s.cells[1]),
         NEW run, run.cell = s.cells[1], run.fixture = s.fixtures[1].name,
         NEW ok \in BOOLEAN, ok => PassOk(run, L)
  PROVE  CallOk([s EXCEPT !.fixtures = Tail(@), !.box = box, !.failed = @ \/ ~ok,
                          !.passed = IF ok THEN @ \cup {run} ELSE @], L)
<1> DEFINE q == [s EXCEPT !.fixtures = Tail(@), !.box = box, !.failed = @ \/ ~ok,
                          !.passed = IF ok THEN @ \cup {run} ELSE @]
<1>1. DOMAIN s = Fields /\ CellsOk(s) /\ InCell(s, L) /\ s.failed \in BOOLEAN
  BY DEF CallOk
<1>2. /\ DOMAIN q = Fields /\ q.phase = s.phase /\ q.cells = s.cells
      /\ q.fixtures = Tail(s.fixtures) /\ q.box = box /\ q.since = s.since
      /\ q.request = s.request /\ q.errs = s.errs
  BY <1>1 DEF Fields
<1>3. q.passed = IF ok THEN s.passed \cup {run} ELSE s.passed
  BY <1>1 DEF Fields
<1>4. q.failed = (s.failed \/ ~ok)
  BY <1>1 DEF Fields
<1> HIDE DEF q
<1>5. q.failed \in BOOLEAN
  BY <1>1, <1>4
<1>6. \A c, f : HasPassed(s.passed, c, f) => HasPassed(q.passed, c, f)
  BY <1>3 DEF HasPassed
<1>7. PICK S : s.fixtures \in Seq(S)
  BY <1>1 DEF InCell
<1>8. \A f : Among(f, s.fixtures) => f = s.fixtures[1] \/ Among(f, q.fixtures)
  BY <1>2, <1>7, AmongTail
<1>9. q.failed = FALSE => HasPassed(q.passed, s.cells[1], s.fixtures[1])
  BY <1>3, <1>4 DEF HasPassed
<1>10. InCell(q, L)
  <2>1. /\ \E T : q.fixtures \in Seq(T)
        /\ \A i \in DOMAIN q.fixtures : q.fixtures[i] \in FixturesFor(s.cells[1])
    BY <1>1, <1>2, <1>7, TailPlaces DEF InCell
  <2>2. \A f \in FixturesFor(s.cells[1]) :
          Among(f, q.fixtures) \/ q.failed \/ HasPassed(q.passed, s.cells[1], f)
    BY <1>1, <1>4, <1>5, <1>6, <1>8, <1>9 DEF InCell
  <2> QED
    BY <1>1, <1>2, <2>1, <2>2 DEF InCell
<1>11. CellsOk(q)
  BY <1>1, <1>2, <1>6 DEF CellsOk, Done, Counted
<1>12. \A p \in q.passed : PassOk(p, L)
  BY <1>3 DEF CallOk
<1> QED
  BY <1>2, <1>5, <1>10, <1>11, <1>12 DEF CallOk, q

\* A call reports.
LEMMA CallReported ==
  ASSUME NEW L \in Seq(Images), NEW s, CallOk(s, L), s.phase = "cells", s.cells = <<>>
  PROVE  CallOk([s EXCEPT !.phase = IF s.errs THEN "failed" ELSE "ok"], L)
<1> DEFINE q == [s EXCEPT !.phase = IF s.errs THEN "failed" ELSE "ok"]
<1>1. DOMAIN s = Fields /\ s.errs \in BOOLEAN
  BY DEF CallOk
<1>2. /\ DOMAIN q = Fields /\ q.cells = s.cells
      /\ q.phase = (IF s.errs THEN "failed" ELSE "ok")
      /\ q.fixtures = s.fixtures /\ q.box = s.box /\ q.failed = s.failed
      /\ q.since = s.since /\ q.request = s.request /\ q.passed = s.passed
      /\ q.errs = s.errs
  BY <1>1 DEF Fields
<1> HIDE DEF q
<1>3. q.phase \in {"failed", "ok"} /\ (q.phase = "ok" => q.errs = FALSE)
  BY <1>1, <1>2
<1>4. CallOk(q, L)
  BY <1>2, <1>3 DEF CallOk, CellsOk, Phases, Done, Counted
<1> QED
  BY <1>4 DEF q

-----------------------------------------------------------------------------
(* What an install leaves in a container. *)

\* What a plan needs of the lockfile is current.
LEMMA NeededIsCurrent ==
  ASSUME NEW L \in Seq(Images), NEW i \in 0..Len(L), lock = LockOf(L, i),
         NEW since, since <= i, NEW cell, NEW p, p.php = cell.php, p.ts = "nts",
         Resolvable(p, LockFor(cell.arch))
  PROVE  /\ Separate(p) \subseteq Names
         /\ \A n \in Separate(p) \cup {"php"} :
              IsCurrent(L, since, cell, n, Needed(p, cell.arch)[n])
<1> DEFINE lf == LockFor(cell.arch)
<1>1. /\ PHPBundleKey(p.php, "nts") \in DOMAIN lf
      /\ Separate(p) \subseteq Catalog
      /\ \A e \in Separate(p) : ExtBundleKey(e, p.php, "nts") \in DOMAIN lf
      /\ CoreTS(p, lf) = "nts"
  BY DEF Resolvable, CoreTS, FallsBack
<1>2. \A k \in DOMAIN lf : <<k, cell.arch>> \in DOMAIN lock
                          /\ lf[k] = lock[<<k, cell.arch>>].digest
  BY DEF LockFor
<1> HIDE DEF lf
<1>3. ASSUME NEW n \in Separate(p) \cup {"php"}
      PROVE  IsCurrent(L, since, cell, n, Needed(p, cell.arch)[n])
  <2>1. KeyOf(n, cell.php) \in DOMAIN lf /\ Needed(p, cell.arch)[n] = lf[KeyOf(n, cell.php)]
    BY <1>1 DEF KeyOf, Needed, Resolve, lf
  <2> QED
    BY <1>2, <2>1 DEF IsCurrent
<1> QED
  BY <1>1, <1>3, CatalogAssumption

\* After an install the tool cache has an entry for the plan, whichever it was,
\* and all that its entries lead to is current.
LEMMA BoxInstalled ==
  ASSUME NEW L, NEW since, NEW cell, NEW b, BoxOk(b, L, since, cell),
         NEW p, NEW arch, Separate(p) \subseteq Names,
         \A n \in Separate(p) \cup {"php"} : IsCurrent(L, since, cell, n, Needed(p, arch)[n])
  PROVE  /\ BoxOk(Installed(b, p, arch), L, since, cell)
         /\ Hit(Installed(b, p, arch), p)
         /\ \A es : BoxOk([b EXCEPT !.base.got = Installed(b, p, arch).base.got,
                                   !.base.on = @ \cup es], L, since, cell)
<1> DEFINE new == Installed(b, p, arch)
           h == Hash(p)
           Fine(got, e) == \A n \in e.ext \ Bundled[e.php] : IsCurrent(L, since, cell, n, got[n])
<1>1. h.ext \ Bundled[h.php] = Separate(p)
  BY DEF Hash, Separate
<1>2. \A es : LET q == [b EXCEPT !.base.got = new.base.got, !.base.on = @ \cup es]
              IN  /\ DOMAIN q = DOMAIN b /\ q.entries = b.entries
                  /\ DOMAIN q.base = DOMAIN b.base /\ q.base.got = new.base.got
  BY DEF BoxOk
<1>3. CASE Hit(b, p)
  <2>1. new = b
    BY <1>3 DEF Installed
  <2> HIDE DEF new
  <2> QED
    BY <1>2, <1>3, <2>1 DEF BoxOk, new
<1>4. CASE ~Hit(b, p)
  <2> DEFINE need == Needed(p, arch)
             tree == Composed(b.base, p, need)
  <2>1. new = [base |-> tree,
               entries |-> [e \in DOMAIN b.entries \cup {h} |->
                              IF e = h THEN tree ELSE b.entries[e]]]
    BY <1>4 DEF Installed
  <2>2. DOMAIN need = Separate(p) \cup {"php"}
    BY DEF Needed
  <2> HIDE DEF need
  <2>3. /\ DOMAIN tree = {"got", "on", "ini"}
        /\ DOMAIN tree.got = Names \cup {"php"}
        /\ \A n \in Separate(p) \cup {"php"} : tree.got[n] = need[n]
        /\ \A n \in Names \ (Separate(p) \cup {"php"}) : tree.got[n] = b.base.got[n]
    BY <2>2 DEF Composed
  <2> HIDE DEF tree
  <2>4. \A n \in Separate(p) \cup {"php"} : IsCurrent(L, since, cell, n, tree.got[n])
    BY <2>3 DEF need
  <2>5. ASSUME NEW e \in DOMAIN b.entries PROVE Fine(tree.got, e)
    <3>1. e.ext \ Bundled[e.php] \subseteq Names /\ Fine(b.base.got, e)
      BY DEF BoxOk
    <3> QED
      BY <2>3, <2>4, <3>1
  <2>6. Fine(tree.got, h)
    BY <1>1, <2>4
  <2>7. BoxOk(new, L, since, cell) /\ Hit(new, p)
    <3>1. /\ DOMAIN new = {"base", "entries"} /\ new.base = tree
          /\ DOMAIN new.entries = DOMAIN b.entries \cup {h}
          /\ new.entries[h] = tree
          /\ \A e \in DOMAIN b.entries : e = h \/ new.entries[e] = b.entries[e]
      BY <2>1
    <3> HIDE DEF new, h
    <3>2. Hit(new, p)
      BY <3>1 DEF Hit, h
    <3>3. ASSUME NEW e \in DOMAIN new.entries
          PROVE  /\ DOMAIN new.entries[e] = {"got", "on", "ini"}
                 /\ IsCurrent(L, since, cell, "php", new.entries[e].got["php"])
                 /\ e.ext \ Bundled[e.php] \subseteq Names
                 /\ Fine(new.base.got, e)
      <4>1. CASE e = h
        BY <1>1, <2>3, <2>4, <2>6, <3>1, <4>1
      <4>2. CASE e # h
        BY <2>5, <3>1, <4>2 DEF BoxOk
      <4> QED
        BY <4>1, <4>2
    <3> QED
      BY <2>3, <3>1, <3>2, <3>3 DEF BoxOk
  <2>8. new.base.got = tree.got
    BY <2>1
  <2> HIDE DEF new
  <2>9. \A es : BoxOk([b EXCEPT !.base.got = new.base.got, !.base.on = @ \cup es],
                      L, since, cell)
    BY <1>2, <2>3, <2>5, <2>8 DEF BoxOk
  <2> QED
    BY <2>7, <2>9 DEF new
<1> QED
  BY <1>3, <1>4

\* What a plan with an entry uses is current.
LEMMA UsedIsCurrent ==
  ASSUME NEW L, NEW since, NEW cell, NEW b, BoxOk(b, L, since, cell), NEW p, Hit(b, p)
  PROVE  \A n \in Separate(p) \cup {"php"} : IsCurrent(L, since, cell, n, InUse(b, p).got[n])
<1> DEFINE h == Hash(p)
           got == InUse(b, p).got
<1>1. h \in DOMAIN b.entries /\ h.ext \ Bundled[h.php] = Separate(p)
  BY DEF Hit, Hash, Separate
<1>2. /\ DOMAIN b.entries[h] = {"got", "on", "ini"} /\ DOMAIN b.base.got = Names \cup {"php"}
      /\ IsCurrent(L, since, cell, "php", b.entries[h].got["php"])
      /\ Separate(p) \subseteq Names
      /\ \A n \in Separate(p) : IsCurrent(L, since, cell, n, b.base.got[n])
  BY <1>1 DEF BoxOk
<1>3. got = [b.base.got EXCEPT !["php"] = b.entries[h].got["php"]]
  BY <1>1, <1>2 DEF InUse, Hit
<1> HIDE DEF got
<1>4. /\ got["php"] = b.entries[h].got["php"]
      /\ \A n \in Separate(p) : n = "php" \/ got[n] = b.base.got[n]
  BY <1>2, <1>3
<1> HIDE DEF h
<1> QED
  BY <1>2, <1>4 DEF got

-----------------------------------------------------------------------------
(* The invariant is inductive. *)

LEMMA NothingLocked == DOMAIN SynthesizedLockfile(<<>>) = {}
  BY DEF SynthesizedLockfile, KeysOf

LEMMA SuiteInit == Init => SuiteInv
<1> SUFFICES ASSUME Init PROVE SuiteInv
  OBVIOUS
<1>1. FirstImages \in Seq(Images)
  <2>1. FirstImages \in Seq({FirstImages[i] : i \in DOMAIN FirstImages})
    BY ImagesAssumption DEF IsList
  <2> QED
    BY <2>1 DEF Images
<1>2. layout \in Seq(Images) /\ Len(layout) \in Nat
  BY <1>1 DEF Init
<1>3. CallOk(Idle, layout)
  BY <1>2 DEF CallOk, Idle, Phases, Fields
<1>4. \A t \in Testers : suite[t] = Idle
  BY DEF Init
<1>5. LockInv
  <2>1. \A t \in Testers : suite[t].phase = "idle"
    BY <1>4 DEF Idle
  <2> QED
    BY <2>1, NothingLocked DEF Init, LockInv
<1> QED
  BY <1>2, <1>3, <1>4, <1>5, BoundsAssumption DEF SuiteInv, Init

\* The step of one call that keeps its own invariant keeps all of it, as long as
\* it writes nothing, or nothing whole, or what it listed, and as a container that
\* begins goes back to the oldest listing.
LEMMA OneCall ==
  ASSUME SuiteInv, NEW t \in Testers, NEW q, suite' = [suite EXCEPT ![t] = q],
         CallOk(q, layout), layout' = layout, faults' \in 0..MaxFaults,
         \/ lock' = lock
         \/ DOMAIN lock' = {}
         \/ suite[t].phase = "listed" /\ lock' = LockOf(layout, suite[t].since),
         q.phase = "fixtures" =>
           \/ suite[t].phase = "fixtures" /\ q.since = suite[t].since
           \/ /\ suite[t].phase = "listed" /\ lock' = LockOf(layout, suite[t].since)
              /\ \A u \in Testers : suite[u].phase = "listed" => q.since <= suite[u].since,
         q.phase = "listed" => q.since = Len(layout)
  PROVE  SuiteInv'
<1>1. /\ DOMAIN suite = Testers /\ layout \in Seq(Images)
      /\ \A u \in Testers : CallOk(suite[u], layout) /\ suite[u].since \in 0..Len(layout)
      /\ q.since \in 0..Len(layout) /\ Len(layout) \in Nat
  BY DEF SuiteInv, CallOk
<1>2. /\ DOMAIN suite' = Testers
      /\ \A u \in Testers : suite'[u] = IF u = t THEN q ELSE suite[u]
  BY <1>1
<1>3. \A u, w \in Testers :
        suite[u].phase = "fixtures" /\ suite[w].phase = "listed"
          => suite[u].since <= suite[w].since
  BY DEF SuiteInv, LockInv
<1>4. \A u, w \in Testers :
        suite'[u].phase = "fixtures" /\ suite'[w].phase = "listed"
          => suite'[u].since <= suite'[w].since
  BY <1>1, <1>2, <1>3
<1>5. \/ DOMAIN lock' = {}
      \/ \E i \in 0..Len(layout') :
           /\ lock' = LockOf(layout', i)
           /\ \A u \in Testers : suite'[u].phase = "fixtures" => suite'[u].since <= i
  <2>1. CASE suite[t].phase = "listed" /\ lock' = LockOf(layout, suite[t].since)
    <3>1. \A u \in Testers :
            suite'[u].phase = "fixtures" => suite'[u].since <= suite[t].since
      BY <1>2, <1>3, <2>1
    <3> QED
      BY <1>1, <2>1, <3>1
  <2>2. CASE lock' = lock /\ ~(suite[t].phase = "listed"
                              /\ lock' = LockOf(layout, suite[t].since))
    <3>1. CASE DOMAIN lock = {}
      BY <2>2, <3>1
    <3>2. CASE DOMAIN lock # {}
      <4>1. PICK i \in 0..Len(layout) :
              /\ lock = LockOf(layout, i)
              /\ \A u \in Testers : suite[u].phase = "fixtures" => suite[u].since <= i
        BY <3>2 DEF SuiteInv, LockInv
      <4>2. \A u \in Testers : suite'[u].phase = "fixtures" => suite'[u].since <= i
        BY <1>2, <2>2, <4>1
      <4> QED
        BY <2>2, <4>1, <4>2
    <3> QED
      BY <3>1, <3>2
  <2>3. CASE DOMAIN lock' = {}
    BY <2>3
  <2> QED
    BY <2>1, <2>2, <2>3
<1>6. LockInv'
  BY <1>4, <1>5 DEF LockInv
<1>7. \A u \in Testers : CallOk(suite'[u], layout')
  BY <1>1, <1>2
<1> QED
  BY <1>1, <1>2, <1>6, <1>7 DEF SuiteInv

\* The fixture that a container is at is one of the file, for the version of
\* its cell.
LEMMA FixtureAtHand ==
  ASSUME NEW s, NEW L, InCell(s, L), s.fixtures # <<>>
  PROVE  /\ s.fixtures[1] \in {Fixtures[i] : i \in DOMAIN Fixtures}
         /\ s.fixtures[1].php = s.cells[1].php
<1>1. 1 \in DOMAIN s.fixtures
  <2>1. PICK S : s.fixtures \in Seq(S)
    BY DEF InCell
  <2> QED
    BY <2>1
<1>2. s.fixtures[1] \in FixturesFor(s.cells[1])
  BY <1>1 DEF InCell
<1> QED
  BY <1>2, Filtered, FixturesAssumption DEF FixturesFor, Among

\* Judging keeps the invariant when what the tool cache leads to is current and
\* nothing passes before it was installed.
LEMMA JudgedStep ==
  ASSUME SuiteInv, NEW t \in Testers,
         suite[t].phase = "fixtures", suite[t].fixtures # <<>>,
         NEW f, f = suite[t].fixtures[1],
         NEW box, BoxOk(box, layout, suite[t].since, suite[t].cells[1]),
         NEW ok \in BOOLEAN, ok => Hit(box, FixturePlan(f)),
         Judged(t, f, box, ok), UNCHANGED <<layout, lock>>, faults' \in 0..MaxFaults
  PROVE  SuiteInv'
<1> PICK s : s = suite[t]
  OBVIOUS
<1> PICK p : p = FixturePlan(f)
  OBVIOUS
<1> DEFINE tree == InUse(box, p)
           run == [cell |-> s.cells[1], fixture |-> f.name,
                   got |-> [n \in Separate(p) \cup {"php"} |-> tree.got[n]],
                   since |-> s.since]
           q == [s EXCEPT !.fixtures = Tail(@), !.box = box, !.failed = @ \/ ~ok,
                          !.passed = IF ok THEN @ \cup {run} ELSE @]
<1>1. suite' = [suite EXCEPT ![t] = q]
  BY DEF Judged, Become, Cell
<1>2. /\ layout \in Seq(Images) /\ CallOk(s, layout) /\ s.since \in Nat
      /\ DOMAIN s = Fields
  BY DEF SuiteInv, CallOk
<1>3. ok => PassOk(run, layout)
  <2> SUFFICES ASSUME ok PROVE PassOk(run, layout)
    OBVIOUS
  <2>1. \A n \in Separate(p) \cup {"php"} :
          IsCurrent(layout, s.since, s.cells[1], n, tree.got[n])
    BY UsedIsCurrent
  <2> HIDE DEF tree
  <2> QED
    BY <1>2, <2>1 DEF PassOk
<1>4. run.cell = s.cells[1] /\ run.fixture = s.fixtures[1].name
  OBVIOUS
<1>5. q.since = s.since /\ q.phase = "fixtures"
  BY <1>2 DEF Fields
<1>6. CallOk(q, layout)
  <2> HIDE DEF run
  <2> QED
    BY <1>2, <1>3, <1>4, CallJudged
<1> HIDE DEF q
<1> QED
  BY <1>1, <1>5, <1>6, OneCall

\* What an install finds in the lockfile is current.
LEMMA InstallOk ==
  ASSUME SuiteInv, NEW t \in Testers, suite[t].phase = "fixtures",
         NEW p, p.php = suite[t].cells[1].php, p.ts = "nts",
         Installable(suite[t].box, p, suite[t].cells[1].arch)
  PROVE  LET b == suite[t].box
             done == Installed(b, p, suite[t].cells[1].arch)
         IN  /\ BoxOk(done, layout, suite[t].since, suite[t].cells[1])
             /\ Hit(done, p)
             /\ \A es : BoxOk([b EXCEPT !.base.got = done.base.got, !.base.on = @ \cup es],
                             layout, suite[t].since, suite[t].cells[1])
<1> PICK s : s = suite[t]
  OBVIOUS
<1> PICK cell : cell = s.cells[1]
  OBVIOUS
<1>1. PICK i \in 0..Len(layout) : lock = LockOf(layout, i) /\ s.since <= i
  <2>1. PHPBundleKey(p.php, CoreTS(p, LockFor(cell.arch))) \in DOMAIN LockFor(cell.arch)
    BY DEF Installable, Resolvable
  <2>2. DOMAIN lock # {}
    BY <2>1 DEF LockFor
  <2> QED
    BY <2>2 DEF SuiteInv, LockInv
<1>2. layout \in Seq(Images) /\ BoxOk(s.box, layout, s.since, cell)
  BY DEF SuiteInv, CallOk, InCell
<1>3. Resolvable(p, LockFor(cell.arch))
  BY DEF Installable
<1>4. /\ Separate(p) \subseteq Names
      /\ \A n \in Separate(p) \cup {"php"} :
           IsCurrent(layout, s.since, cell, n, Needed(p, cell.arch)[n])
  BY <1>1, <1>2, <1>3, NeededIsCurrent
<1> QED
  BY <1>2, <1>4, BoxInstalled

LEMMA RunStep ==
  ASSUME SuiteInv, NEW t \in Testers, RunFixture(t)
  PROVE  SuiteInv'
<1>1. /\ suite[t].phase = "fixtures" /\ suite[t].fixtures # <<>>
      /\ layout' = layout /\ lock' = lock /\ faults' = faults /\ faults \in 0..MaxFaults
      /\ InCell(suite[t], layout)
      /\ BoxOk(suite[t].box, layout, suite[t].since, suite[t].cells[1])
  BY DEF RunFixture, SuiteInv, CallOk, InCell
<1> PICK f : f = suite[t].fixtures[1]
  OBVIOUS
<1> PICK p : p = FixturePlan(f)
  OBVIOUS
<1> PICK b : b = suite[t].box
  OBVIOUS
<1> PICK arch : arch = suite[t].cells[1].arch
  OBVIOUS
<1> PICK box : box = Installed(b, p, arch)
  OBVIOUS
<1> PICK ok : ok = AssertFixtureInvariants(f, InUse(box, p)) /\ ok \in BOOLEAN
  BY DEF AssertFixtureInvariants
<1>2. p.php = suite[t].cells[1].php /\ p.ts = "nts"
  BY <1>1, FixtureAtHand, PlanOfFixture
<1>3. CASE Installable(b, p, arch)
  <2>1. Judged(t, f, box, ok)
    BY <1>3 DEF RunFixture, Cell
  <2>2. BoxOk(box, layout, suite[t].since, suite[t].cells[1]) /\ Hit(box, p)
    BY <1>1, <1>2, <1>3, InstallOk
  <2> QED
    BY <1>1, <2>1, <2>2, JudgedStep
<1>4. CASE ~Installable(b, p, arch)
  <2>1. Judged(t, f, b, FALSE)
    BY <1>4 DEF RunFixture, Cell
  <2> QED
    BY <1>1, <2>1, JudgedStep
<1> QED
  BY <1>3, <1>4

LEMMA FailStep ==
  ASSUME SuiteInv, NEW t \in Testers, FixtureFails(t)
  PROVE  SuiteInv'
<1>1. /\ suite[t].phase = "fixtures" /\ suite[t].fixtures # <<>>
      /\ layout' = layout /\ lock' = lock
      /\ InCell(suite[t], layout)
      /\ BoxOk(suite[t].box, layout, suite[t].since, suite[t].cells[1])
  BY DEF FixtureFails, SuiteInv, CallOk, InCell
<1>2. faults' \in 0..MaxFaults
  <2>1. Fault
    BY DEF FixtureFails
  <2> QED
    BY <2>1, BoundsAssumption DEF Fault, SuiteInv
<1> PICK f : f = suite[t].fixtures[1]
  OBVIOUS
<1> PICK p : p = FixturePlan(f)
  OBVIOUS
<1> PICK b : b = suite[t].box
  OBVIOUS
<1> PICK arch : arch = suite[t].cells[1].arch
  OBVIOUS
<1> PICK done : done = Installed(b, p, arch)
  OBVIOUS
<1>3. p.php = suite[t].cells[1].php /\ p.ts = "nts"
  BY <1>1, FixtureAtHand, PlanOfFixture
<1>4. PICK box : /\ Judged(t, f, box, FALSE)
                 /\ \/ box = b
                    \/ /\ Installable(b, p, arch)
                       /\ \/ box = done
                          \/ \E es : box = [b EXCEPT !.base.got = done.base.got,
                                                   !.base.on = @ \cup es]
  BY DEF FixtureFails, Cell
<1>5. Installable(b, p, arch) =>
        /\ BoxOk(done, layout, suite[t].since, suite[t].cells[1])
        /\ \A es : BoxOk([b EXCEPT !.base.got = done.base.got, !.base.on = @ \cup es],
                        layout, suite[t].since, suite[t].cells[1])
  BY <1>1, <1>3, InstallOk
<1>6. BoxOk(box, layout, suite[t].since, suite[t].cells[1])
  <2>1. CASE box = b
    BY <1>1, <2>1
  <2>2. CASE Installable(b, p, arch) /\ box = done
    BY <1>5, <2>2
  <2>3. ASSUME Installable(b, p, arch),
               NEW es, box = [b EXCEPT !.base.got = done.base.got, !.base.on = @ \cup es]
        PROVE  BoxOk(box, layout, suite[t].since, suite[t].cells[1])
    BY <1>5, <2>3
  <2> QED
    BY <1>4, <2>1, <2>2, <2>3
<1> QED
  BY <1>1, <1>2, <1>4, <1>6, JudgedStep

\* The cell of a call that is over, for one of four reasons.
LEMMA OverStep ==
  ASSUME SuiteInv, NEW t \in Testers, NEW err \in BOOLEAN, CellOver(t, err),
         suite[t].phase \in {"cells", "listed", "fixtures"}, suite[t].cells # <<>>,
         err \/ Done(suite[t], suite[t].cells[1]),
         layout' = layout, faults' \in 0..MaxFaults,
         \/ lock' = lock
         \/ DOMAIN lock' = {}
         \/ suite[t].phase = "listed" /\ lock' = LockOf(layout, suite[t].since)
  PROVE  SuiteInv'
<1> PICK s : s = suite[t]
  OBVIOUS
<1> PICK q : q = [s EXCEPT !.phase = "cells", !.cells = Tail(@), !.fixtures = <<>>,
                           !.box = Fresh, !.failed = FALSE, !.since = 0,
                           !.errs = @ \/ err]
  OBVIOUS
<1>1. suite' = [suite EXCEPT ![t] = q]
  BY DEF CellOver, Become
<1>2. CallOk(s, layout) /\ layout \in Seq(Images) /\ DOMAIN s = Fields
  BY DEF SuiteInv, CallOk
<1>3. CallOk(q, layout)
  BY <1>2, CallAfterCell
<1>4. q.phase = "cells"
  BY <1>2 DEF Fields
<1> QED
  BY <1>1, <1>3, <1>4, OneCall

\* The oldest listing is one of those that are to be written.
LEMMA OldestIsFirst ==
  ASSUME SuiteInv, NEW t \in Testers, suite[t].phase = "listed"
  PROVE  /\ OldestListing \in 0..Len(layout)
         /\ \A u \in Testers : suite[u].phase = "listed" => OldestListing <= suite[u].since
<1> DEFINE N == {suite[u].since : u \in {u \in Testers : suite[u].phase = "listed"}}
<1>1. N \in SUBSET (0..Len(layout)) /\ N \in SUBSET Nat /\ suite[t].since \in N
  BY DEF SuiteInv, CallOk
<1>2. \A u \in Testers : suite[u].phase = "listed" => suite[u].since \in N
  OBVIOUS
<1>3. OldestListing = FirstOf(N)
  BY DEF OldestListing
<1> HIDE DEF N
<1>4. \E i \in N : \A j \in N : i <= j
  BY <1>1, SmallestIndex
<1>5. FirstOf(N) \in N /\ \A j \in N : FirstOf(N) <= j
  BY <1>4 DEF FirstOf
<1> QED
  BY <1>1, <1>2, <1>3, <1>5

LEMMA SuiteStep == SuiteInv /\ [Next]_vars => SuiteInv'
<1> SUFFICES ASSUME SuiteInv, [Next]_vars PROVE SuiteInv'
  OBVIOUS
<1>1. /\ layout \in Seq(Images) /\ faults \in 0..MaxFaults
      /\ DOMAIN suite = Testers /\ LockInv
      /\ \A t \in Testers : CallOk(suite[t], layout)
  BY DEF SuiteInv
<1>2. CASE UNCHANGED vars
  BY <1>2 DEF vars, SuiteInv, LockInv
<1>3. ASSUME NEW m \in Builds, PushImage(m) PROVE SuiteInv'
  <2>1. layout' = Append(layout, m) /\ lock' = lock /\ suite' = suite /\ faults' = faults
    BY <1>3 DEF PushImage, AppendImage
  <2>2. m \in Images
    BY DEF Images
  <2>3. \A t \in Testers : CallOk(suite[t], Append(layout, m))
    BY <1>1, <2>2, CallGrown
  <2>4. ASSUME DOMAIN lock = {} PROVE LockInv'
    BY <1>1, <2>1, <2>4 DEF LockInv
  <2>5. ASSUME DOMAIN lock # {} PROVE LockInv'
    <3>1. PICK i \in 0..Len(layout) :
            /\ lock = LockOf(layout, i)
            /\ \A t \in Testers : suite[t].phase = "fixtures" => suite[t].since <= i
      BY <1>1, <2>5 DEF LockInv
    <3>2. /\ LockOf(Append(layout, m), i) = LockOf(layout, i)
          /\ Len(Append(layout, m)) = Len(layout) + 1
      BY <1>1, <2>2, LockOfGrown
    <3>3. i \in 0..Len(layout')
      BY <2>1, <3>2
    <3> QED
      BY <1>1, <2>1, <3>1, <3>2, <3>3 DEF LockInv
  <2>6. LockInv'
    BY <2>4, <2>5
  <2> QED
    BY <1>1, <2>1, <2>2, <2>3, <2>6, LockOfGrown DEF SuiteInv
<1>4. ASSUME NEW t \in Testers, NEW r \in Requests, ParseTestFlags(t, r) PROVE SuiteInv'
  <2> PICK q : q = [Idle EXCEPT !.phase = "cells", !.request = r, !.cells = CellsOf(r)]
    OBVIOUS
  <2>1. /\ suite' = [suite EXCEPT ![t] = q]
        /\ layout' = layout /\ lock' = lock /\ faults' = faults
    BY <1>4 DEF ParseTestFlags, Become
  <2>2. CallOk(q, layout)
    BY <1>1, CallBegun
  <2>3. q.phase = "cells"
    BY DEF Idle
  <2> QED
    BY <1>1, <2>1, <2>2, <2>3, OneCall
<1>5. ASSUME NEW t \in Testers, SkipCell(t) PROVE SuiteInv'
  <2>2. Done(suite[t], suite[t].cells[1])
    BY <1>5 DEF SkipCell, Selected, Cell, Done, Counted
  <2>3. /\ CellOver(t, FALSE) /\ suite[t].phase = "cells" /\ suite[t].cells # <<>>
        /\ layout' = layout /\ lock' = lock /\ faults' = faults
    BY <1>5 DEF SkipCell
  <2> QED
    BY <1>1, <2>2, <2>3, OverStep
<1>6. ASSUME NEW t \in Testers, RefuseCell(t) PROVE SuiteInv'
  <2>1. /\ CellOver(t, TRUE) /\ suite[t].phase = "cells" /\ suite[t].cells # <<>>
        /\ layout' = layout /\ lock' = lock /\ faults' = faults
    BY <1>6 DEF RefuseCell
  <2> QED
    BY <1>1, <2>1, OverStep
<1>7. ASSUME NEW t \in Testers, ListLayout(t) PROVE SuiteInv'
  <2> PICK s : s = suite[t]
    OBVIOUS
  <2> PICK q : q = [s EXCEPT !.phase = "listed", !.since = Len(layout)]
    OBVIOUS
  <2>1. /\ suite' = [suite EXCEPT ![t] = q] /\ s.phase = "cells" /\ s.cells # <<>>
        /\ layout' = layout /\ lock' = lock /\ faults' = faults
    BY <1>7 DEF ListLayout, Become
  <2>2. CallOk(s, layout) /\ DOMAIN s = Fields
    BY <1>1 DEF CallOk
  <2>3. CallOk(q, layout)
    BY <1>1, <2>1, <2>2, CallListed
  <2>4. q.since = Len(layout) /\ q.phase = "listed"
    BY <2>2 DEF Fields
  <2> QED
    BY <1>1, <2>1, <2>3, <2>4, OneCall
<1>8. ASSUME NEW t \in Testers, StartCell(t) PROVE SuiteInv'
  <2> PICK s : s = suite[t]
    OBVIOUS
  <2> PICK n : n = OldestListing
    OBVIOUS
  <2> PICK q : q = [s EXCEPT !.phase = "fixtures",
                             !.fixtures = Filter(Fixtures, s.cells[1].os, s.cells[1].arch,
                                                 s.cells[1].php),
                             !.since = n]
    OBVIOUS
  <2>1. /\ suite' = [suite EXCEPT ![t] = q] /\ s.phase = "listed"
        /\ layout' = layout /\ faults' = faults /\ lock' = LockOf(layout, s.since)
    BY <1>8 DEF StartCell, Become, Mounted, Cell, Listed, LockOf
  <2>2. /\ n \in 0..Len(layout)
        /\ \A u \in Testers : suite[u].phase = "listed" => n <= suite[u].since
    BY <2>1, OldestIsFirst
  <2>3. CallOk(s, layout) /\ DOMAIN s = Fields
    BY <1>1 DEF CallOk
  <2>4. CallOk(q, layout)
    BY <1>1, <2>1, <2>2, <2>3, CallInCell
  <2>5. q.since = n /\ q.phase = "fixtures"
    BY <2>3 DEF Fields
  <2>6. /\ suite[t].phase = "listed" /\ lock' = LockOf(layout, suite[t].since)
        /\ \A u \in Testers : suite[u].phase = "listed" => q.since <= suite[u].since
        /\ faults' \in 0..MaxFaults
    BY <1>1, <2>1, <2>2, <2>5
  <2>7. suite' = [suite EXCEPT ![t] = q] /\ layout' = layout /\ q.phase # "listed"
    BY <2>1, <2>5
  <2> QED
    BY <2>4, <2>6, <2>7, OneCall
<1>9. ASSUME NEW t \in Testers, CellFails(t) PROVE SuiteInv'
  <2>1. faults' \in 0..MaxFaults
    <3>1. Fault
      BY <1>9 DEF CellFails
    <3> QED
      BY <1>1, <3>1, BoundsAssumption DEF Fault
  <2>2. CellOver(t, TRUE) /\ layout' = layout
    BY <1>9 DEF CellFails
  <2>3. suite[t].phase \in {"cells", "listed", "fixtures"} /\ suite[t].cells # <<>>
    BY <1>1, <1>9 DEF CellFails, CallOk, InCell
  <2>4. \/ lock' = lock
        \/ DOMAIN lock' = {}
        \/ suite[t].phase = "listed" /\ lock' = LockOf(layout, suite[t].since)
    BY <1>9, NothingLocked DEF CellFails, Listed, LockOf
  <2> QED
    BY <2>1, <2>2, <2>3, <2>4, OverStep
<1>10. ASSUME NEW t \in Testers, EndCell(t) PROVE SuiteInv'
  <2>1. /\ CellOver(t, suite[t].failed) /\ suite[t].phase = "fixtures"
        /\ suite[t].fixtures = <<>>
        /\ layout' = layout /\ lock' = lock /\ faults' = faults
    BY <1>10 DEF EndCell
  <2>2. CallOk(suite[t], layout) /\ InCell(suite[t], layout)
    BY <1>1, <2>1 DEF CallOk
  <2>3. \A f : ~Among(f, suite[t].fixtures)
    BY <2>1 DEF Among
  <2>4. \A f \in FixturesFor(suite[t].cells[1]) :
          suite[t].failed \/ HasPassed(suite[t].passed, suite[t].cells[1], f)
    BY <2>2, <2>3 DEF InCell
  <2>5. suite[t].failed \in BOOLEAN /\ suite[t].cells # <<>>
    BY <2>2 DEF CallOk, InCell
  <2>6. suite[t].failed \/ Done(suite[t], suite[t].cells[1])
    BY <2>4 DEF Done
  <2> PICK err \in BOOLEAN : err = suite[t].failed
    BY <2>5
  <2> QED
    BY <1>1, <2>1, <2>5, <2>6, OverStep
<1>11. ASSUME NEW t \in Testers, Report(t) PROVE SuiteInv'
  <2> PICK s : s = suite[t]
    OBVIOUS
  <2> PICK q : q = [s EXCEPT !.phase = IF s.errs THEN "failed" ELSE "ok"]
    OBVIOUS
  <2>1. /\ suite' = [suite EXCEPT ![t] = q] /\ s.phase = "cells" /\ s.cells = <<>>
        /\ layout' = layout /\ lock' = lock /\ faults' = faults
    BY <1>11 DEF Report, Become
  <2>2. CallOk(q, layout)
    BY <1>1, <2>1, CallReported
  <2>3. q.phase \in {"failed", "ok"}
    BY <1>1 DEF CallOk, Fields
  <2> QED
    BY <1>1, <2>1, <2>2, <2>3, OneCall
<1> QED
  BY <1>2, <1>3, <1>4, <1>5, <1>6, <1>7, <1>8, <1>9, <1>10, <1>11, RunStep, FailStep
  DEF Next

LEMMA SuiteInvariant == Spec => []SuiteInv
<1> QED
  BY SuiteInit, SuiteStep, PTL DEF Spec

-----------------------------------------------------------------------------
(* What follows from it. *)

LEMMA InvTyped == SuiteInv => TypeOK
<1> SUFFICES ASSUME SuiteInv PROVE TypeOK
  OBVIOUS
<1>1. layout \in Seq(Images) /\ faults \in 0..MaxFaults
  BY DEF SuiteInv
<1>2. \A k \in DOMAIN lock : lock[k].digest \in Digests
  BY <1>1, LockedAreBuilt DEF SuiteInv, LockInv
<1>3. ASSUME NEW t \in Testers
      PROVE  /\ suite[t].phase \in {"idle", "cells", "listed", "fixtures", "ok", "failed"}
             /\ suite[t].phase \in {"listed", "fixtures"} => suite[t].cells # <<>>
             /\ suite[t].since \in 0 .. Len(layout)
             /\ \A run \in suite[t].passed : \A n \in DOMAIN run.got : run.got[n] \in Digests
  <2>1. CallOk(suite[t], layout)
    BY DEF SuiteInv
  <2>2. \A since, cell, n, d : IsCurrent(layout, since, cell, n, d) => d \in Digests
    BY <1>1, LockedAreBuilt DEF IsCurrent
  <2>3. suite[t].phase \in {"listed", "fixtures"} => suite[t].cells # <<>>
    BY <2>1 DEF CallOk, InCell
  <2> QED
    BY <2>1, <2>2, <2>3 DEF CallOk, PassOk, Phases
<1> QED
  BY <1>1, <1>2, <1>3 DEF TypeOK

\* What the lockfile and the passed fixtures name are digests of the layout, a
\* container is always one of a cell, and no call has listed more than there is.
THEOREM TypeCorrect == Spec => []TypeOK
<1> QED
  BY SuiteInvariant, InvTyped, PTL

\* A cell goes by other names for what was asked for.
LEMMA OtherNames ==
  ASSUME NEW o, NEW a
  PROVE  Same(Codename(o), o, Machines) /\ Same(NormalizeArch(a), a, Processors)
  BY DEF Same, Machines, Processors, Codename, NormalizeArch

LEMMA InvNothingSkipped == SuiteInv => NothingWasSkipped
<1> SUFFICES ASSUME SuiteInv, NEW t \in Testers, suite[t].phase = "ok",
                    NEW o \in Range(suite[t].request.os), NEW a \in Range(suite[t].request.arch),
                    NEW v \in Range(suite[t].request.php),
                    NEW g \in Range(suite[t].request.fixtures), IsFor(g, o, a, v),
                    NEW f \in Range(Fixtures), IsFor(f, o, a, v)
             PROVE  \E run \in suite[t].passed :
                      /\ run.fixture = f.name /\ run.cell.php = v
                      /\ Same(run.cell.os, o, Machines) /\ Same(run.cell.arch, a, Processors)
  BY DEF NothingWasSkipped
<1> PICK s : s = suite[t]
  OBVIOUS
<1> PICK r : r = s.request
  OBVIOUS
<1>1. CellsOk(s) /\ s.cells = <<>> /\ s.errs = FALSE
  BY DEF SuiteInv, CallOk
<1>2. r \in Requests
  BY <1>1 DEF CellsOk
<1>3. PICK i \in DOMAIN r.os : o = r.os[i]
  BY DEF Range
<1>4. PICK j \in DOMAIN r.arch : a = r.arch[j]
  BY DEF Range
<1>5. PICK k \in DOMAIN r.php : v = r.php[k]
  BY DEF Range
<1> PICK c : c = [os |-> Codename(o), arch |-> NormalizeArch(a), php |-> v]
  OBVIOUS
<1>6. Among(c, CellsOf(r))
  BY <1>2, <1>3, <1>4, <1>5, EveryCell
<1>7. Done(s, c)
  BY <1>1, <1>6 DEF CellsOk, Among
<1>10. Counted(s, c)
  <2>1. g \in {r.fixtures[n] : n \in DOMAIN r.fixtures} /\ IsList(r.fixtures)
    BY <1>2, RequestsAssumption DEF Range
  <2>2. Among(g, Filter(r.fixtures, c.os, c.arch, c.php))
    BY <1>2, <1>3, <1>4, <2>1, FoundByAnyName
  <2> QED
    BY <2>2 DEF Counted, Among
<1>8. f \in FixturesFor(c)
  <2>1. f \in {Fixtures[n] : n \in DOMAIN Fixtures} /\ IsList(Fixtures)
    BY FixturesAssumption DEF Range
  <2>2. Among(f, Filter(Fixtures, c.os, c.arch, c.php))
    BY <1>2, <1>3, <1>4, <2>1, FoundByAnyName
  <2> QED
    BY <2>1, <2>2 DEF FixturesFor
<1>9. PICK run \in s.passed : run.cell = c /\ run.fixture = f.name
  BY <1>7, <1>8, <1>10 DEF Done, HasPassed
<1> QED
  BY <1>9, OtherNames

\* Whatever the fixtures and whatever the call asks for, by whatever names and
\* how often, a call that ends well has passed every fixture of the repository
\* for each machine and version that its own file has something for, on that
\* machine (runAllCells, Filter on both sides, RunTestCell).
THEOREM NothingSkipped == Spec => []NothingWasSkipped
<1> QED
  BY SuiteInvariant, InvNothingSkipped, PTL

LEMMA InvCurrent == SuiteInv => TestedAreCurrent
<1> SUFFICES ASSUME SuiteInv, NEW t \in Testers, NEW run \in suite[t].passed,
                    NEW n \in DOMAIN run.got
             PROVE  \E i \in run.since .. Len(layout) :
                      run.got[n] = LockedAt(i, KeyOf(n, run.cell.php), run.cell.arch)
  BY DEF TestedAreCurrent
<1>1. run.since \in Nat /\ IsCurrent(layout, run.since, run.cell, n, run.got[n])
  BY DEF SuiteInv, CallOk, PassOk
<1>2. Len(layout) \in Nat
  BY DEF SuiteInv
<1>3. PICK i \in 0..Len(layout) :
        /\ run.since <= i
        /\ run.got[n] = LockOf(layout, i)[<<KeyOf(n, run.cell.php), run.cell.arch>>].digest
  BY <1>1 DEF IsCurrent
<1>4. i \in run.since .. Len(layout)
  BY <1>1, <1>2, <1>3
<1> QED
  BY <1>3, <1>4 DEF LockedAt, LockOf

\* Whatever is built meanwhile, whichever call wrote the lockfile last and
\* whatever the tool cache of the container holds, no fixture passes on a bundle
\* older than the oldest listing of the layout that some call had still to write
\* when its cell began, its own among them (buildCellMounts, WriteSynthesized).
THEOREM PassesAreCurrent == Spec => []TestedAreCurrent
<1> QED
  BY SuiteInvariant, InvCurrent, PTL
=============================================================================

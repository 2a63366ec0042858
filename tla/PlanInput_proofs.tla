-------------------------- MODULE PlanInput_proofs --------------------------
(***************************************************************************)
(* Proofs about PlanInput for every list of tokens, of any length and in   *)
(* any order, and all other inputs.                                        *)
(***************************************************************************)
EXTENDS PlanInput, SharedFacts, TLAPS

-----------------------------------------------------------------------------
\* Different tokens are different.
LEMMA TokenKinds ==
  /\ \A n, m : Include(n) = Include(m) <=> n = m
  /\ \A n, m : Exclude(n) = Exclude(m) <=> n = m
  /\ \A n, m : Include(n) # Exclude(m)
  /\ \A n : Include(n) # None /\ Exclude(n) # None
  /\ \A n : Include(n) # Empty /\ Exclude(n) # Empty
  /\ None # Empty
<1>1. /\ \A n : Include(n).kind = "include" /\ Include(n).name = n
      /\ \A n : Exclude(n).kind = "exclude" /\ Exclude(n).name = n
      /\ None.kind = "none" /\ Empty.kind = "empty"
  BY DEF Include, Exclude, None, Empty
<1> QED
  BY <1>1

\* One turn of the loop, by the kind of the token.
LEMMA ParsedToken ==
  ASSUME NEW p
  PROVE  /\ Parsed(p, Empty) = p
         /\ Parsed(p, None) = [p EXCEPT !.ext = {}, !.excl = {}, !.reset = TRUE]
         /\ \A n : Parsed(p, Include(n)) = [p EXCEPT !.ext = @ \cup {n}]
         /\ \A n : Parsed(p, Exclude(n)) = [p EXCEPT !.excl = @ \cup {n}]
<1>1. Parsed(p, Empty) = p
  BY DEF Parsed, Empty
<1>2. Parsed(p, None) = [p EXCEPT !.ext = {}, !.excl = {}, !.reset = TRUE]
  BY DEF Parsed, None
<1>3. ASSUME NEW n
      PROVE  Parsed(p, Include(n)) = [p EXCEPT !.ext = @ \cup {n}]
  BY DEF Parsed, Include
<1>4. ASSUME NEW n
      PROVE  Parsed(p, Exclude(n)) = [p EXCEPT !.excl = @ \cup {n}]
  BY DEF Parsed, Exclude
<1> QED
  BY <1>1, <1>2, <1>3, <1>4

\* Parsing and coverage make plans of plans.
LEMMA PlanKept ==
  ASSUME NEW p \in Plan
  PROVE  /\ \A t \in Token : Parsed(p, t) \in Plan
         /\ ApplyCoverage(p) \in Plan
<1>1. Parsed(p, Empty) \in Plan /\ Parsed(p, None) \in Plan
  BY ParsedToken DEF Plan
<1>2. \A n \in Names : [p EXCEPT !.ext = p.ext \cup {n}] \in Plan
                       /\ [p EXCEPT !.excl = p.excl \cup {n}] \in Plan
  BY DEF Plan
<1>3. ASSUME NEW t \in Token PROVE Parsed(p, t) \in Plan
  <2>1. ASSUME NEW n \in Names
        PROVE  Parsed(p, Include(n)) \in Plan /\ Parsed(p, Exclude(n)) \in Plan
    <3>1. Parsed(p, Include(n)) = [p EXCEPT !.ext = p.ext \cup {n}]
      BY ParsedToken
    <3>2. Parsed(p, Exclude(n)) = [p EXCEPT !.excl = p.excl \cup {n}]
      BY ParsedToken
    <3> QED
      BY <1>2, <3>1, <3>2
  <2> QED
    BY <1>1, <2>1 DEF Token
<1>4. ApplyCoverage(p) \in Plan
  <2>1. {"xdebug", "pcov"} \subseteq Names
    BY DriversAssumption
  <2>2. \A x, y \in SUBSET Names : [p EXCEPT !.ext = x, !.excl = y] \in Plan
                                   /\ [p EXCEPT !.excl = y] \in Plan
    BY DEF Plan
  <2>3. p.coverage \in Coverage /\ p.ext \subseteq Names /\ p.excl \subseteq Names
    BY DEF Plan
  <2> QED
    BY <2>1, <2>2, <2>3 DEF ApplyCoverage, Coverage
<1> QED
  BY <1>3, <1>4

-----------------------------------------------------------------------------
LEMMA TypeStep == TypeOK /\ [Next]_vars => TypeOK'
<1> SUFFICES ASSUME TypeOK, [Next]_vars PROVE TypeOK'
  OBVIOUS
<1> USE DEF TypeOK
<1>1. CASE UNCHANGED vars
  BY <1>1 DEF vars
<1>2. CASE ReadEnv
  <2>1. CASE input.coverage = Invalid
    BY <1>2, <2>1 DEF ReadEnv
  <2>2. CASE input.coverage # Invalid
    <3> DEFINE v == IF input.version = Unset THEN plan.php ELSE input.version
               c == IF input.coverage = Unset THEN plan.coverage
                    ELSE input.coverage
    <3>1. v \in Versions /\ c \in Coverage
      BY <2>2 DEF Inputs, Plan
    <3>2. plan' = [plan EXCEPT !.php = v, !.coverage = c]
      BY <1>2, <2>2 DEF ReadEnv, Plan
    <3> HIDE DEF v, c
    <3>3. plan' \in Plan
      BY <3>1, <3>2 DEF Plan
    <3> QED
      BY <1>2, <2>2, <3>3 DEF ReadEnv
  <2> QED
    BY <2>1, <2>2
<1>3. CASE ReadVersionFile
  <2>1. plan' \in Plan
    BY <1>3 DEF ReadVersionFile, Plan
  <2> QED
    BY <1>3, <2>1 DEF ReadVersionFile
<1>4. ASSUME NEW t \in Token, ReadToken(t) PROVE TypeOK'
  <2>1. tokens' \in Seq(Token) /\ Len(tokens') = Len(tokens) + 1
    BY <1>4 DEF ReadToken
  <2>2. Len(tokens) \in Nat /\ Len(tokens) < MaxTokens /\ MaxTokens \in Nat
    BY <1>4, DefaultAssumption DEF ReadToken
  <2>3. plan' \in Plan
    BY <1>4, PlanKept DEF ReadToken
  <2> QED
    BY <1>4, <2>1, <2>2, <2>3 DEF ReadToken
<1>5. CASE ReadIniValues
  <2>1. plan' \in Plan
    BY <1>5 DEF ReadIniValues, Plan, Inputs
  <2> QED
    BY <1>5, <2>1 DEF ReadIniValues
<1>6. CASE AddCoverage
  BY <1>6, PlanKept DEF AddCoverage
<1> QED
  BY <1>1, <1>2, <1>3, <1>4, <1>5, <1>6 DEF Next

LEMMA InitType == Init => TypeOK
  BY DefaultAssumption DEF Init, TypeOK, Plan, ThreadSafety, Coverage, IniFiles

(***************************************************************************)
(* Whatever is read, in the environment, a version file or the list, what  *)
(* is built is a plan.                                                     *)
(***************************************************************************)
THEOREM TypeCorrect == Spec => []TypeOK
  BY InitType, TypeStep, PTL DEF Spec

-----------------------------------------------------------------------------
(***************************************************************************)
(* One token more: a "none" voids what came before it, any other token     *)
(* counts besides what counted already.                                    *)
(***************************************************************************)
LEMMA OneMore ==
  ASSUME tokens \in Seq(Token), NEW t \in Token, tokens' = Append(tokens, t)
  PROVE  /\ (Resets # {})' <=> (Resets # {} \/ t = None)
         /\ \A u \in Token \ {None} :
              Counts(u)' <=> (t = u \/ (Counts(u) /\ t # None))
<1> DEFINE new == Append(tokens, t)
           k   == Len(tokens) + 1
<1>1. /\ DOMAIN tokens = 1..Len(tokens) /\ Len(tokens) \in Nat
      /\ DOMAIN new = 1..k
      /\ \A i \in DOMAIN tokens : new[i] = tokens[i]
      /\ new[k] = t
  BY Appended
<1>2. /\ k \in DOMAIN new /\ k \notin DOMAIN tokens /\ k \in Nat
      /\ DOMAIN new = DOMAIN tokens \cup {k}
      /\ \A i \in DOMAIN tokens : i \in Nat /\ i < k
  BY <1>1
<1>3. Resets' = IF t = None THEN Resets \cup {k} ELSE Resets
  BY <1>1, <1>2 DEF Resets
<1>4. Resets \subseteq DOMAIN tokens
  BY DEF Resets
<1> HIDE DEF k
<1>5. ASSUME NEW u \in Token \ {None}
      PROVE  Counts(u)' <=> (t = u \/ (Counts(u) /\ t # None))
  <2>0. Counts(u)' <=> \E i \in DOMAIN new : new[i] = u /\ \A j \in Resets' : j < i
    BY DEF Counts
  <2> HIDE DEF new
  <2>1. CASE t = None
    <3>1. \A i \in DOMAIN new : ~(k < i)
      BY <1>2
    <3>2. k \in Resets'
      BY <1>3, <2>1
    <3> QED
      BY <2>0, <2>1, <3>1, <3>2
  <2>2. CASE t # None
    <3>1. Resets' = Resets
      BY <1>3, <2>2
    <3>2. CASE t = u
      <4>1. \A j \in Resets' : j < k
        BY <1>2, <1>4, <3>1
      <4> QED
        BY <1>1, <1>2, <2>0, <3>2, <4>1
    <3>3. CASE t # u
      <4>1. Counts(u)' <=> \E i \in DOMAIN tokens :
                             tokens[i] = u /\ \A j \in Resets : j < i
        BY <1>1, <1>2, <2>0, <3>1, <3>3
      <4> QED
        BY <2>2, <3>3, <4>1 DEF Counts
    <3> QED
      BY <3>2, <3>3
  <2> QED
    BY <2>1, <2>2
<1> QED
  BY <1>3, <1>5

(***************************************************************************)
(* The inductive invariant.  Up to the coverage side effects the list      *)
(* alone decides on every name, drivers included; after them a driver is   *)
(* also in the includes or in the excludes by what coverage says.          *)
(***************************************************************************)
AsListed(p) ==
  /\ p.reset = (Resets # {})
  /\ \A n \in Names : n \in p.ext <=> Counts(Include(n))
  /\ \A n \in Names : n \in p.excl <=> Counts(Exclude(n))

AsCovered(p) ==
  /\ p.reset = (Resets # {})
  /\ \A n \in Names :
       n \in p.ext <=> Counts(Include(n)) \/ (n \in Drivers /\ n = p.coverage)
  /\ \A n \in Names :
       n \in p.excl <=> Counts(Exclude(n)) \/ (n \in Drivers /\ n # p.coverage)

InputInv ==
  /\ phase \in {"env", "file"} => tokens = <<>>
  /\ phase \in {"env", "file", "tokens", "coverage"} => AsListed(plan)
  /\ phase = "ready" => AsCovered(plan)
  /\ phase = "env" => plan.coverage = "none"
  /\ phase \in {"file", "tokens", "coverage", "ready"} =>
       plan.coverage = IF input.coverage = Unset THEN "none" ELSE input.coverage

\* What decides on the list is not in the other inputs.
LEMMA SameList ==
  ASSUME NEW p \in Plan, NEW q \in Plan, p.reset = q.reset, p.ext = q.ext,
         p.excl = q.excl, AsListed(p)
  PROVE  AsListed(q)
  BY DEF AsListed

LEMMA ListStep ==
  ASSUME TypeOK, AsListed(plan), NEW t \in Token, ReadToken(t)
  PROVE  AsListed(plan)' /\ plan'.coverage = plan.coverage
<1>1. /\ tokens \in Seq(Token) /\ tokens' = Append(tokens, t)
      /\ plan' = Parsed(plan, t) /\ plan \in Plan
  BY DEF TypeOK, ReadToken
<1>2. \A n \in Names : Include(n) \in Token \ {None}
                       /\ Exclude(n) \in Token \ {None}
  BY TokenKinds DEF Token
<1>3. /\ (Resets # {})' <=> (Resets # {} \/ t = None)
      /\ \A n \in Names : Counts(Include(n))' <=>
           (t = Include(n) \/ (Counts(Include(n)) /\ t # None))
      /\ \A n \in Names : Counts(Exclude(n))' <=>
           (t = Exclude(n) \/ (Counts(Exclude(n)) /\ t # None))
  BY <1>1, <1>2, OneMore
<1>4. CASE t = Empty
  <2>1. plan' = plan
    BY <1>1, <1>4, ParsedToken, TokenKinds
  <2> QED
    BY <1>3, <1>4, <2>1, TokenKinds DEF AsListed
<1>5. CASE t = None
  <2>1. plan' = [plan EXCEPT !.ext = {}, !.excl = {}, !.reset = TRUE]
    BY <1>1, <1>5, ParsedToken, TokenKinds
  <2>2. plan'.ext = {} /\ plan'.excl = {} /\ plan'.reset = TRUE
        /\ plan'.coverage = plan.coverage
    BY <1>1, <2>1 DEF Plan
  <2> QED
    BY <1>3, <1>5, <2>2, TokenKinds DEF AsListed
<1>6. ASSUME NEW n \in Names, t = Include(n)
      PROVE  AsListed(plan)' /\ plan'.coverage = plan.coverage
  <2>1. plan' = [plan EXCEPT !.ext = @ \cup {n}]
    BY <1>1, <1>6, ParsedToken, TokenKinds
  <2>2. plan'.ext = plan.ext \cup {n} /\ plan'.excl = plan.excl
        /\ plan'.reset = plan.reset /\ plan'.coverage = plan.coverage
    BY <1>1, <2>1 DEF Plan
  <2> QED
    BY <1>3, <1>6, <2>2, TokenKinds DEF AsListed
<1>7. ASSUME NEW n \in Names, t = Exclude(n)
      PROVE  AsListed(plan)' /\ plan'.coverage = plan.coverage
  <2>1. plan' = [plan EXCEPT !.excl = @ \cup {n}]
    BY <1>1, <1>7, ParsedToken, TokenKinds
  <2>2. plan'.excl = plan.excl \cup {n} /\ plan'.ext = plan.ext
        /\ plan'.reset = plan.reset /\ plan'.coverage = plan.coverage
    BY <1>1, <2>1 DEF Plan
  <2> QED
    BY <1>3, <1>7, <2>2, TokenKinds DEF AsListed
<1> QED
  BY <1>4, <1>5, <1>6, <1>7 DEF Token

\* The coverage side effects add what they should to the list's decisions.
LEMMA Covering ==
  ASSUME NEW p \in Plan, AsListed(p)
  PROVE  AsCovered(ApplyCoverage(p)) /\ ApplyCoverage(p).coverage = p.coverage
<1>1. CASE p.coverage = "xdebug"
  <2>1. ApplyCoverage(p) = [p EXCEPT !.ext = @ \cup {"xdebug"},
                                     !.excl = @ \cup {"pcov"}]
    BY <1>1 DEF ApplyCoverage
  <2> QED
    BY <1>1, <2>1 DEF Plan, AsListed, AsCovered, Drivers
<1>2. CASE p.coverage = "pcov"
  <2>1. ApplyCoverage(p) = [p EXCEPT !.ext = @ \cup {"pcov"},
                                     !.excl = @ \cup {"xdebug"}]
    BY <1>2 DEF ApplyCoverage
  <2> QED
    BY <1>2, <2>1 DEF Plan, AsListed, AsCovered, Drivers
<1>3. CASE p.coverage = "none"
  <2>1. ApplyCoverage(p) = [p EXCEPT !.excl = @ \cup {"xdebug", "pcov"}]
    BY <1>3 DEF ApplyCoverage
  <2> QED
    BY <1>3, <2>1 DEF Plan, AsListed, AsCovered, Drivers
<1> QED
  BY <1>1, <1>2, <1>3 DEF Plan, Coverage

LEMMA InputStep == TypeOK /\ InputInv /\ [Next]_vars => InputInv'
<1> SUFFICES ASSUME TypeOK, InputInv, [Next]_vars PROVE InputInv'
  OBVIOUS
<1>0. plan \in Plan
  BY DEF TypeOK
<1>a. ASSUME UNCHANGED tokens, NEW q \in Plan, plan' = q, AsListed(q)
      PROVE  AsListed(plan)'
  BY <1>a DEF AsListed, Resets, Counts
<1>1. CASE UNCHANGED vars
  <2>1. AsListed(plan) <=> AsListed(plan)'
    BY <1>1 DEF vars, AsListed, Resets, Counts
  <2>2. AsCovered(plan) <=> AsCovered(plan)'
    BY <1>1 DEF vars, AsCovered, Resets, Counts
  <2> QED
    BY <1>1, <2>1, <2>2 DEF vars, InputInv
<1>2. CASE ReadEnv
  <2>1. CASE phase' = "failed"
    BY <2>1 DEF InputInv
  <2>2. CASE phase' # "failed"
    <3> DEFINE v == IF input.version = Unset THEN plan.php ELSE input.version
               c == IF input.coverage = Unset THEN plan.coverage
                    ELSE input.coverage
               q == [plan EXCEPT !.php = v, !.coverage = c]
    <3>1. /\ phase = "env" /\ phase' = "file" /\ UNCHANGED <<tokens, input>>
          /\ plan' = q /\ v \in Versions /\ c \in Coverage
      BY <1>0, <1>2, <2>2 DEF ReadEnv, TypeOK, Inputs, Plan
    <3>2. c = IF input.coverage = Unset THEN "none" ELSE input.coverage
      BY <3>1 DEF InputInv
    <3>3. q \in Plan /\ q.reset = plan.reset /\ q.ext = plan.ext
          /\ q.excl = plan.excl /\ q.coverage = c
      <4> HIDE DEF v, c
      <4> QED
        BY <1>0, <3>1 DEF Plan
    <3> HIDE DEF v, c, q
    <3>4. AsListed(q)
      BY <1>0, <3>1, <3>3, SameList DEF InputInv
    <3>5. AsListed(plan)'
      BY <1>a, <3>1, <3>3, <3>4
    <3> QED
      BY <3>1, <3>2, <3>3, <3>5 DEF InputInv
  <2> QED
    BY <2>1, <2>2
<1>3. CASE ReadVersionFile
  <2>1. /\ phase = "file" /\ phase' = "tokens" /\ UNCHANGED <<tokens, input>>
        /\ \/ plan' = plan
           \/ plan' = [plan EXCEPT !.php = input.file] /\ input.file \in Versions
    BY <1>3 DEF ReadVersionFile
  <2>2. /\ plan' \in Plan /\ plan'.reset = plan.reset /\ plan'.ext = plan.ext
        /\ plan'.excl = plan.excl /\ plan'.coverage = plan.coverage
    BY <1>0, <2>1 DEF Plan
  <2>3. AsListed(plan)'
    BY <1>0, <2>1, <2>2 DEF InputInv, AsListed, Resets, Counts
  <2> QED
    BY <2>1, <2>2, <2>3 DEF InputInv
<1>4. ASSUME NEW t \in Token, ReadToken(t) PROVE InputInv'
  <2>1. /\ phase = "tokens" /\ phase' = "tokens" /\ UNCHANGED input
    BY <1>4 DEF ReadToken
  <2>2. AsListed(plan)' /\ plan'.coverage = plan.coverage
    BY <1>4, <2>1, ListStep DEF InputInv
  <2> QED
    BY <2>1, <2>2 DEF InputInv
<1>5. CASE ReadIniValues
  <2>1. CASE phase' = "failed"
    BY <2>1 DEF InputInv
  <2>2. CASE phase' # "failed"
    <3>1. /\ phase = "tokens" /\ phase' = "coverage" /\ UNCHANGED <<tokens, input>>
          /\ plan' = [plan EXCEPT !.ini = input.ini]
      BY <1>5, <2>2 DEF ReadIniValues
    <3>2. /\ plan'.reset = plan.reset /\ plan'.ext = plan.ext
          /\ plan'.excl = plan.excl /\ plan'.coverage = plan.coverage
      BY <1>0, <3>1 DEF Plan
    <3>3. AsListed(plan)'
      BY <3>1, <3>2 DEF InputInv, AsListed, Resets, Counts
    <3> QED
      BY <3>1, <3>2, <3>3 DEF InputInv
  <2> QED
    BY <2>1, <2>2
<1>6. CASE AddCoverage
  <2>1. /\ phase = "coverage" /\ phase' = "ready" /\ UNCHANGED <<tokens, input>>
        /\ plan' = ApplyCoverage(plan)
    BY <1>6 DEF AddCoverage
  <2>2. AsCovered(ApplyCoverage(plan))
        /\ ApplyCoverage(plan).coverage = plan.coverage
    BY <1>0, <2>1, Covering DEF InputInv
  <2>3. AsCovered(plan)'
    BY <2>1, <2>2 DEF AsCovered, Resets, Counts
  <2> QED
    BY <2>1, <2>2, <2>3 DEF InputInv
<1> QED
  BY <1>1, <1>2, <1>3, <1>4, <1>5, <1>6 DEF Next

LEMMA InputInvariant == Spec => [](TypeOK /\ InputInv)
<1>1. Init => InputInv
  <2> SUFFICES ASSUME Init PROVE InputInv
    OBVIOUS
  <2>1. /\ phase = "env" /\ tokens = <<>> /\ plan.ext = {} /\ plan.excl = {}
        /\ plan.reset = FALSE /\ plan.coverage = "none"
    BY DEF Init
  <2>2. DOMAIN tokens = {}
    BY <2>1
  <2>3. Resets = {} /\ \A t : ~Counts(t)
    BY <2>2 DEF Resets, Counts
  <2> QED
    BY <2>1, <2>3 DEF InputInv, AsListed
<1> QED
  BY <1>1, InitType, TypeStep, InputStep, PTL DEF Spec

-----------------------------------------------------------------------------
(***************************************************************************)
(* Whatever the length of the list, the order and the repetition of its    *)
(* tokens, the plan includes and excludes exactly the names given after    *)
(* the last "none", and remembers whether there was one.                   *)
(***************************************************************************)
THEOREM ListRead == Spec => []ListAsWritten
<1>1. InputInv => ListAsWritten
  BY DEF InputInv, AsListed, AsCovered, ListAsWritten
<1> QED
  BY <1>1, InputInvariant, PTL

(***************************************************************************)
(* The driver of coverage: is included although the list does not have it, *)
(* another only where it is listed, and without coverage: all that are.    *)
(***************************************************************************)
THEOREM DriverRead == Spec => []DriverFollowsCoverage
<1>1. InputInv => DriverFollowsCoverage
  <2> SUFFICES ASSUME InputInv, phase = "ready", NEW d \in Drivers
               PROVE  /\ d \in plan.ext <=>
                           (d = input.coverage \/ Counts(Include(d)))
                      /\ input.coverage # Unset \/ d # input.coverage
    BY DEF DriverFollowsCoverage
  <2>1. d \in Names /\ d # "none" /\ d # Unset
    BY DriversAssumption, InputAssumption DEF Drivers, Coverage
  <2>2. d = plan.coverage <=> d = input.coverage
    BY <2>1 DEF InputInv
  <2> QED
    BY <2>1, <2>2 DEF InputInv, AsCovered
<1> QED
  BY <1>1, InputInvariant, PTL

(***************************************************************************)
(* Opcache stays loaded unless it is excluded, or reset away and not       *)
(* listed again.                                                           *)
(***************************************************************************)
THEOREM OpcacheRead == Spec => []OpcacheAsWritten
<1>1. InputInv => OpcacheAsWritten
  <2>1. "opcache" \in Names /\ "opcache" \notin Drivers
    BY DriversAssumption DEF Drivers
  <2> QED
    BY <2>1
    DEF InputInv, AsCovered, OpcacheAsWritten, OpcacheWanted, OpcacheExcluded
<1> QED
  BY <1>1, InputInvariant, PTL
=============================================================================

----------------------------- MODULE PlanInput -----------------------------
(***************************************************************************)
(* From the inputs of the action to the Plan: FromEnv reads them in a      *)
(* fixed order, ParseExtensions token by token, and main adds the side     *)
(* effects of coverage: (internal/plan, main.go 174-178).                  *)
(*                                                                         *)
(* Tokens are already trimmed and in lower case; "empty" stands for the    *)
(* tokens "" and ":", which change nothing.                                *)
(***************************************************************************)
EXTENDS PhpPlan, Sequences

CONSTANTS
  DefaultVersion,  \* "8.4"
  Unset,           \* an input that is not given
  Missing,         \* a version file that cannot be read
  Invalid,         \* a value FromEnv refuses
  MaxTokens        \* bound: length of the extensions input

ASSUME DefaultAssumption == DefaultVersion \in Versions /\ MaxTokens \in Nat
ASSUME InputAssumption ==
  /\ Unset \notin Versions /\ Unset \notin Coverage
  /\ Missing \notin Versions /\ Missing # Unset
  /\ Invalid \notin Coverage /\ Invalid \notin IniValues

VARIABLES
  phase,    \* what FromEnv is about to read, "ready" or "failed"
  input,    \* the inputs other than extensions
  tokens,   \* the tokens of extensions read so far
  plan

vars == <<phase, input, tokens, plan>>

Inputs ==
  [version : Versions \cup {Unset}, file : Versions \cup {Unset, Missing},
   coverage : Coverage \cup {Unset, Invalid}, ini : IniValues \cup {Invalid}]

Init ==
  /\ phase = "env"
  /\ input \in Inputs
  /\ tokens = <<>>
  /\ \E v \in IniValues :
       plan = [php |-> DefaultVersion, ts |-> "nts", coverage |-> "none",
               ext |-> {}, excl |-> {}, reset |-> FALSE,
               iniFile |-> "production", ini |-> v, failFast |-> FALSE,
               tools |-> FALSE]

-----------------------------------------------------------------------------
\* Unset inputs take their defaults; an unknown coverage driver is refused.
ReadEnv ==
  /\ phase = "env"
  /\ IF input.coverage = Invalid
     THEN phase' = "failed" /\ UNCHANGED plan
     ELSE /\ phase' = "file"
          /\ plan' = [plan EXCEPT
               !.php = IF input.version = Unset THEN @ ELSE input.version,
               !.coverage = IF input.coverage = Unset THEN @
                            ELSE input.coverage]
  /\ UNCHANGED <<input, tokens>>

\* Mutant: the error of ParsePHPVersionFile is dropped.
ReadVersionFileUnchecked ==
  /\ phase = "file"
  /\ phase' = "tokens"
  /\ plan' = IF plan.php = DefaultVersion /\ input.file # Unset
             THEN [plan EXCEPT !.php = input.file] ELSE plan
  /\ UNCHANGED <<input, tokens>>

\* The file is read if the version is the default one, given or not; a file
\* that cannot be read is no error.
ReadVersionFile ==
  /\ phase = "file"
  /\ phase' = "tokens"
  /\ plan' = IF plan.php = DefaultVersion /\ input.file \in Versions
             THEN [plan EXCEPT !.php = input.file] ELSE plan
  /\ UNCHANGED <<input, tokens>>

ReadToken(t) ==
  /\ phase = "tokens"
  /\ Len(tokens) < MaxTokens
  /\ tokens' = Append(tokens, t)
  /\ plan' = Parsed(plan, t)
  /\ UNCHANGED <<phase, input>>

\* The list has ended; ini-values is parsed next.
ReadIniValues ==
  /\ phase = "tokens"
  /\ IF input.ini = Invalid
     THEN phase' = "failed" /\ UNCHANGED plan
     ELSE phase' = "coverage" /\ plan' = [plan EXCEPT !.ini = input.ini]
  /\ UNCHANGED <<input, tokens>>

AddCoverage ==
  /\ phase = "coverage"
  /\ phase' = "ready"
  /\ plan' = ApplyCoverage(plan)
  /\ UNCHANGED <<input, tokens>>

Next ==
  \/ ReadEnv \/ ReadVersionFile
  \/ \E t \in Token : ReadToken(t)
  \/ ReadIniValues \/ AddCoverage

Spec == Init /\ [][Next]_vars

-----------------------------------------------------------------------------
TypeOK ==
  /\ phase \in {"env", "file", "tokens", "coverage", "ready", "failed"}
  /\ input \in Inputs
  /\ tokens \in Seq(Token) /\ Len(tokens) <= MaxTokens
  /\ plan \in Plan

(***************************************************************************)
(* The reference for an extensions input: what counts is the part after    *)
(* the last "none", as a set.                                              *)
(***************************************************************************)
Resets == {i \in DOMAIN tokens : tokens[i] = None}

Counts(t) ==
  \E i \in DOMAIN tokens :
    tokens[i] = t /\ \A j \in Resets : j < i

Drivers == {"xdebug", "pcov"}

(***************************************************************************)
(* Whatever the order and repetition of the tokens, the plan includes and  *)
(* excludes exactly the names given after the last "none" and remembers    *)
(* that there was one (plan.go 107-146).                                   *)
(***************************************************************************)
ListAsWritten ==
  phase \in {"tokens", "coverage", "ready"} =>
    /\ plan.reset = (Resets # {})
    /\ \A n \in Names \ Drivers :
         /\ n \in plan.ext <=> Counts(Include(n))
         /\ n \in plan.excl <=> Counts(Exclude(n))

(***************************************************************************)
(* The driver of coverage: is installed although the list does not have    *)
(* it, or was reset; no driver is installed that neither asks for; and     *)
(* without a coverage input, which defaults to none, the list decides      *)
(* (plan.go 183-212 after 107-146).  It says nothing of a driver that the  *)
(* list and the coverage input disagree about: the code installs it, while *)
(* plan.go 180-182 has coverage disable a listed driver.                   *)
(***************************************************************************)
DriverFollowsCoverage ==
  phase = "ready" =>
    \A d \in Drivers :
      /\ d = input.coverage /\ ~Counts(Exclude(d)) => d \in plan.ext
      /\ d \in plan.ext => d = input.coverage \/ Counts(Include(d))
      /\ input.coverage = Unset => (d \in plan.ext <=> Counts(Include(d)))

(***************************************************************************)
(* Opcache, bundled but loaded by a fragment of its own, stays loaded      *)
(* unless it is excluded, or reset away and not listed again (main.go      *)
(* 374-385), through parsing and coverage.                                 *)
(***************************************************************************)
OpcacheAsWritten ==
  phase = "ready" /\ "opcache" \in Bundled[plan.php] =>
    (OpcacheWanted(plan) <=>
       /\ ~Counts(Exclude("opcache"))
       /\ Resets = {} \/ Counts(Include("opcache")))
=============================================================================

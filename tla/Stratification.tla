---------------------------- MODULE Stratification ----------------------------
(***************************************************************************)
(* assign_strata of src/compiler/maelys_datalog_validate.c: passes over    *)
(* the rules raise the stratum of a head to that of its body literals, one *)
(* more for a negated atom or an aggregate, until nothing changes.  A      *)
(* program that still changes after the last pass has a cycle, and the     *)
(* predecessor chain is followed to name a predicate on it.                *)
(*                                                                         *)
(* A rule is its head and its body literals, [pred, strict] each;          *)
(* comparisons and filters are skipped by the code and left out.           *)
(***************************************************************************)
EXTENDS Integers, Sequences

CONSTANTS MaxPredicates,   \* MAELYS_DATALOG_MAX_PREDICATES
          MaxStrata,       \* MAELYS_DATALOG_MAX_STRATA
          Programs         \* the programs to validate, sequences of rules

Preds == 0 .. MaxPredicates - 1

ASSUME StrataAssumption ==
  /\ MaxPredicates \in Nat \ {0} /\ MaxStrata \in Nat \ {0}
  /\ Programs \subseteq
       Seq([head : Preds, body : Seq([pred : Preds, strict : BOOLEAN])])

VARIABLES pc,           \* pass, trace, then ok, too_deep or cycle
          program,
          strata,       \* ruleset->strata
          predecessor,  \* the dependency that last raised a predicate
          updated,      \* the predicate last raised
          changed, iters,
          rule,         \* the next rule of the pass
          hops          \* predecessors followed so far

vars == <<pc, program, strata, predecessor, updated, changed, iters, rule, hops>>

RuleIds == 1 .. Len(program)
HeadOf(r) == program[r].head
BodyOf(r) == program[r].body
Literals(r) == 1 .. Len(BodyOf(r))

(* Faulty: an aggregate or a negation is like an atom. *)
Needed_NotStrict(r, i) == strata[BodyOf(r)[i].pred]

(* The stratum that literal i of rule r asks of the head.                  *)
Needed(r, i) == strata[BodyOf(r)[i].pred] + IF BodyOf(r)[i].strict THEN 1 ELSE 0

(* Without negation and aggregates every predicate stays in stratum 0.     *)
Layered == \E r \in RuleIds : \E i \in Literals(r) : BodyOf(r)[i].strict

Init ==
  /\ program \in Programs
  /\ pc = IF Layered THEN "pass" ELSE "ok"
  /\ strata = [p \in Preds |-> 0] /\ predecessor = [p \in Preds |-> 0]
  /\ updated = 0 /\ changed = FALSE /\ iters = 0 /\ rule = 1 /\ hops = 0

(* The head is raised to the highest need; its first literal is recorded.  *)
Raise(r) ==
  \E i \in Literals(r) :
    /\ Needed(r, i) > strata[HeadOf(r)]
    /\ \A j \in Literals(r) :
         Needed(r, j) <= Needed(r, i) /\ (j < i => Needed(r, j) < Needed(r, i))
    /\ strata' = [strata EXCEPT ![HeadOf(r)] = Needed(r, i)]
    /\ predecessor' = [predecessor EXCEPT ![HeadOf(r)] = BodyOf(r)[i].pred]
    /\ updated' = HeadOf(r) /\ changed' = TRUE

VisitRule ==
  /\ pc = "pass" /\ rule \in RuleIds
  /\ \/ Raise(rule)
     \/ /\ \A i \in Literals(rule) : Needed(rule, i) <= strata[HeadOf(rule)]
        /\ UNCHANGED <<strata, predecessor, updated, changed>>
  /\ rule' = rule + 1
  /\ UNCHANGED <<pc, program, iters, hops>>

(* Faulty: too few passes for a chain over all predicates. *)
LastPass_Early == iters + 2 >= MaxPredicates

LastPass == iters + 1 > MaxPredicates

EndPass ==
  /\ pc = "pass" /\ rule \notin RuleIds
  /\ iters' = iters + 1
  /\ IF changed /\ ~LastPass
     THEN pc' = "pass" /\ rule' = 1 /\ changed' = FALSE
     ELSE /\ pc' = IF changed THEN "trace"
                   ELSE IF \E p \in Preds : strata[p] >= MaxStrata THEN "too_deep" ELSE "ok"
          /\ UNCHANGED <<rule, changed>>
  /\ UNCHANGED <<program, strata, predecessor, updated, hops>>

(* Faulty: the predicate that changed last is named. *)
Trace_NoHops ==
  /\ pc = "trace"
  /\ pc' = "cycle" /\ UNCHANGED <<updated, hops>>
  /\ UNCHANGED <<program, strata, predecessor, changed, iters, rule>>

Trace ==
  /\ pc = "trace"
  /\ IF hops < MaxPredicates
     THEN pc' = pc /\ updated' = predecessor[updated] /\ hops' = hops + 1
     ELSE pc' = "cycle" /\ UNCHANGED <<updated, hops>>
  /\ UNCHANGED <<program, strata, predecessor, changed, iters, rule>>

Next == VisitRule \/ EndPass \/ Trace

Spec == Init /\ [][Next]_vars

-----------------------------------------------------------------------------
(* What stratification means, independent of passes. *)

(* S meets every dependency of the program.                                *)
Valid(S) ==
  \A r \in RuleIds : \A i \in Literals(r) :
    S[HeadOf(r)] >= S[BodyOf(r)[i].pred] + IF BodyOf(r)[i].strict THEN 1 ELSE 0

(* The truth of p may depend on that of q, over any number of rules.       *)
DependsOn(p, q) ==
  \A S \in SUBSET Preds :
    /\ p \in S
    /\ \A r \in RuleIds : HeadOf(r) \in S => \A i \in Literals(r) : BodyOf(r)[i].pred \in S
    => q \in S

(* p depends on itself through a negated atom or an aggregate.             *)
OnStrictCycle(p) ==
  \E r \in RuleIds : \E i \in Literals(r) :
    BodyOf(r)[i].strict /\ DependsOn(p, HeadOf(r)) /\ DependsOn(BodyOf(r)[i].pred, p)

(* Strata, chain and counters keep their types.                            *)
TypeOK ==
  /\ pc \in {"pass", "trace", "ok", "too_deep", "cycle"}
  /\ program \in Seq([head : Preds, body : Seq([pred : Preds, strict : BOOLEAN])])
  /\ strata \in [Preds -> Nat] /\ predecessor \in [Preds -> Preds] /\ updated \in Preds
  /\ changed \in BOOLEAN /\ iters \in 0 .. MaxPredicates + 1
  /\ rule \in 1 .. Len(program) + 1 /\ hops \in 0 .. MaxPredicates

(* The strata of an accepted program meet every dependency and stay below  *)
(* the limit: what the solver takes for granted when it reads the lower    *)
(* strata as finished.  And no stratum is ever higher than in any valid    *)
(* assignment, so MAELYS_DATALOG_MAX_STRATA refuses only programs that     *)
(* really need more.                                                       *)
LeastStratification ==
  /\ pc = "ok" => Valid(strata) /\ \A p \in Preds : strata[p] < MaxStrata
  /\ \A S \in [Preds -> 0 .. MaxPredicates] :
       Valid(S) => \A p \in Preds : strata[p] <= S[p]

(* The bound on the passes rejects exactly the programs with a cycle       *)
(* through a negation or an aggregate, in whatever order the rules come.   *)
RejectsExactlyCycles ==
  /\ pc \in {"trace", "cycle"} => \E p \in Preds : OnStrictCycle(p)
  /\ pc \in {"ok", "too_deep"} => ~\E p \in Preds : OnStrictCycle(p)

(* The predicate named in the diagnostic lies on such a cycle, it is not   *)
(* merely downstream of one.                                               *)
CulpritOnCycle == pc = "cycle" => OnStrictCycle(updated)

=============================================================================

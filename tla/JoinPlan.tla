------------------------------ MODULE JoinPlan ------------------------------
(***************************************************************************)
(* The safety check of a rule when its program is loaded                   *)
(* (validate_rule_impl, src/compiler/maelys_datalog_validate.c) and the    *)
(* order of its literals chosen whenever it is evaluated                   *)
(* (build_static_join_order, src/core/maelys_datalog_solver.c).  The two   *)
(* are written apart: what one accepts the other must be able to order.    *)
(*                                                                         *)
(* A literal is [kind, args, in, out, idb]: args are the terms of its atom *)
(* or the variables it tests; an aggregate projects `in` and binds `out`.  *)
(* Variables outside Named are the anonymous ones.                         *)
(***************************************************************************)
EXTENDS Integers, Sequences, FiniteSets

CONSTANTS Vars, Named,
          Const,        \* any constant term
          Rules         \* the rules to load

Kinds == {"atom", "negated", "comparison", "filter", "aggregate"}
Literal == [kind : Kinds, args : Seq(Vars \union {Const}),
            in : Named \union {Const}, out : Named \union {Const}, idb : BOOLEAN]

(* A rule: the variables of its head, its body, and whether the context of *)
(* its ruleset has an external planner.                                    *)
Rule == [head : SUBSET Vars, body : Seq(Literal), planner : BOOLEAN]

ASSUME PlanAssumption ==
  /\ Named \subseteq Vars /\ Const \notin Vars
  /\ Rules \subseteq Rule
  /\ \A r \in Rules : \A i \in 1 .. Len(r.body) :
       r.body[i].kind = "aggregate" => r.body[i].in \in Named /\ r.body[i].out \in Named

VARIABLES pc,      \* load, ready, plan, then planned or failed; or rejected
          rule,
          order,   \* out_order, indices of body literals
          bound    \* bound_var_mask

vars == <<pc, rule, order, bound>>

Indices == 1 .. Len(rule.body)
Lit(i) == rule.body[i]
Planner == rule.planner
VarsOf(l) == {l.args[k] : k \in 1 .. Len(l.args)} \ {Const}
OfKind(kinds) == {i \in Indices : Lit(i).kind \in kinds}
Planned == {order[k] : k \in 1 .. Len(order)}

-----------------------------------------------------------------------------
(* Load: validate_rule_impl. *)

PositiveVars == UNION {VarsOf(Lit(i)) : i \in OfKind({"atom"})}
BodyVars == PositiveVars \union {Lit(i).out : i \in OfKind({"aggregate"})}

(* The group variables of an aggregate, and those that exist only inside.  *)
Keys(l) == (VarsOf(l) \intersect Named) \ {l.in}
Locals(l) == (VarsOf(l) \ Named) \union {l.in}

(* Every variable that occurs outside the scope of an aggregate.           *)
Outside ==
  rule.head \union BodyVars
  \union (UNION {Keys(Lit(i)) : i \in OfKind({"aggregate"})})
  \union (UNION {VarsOf(Lit(i)) : i \in OfKind({"negated", "comparison", "filter"})})

(* Faulty: group variables may be bound by another aggregate. *)
AggregateSafe_AnySource(l) ==
  l.in # l.out /\ l.in \in VarsOf(l) /\ l.out \notin VarsOf(l) /\ Keys(l) \subseteq BodyVars

AggregateSafe(l) ==
  l.in # l.out /\ l.in \in VarsOf(l) /\ l.out \notin VarsOf(l) /\ Keys(l) \subseteq PositiveVars

(* Faulty: variables local to an aggregate may occur elsewhere. *)
Accepted_NoScopes ==
  /\ \A i \in OfKind({"aggregate"}) : AggregateSafe(Lit(i))
  /\ \A i \in OfKind({"negated", "comparison", "filter"}) : VarsOf(Lit(i)) \subseteq BodyVars
  /\ rule.head \subseteq BodyVars

Accepted ==
  /\ \A i \in OfKind({"aggregate"}) : AggregateSafe(Lit(i)) /\ Locals(Lit(i)) \intersect Outside = {}
  /\ \A i \in OfKind({"negated", "comparison", "filter"}) : VarsOf(Lit(i)) \subseteq BodyVars
  /\ rule.head \subseteq BodyVars

Init == rule \in Rules /\ pc = "load" /\ order = <<>> /\ bound = {}

Load ==
  /\ pc = "load"
  /\ pc' = IF Accepted THEN "ready" ELSE "rejected"
  /\ UNCHANGED <<rule, order, bound>>

-----------------------------------------------------------------------------
(* Plan: build_static_join_order. *)

(* literal_var_mask: what a literal adds to the bound variables.           *)
Binds(l) ==
  CASE l.kind = "aggregate" -> {l.out}
    [] l.kind \in {"atom", "filter"} -> VarsOf(l)
    [] OTHER -> {}

(* literal_safe_with_bound_vars. *)
Safe(i) ==
  CASE Lit(i).kind = "atom" -> TRUE
    [] Lit(i).kind = "aggregate" -> Keys(Lit(i)) \subseteq bound
    [] OTHER -> VarsOf(Lit(i)) \subseteq bound

Open == {i \in Indices \ Planned : Safe(i)}

(* literal_static_score. *)
Score(i) ==
  IF Lit(i).kind # "atom" THEN 0
  ELSE LET args == Lit(i).args
       IN  100 + 20 * Cardinality({k \in 1 .. Len(args) : args[k] \in bound})
               + 10 * Cardinality({k \in 1 .. Len(args) : args[k] = Const})
               - (IF Lit(i).idb THEN 50 ELSE 0)

Place(i) ==
  /\ order' = Append(order, i)
  /\ bound' = bound \union Binds(Lit(i))

(* A delta literal comes first; a pass over base facts has none.           *)
StartPlan ==
  /\ pc = "ready" /\ pc' = "plan"
  /\ \/ UNCHANGED <<order, bound>>
     \/ \E i \in OfKind({"atom"}) : Lit(i).idb /\ Place(i)
  /\ UNCHANGED rule

Pending == pc = "plan" /\ Planned # Indices

(* Without a planner: the highest score, the lowest index among equals.    *)
ChooseBest ==
  /\ Pending /\ ~Planner
  /\ \E i \in Open :
       /\ \A j \in Open : Score(j) < Score(i) \/ (Score(j) = Score(i) /\ i <= j)
       /\ Place(i)
  /\ UNCHANGED <<pc, rule>>

(* With a planner the core places aggregates itself, as soon as it can.    *)
ReadyAggregates == {i \in Open : Lit(i).kind = "aggregate"}

ChooseAggregate ==
  /\ Pending /\ Planner
  /\ \E i \in ReadyAggregates : (\A j \in ReadyAggregates : i <= j) /\ Place(i)
  /\ UNCHANGED <<pc, rule>>

(* Faulty: the planner may return a literal it was not offered. *)
PlannerChooses_Unchecked ==
  /\ Pending /\ Planner /\ ReadyAggregates = {}
  /\ \E i \in Indices \ Planned : Place(i)
  /\ UNCHANGED <<pc, rule>>

(* module_choose_literal: any of the candidates it is offered.             *)
PlannerChooses ==
  /\ Pending /\ Planner /\ ReadyAggregates = {}
  /\ \E i \in Open : Place(i)
  /\ UNCHANGED <<pc, rule>>

(* No literal can be placed, or the planner reports an error or an index   *)
(* beyond its candidates.                                                  *)
PlanFails ==
  /\ Pending /\ ReadyAggregates = {} /\ (~Planner => Open = {})
  /\ pc' = "failed" /\ UNCHANGED <<rule, order, bound>>

Finish ==
  /\ pc = "plan" /\ Planned = Indices
  /\ pc' = "planned" /\ UNCHANGED <<rule, order, bound>>

Next == \/ Load \/ StartPlan \/ ChooseBest \/ ChooseAggregate
        \/ PlannerChooses \/ PlanFails \/ Finish

Spec == Init /\ [][Next]_vars

-----------------------------------------------------------------------------
(* The order lists literals of the body, none of them twice.               *)
TypeOK ==
  /\ pc \in {"load", "ready", "rejected", "plan", "planned", "failed"}
  /\ rule \in Rule
  /\ order \in Seq(Indices) /\ bound \subseteq Vars
  /\ \A j, k \in 1 .. Len(order) : order[j] = order[k] => j = k

(* A rule that was accepted when it was loaded can be ordered whenever it  *)
(* is evaluated, from any delta literal and with any planner: a solve      *)
(* never fails for lack of a safe literal.                                 *)
NeverStuck == (Pending => Open # {}) /\ (pc = "failed" => Planner)

(* What the literals before place k bind.                                  *)
BoundBefore(k) == UNION {Binds(Lit(order[j])) : j \in 1 .. k - 1}

(* Whoever chose the order, each literal finds the variables it reads      *)
(* bound by those before it, and the head finds all of its own.            *)
OrderIsSafe ==
  /\ \A k \in 1 .. Len(order) :
       CASE Lit(order[k]).kind = "atom" -> TRUE
         [] Lit(order[k]).kind = "aggregate" -> Keys(Lit(order[k])) \subseteq BoundBefore(k)
         [] OTHER -> VarsOf(Lit(order[k])) \subseteq BoundBefore(k)
  /\ pc = "planned" => rule.head \subseteq BoundBefore(Len(order) + 1)

(* No literal ever binds a variable that is local to an aggregate, so an   *)
(* aggregate ranges over all values of its projection and its existential  *)
(* terms, wherever in the order it is placed.                              *)
LocalsStayLocal ==
  \A i \in OfKind({"aggregate"}) : bound \intersect Locals(Lit(i)) = {}

(* Without a planner, everything that can fail an evaluation or call out   *)
(* (comparisons, filters, aggregates) waits until all atoms have matched.  *)
TestsAfterAtoms ==
  ~Planner =>
    \A j, k \in 1 .. Len(order) :
      j < k /\ Lit(order[k]).kind = "atom" => Lit(order[j]).kind = "atom"

=============================================================================

------------------------------- MODULE Solver -------------------------------
(***************************************************************************)
(* Bottom-up evaluation of one validated program over one EDB snapshot     *)
(* (src/core/maelys_datalog_solver.c): solve_stratified_path for a program *)
(* with negation or aggregates, maelys_datalog_solve_once_run for one      *)
(* without.  The two differ in one place, what they do when the depth      *)
(* bound is spent, so they are one specification with a flag.              *)
(*                                                                         *)
(* The program is given by its rules and, for every rule, its ground       *)
(* instances: what unification, comparisons, filters and the arithmetic of *)
(* aggregates do to a rule decides which instances there are, and is not   *)
(* modelled here.  A body literal of an instance is either                 *)
(*   - an atom: one fact, looked up in the windows of its predicate;       *)
(*   - closed: it reads only stores that no longer change while its rule   *)
(*     runs.  It holds when the facts of `group' that are present are      *)
(*     exactly `present' (a negated atom f is group {f}, present {}; an    *)
(*     aggregate lists its group and one outcome per instance; a           *)
(*     comparison or a filter reads no fact: group {}, present {}).        *)
(*     `fatal' marks an evaluation error such as an overflowing sum.       *)
(*                                                                         *)
(* The array idb_facts is cut by its end indices into consecutive windows: *)
(* the slices of finished strata (frozen), the facts accepted in the       *)
(* active one (current, whose suffix is delta) and those of the running    *)
(* round (merge).  No operation looks at the order inside a window, so a   *)
(* window is the set of its facts; the counters the code keeps beside them *)
(* (used, per_pred) count entries, so a fact stored twice would show there.*)
(***************************************************************************)
EXTENDS Integers, Sequences, FiniteSets

CONSTANTS Facts, Preds, PredOf,
          IdbPreds,      \* predicates declared IDB; the others are EDB or policy facts
          Snapshots,     \* the EDBs a solve may be given
          PolicyFacts,   \* ruleset->facts
          Rules,         \* ruleset->rules, each [head, body]
          Instances,     \* the ground instances of each rule, each [head, lit]
          Stratum, MaxStratum,
          Stratified,    \* negation_supported || aggregates_supported
          MaxDepth,      \* MAELYS_DATALOG_MAX_DEPTH
          PlannerMayFail,\* an external planner is registered
          Capacity,      \* the IDB capacity of the result
          PerPredicate   \* MAELYS_DATALOG_MAX_FACTS_PER_PRED

RuleIds == 1 .. Len(Rules)

Body(r) == Rules[r].body

Literals == [kind : {"atom", "closed"}, pred : Preds, binds : SUBSET STRING, needs : SUBSET STRING]

Readings == [group : SUBSET Facts, present : SUBSET Facts, fatal : BOOLEAN]

(* What the loader and the validator guarantee of a program: heads are IDB *)
(* and nothing else, an instance has its rule's shape, and an atom reads   *)
(* strata up to its head's, a closed literal only lower ones.              *)
ASSUME ProgramAssumption ==
  /\ IsFiniteSet(Facts) /\ PredOf \in [Facts -> Preds] /\ IdbPreds \subseteq Preds
  /\ PolicyFacts \subseteq Facts /\ Snapshots \subseteq SUBSET Facts
  /\ \A f \in PolicyFacts \union UNION Snapshots : PredOf[f] \notin IdbPreds
  /\ Rules \in Seq([head : IdbPreds, body : Seq(Literals)])
  /\ MaxStratum \in Nat /\ Stratum \in [IdbPreds -> 0 .. MaxStratum]
  /\ Stratified \in BOOLEAN /\ PlannerMayFail \in BOOLEAN /\ (~Stratified => MaxStratum = 0)
  /\ MaxDepth \in Nat \ {0} /\ Capacity \in Nat /\ PerPredicate \in Nat

ASSUME InstanceAssumption ==
  \A r \in RuleIds : \A inst \in Instances[r] :
    /\ inst.head \in Facts /\ PredOf[inst.head] = Rules[r].head
    /\ \A k \in 1 .. Len(Body(r)) :
         IF Body(r)[k].kind = "atom"
           THEN inst.lit[k] \in Facts /\ PredOf[inst.lit[k]] = Body(r)[k].pred
           ELSE /\ inst.lit[k] \in Readings
                /\ \A f \in inst.lit[k].group : PredOf[f] = Body(r)[k].pred

ASSUME StratificationAssumption ==
  \A r \in RuleIds : \A k \in 1 .. Len(Body(r)) :
    Body(r)[k].pred \in IdbPreds =>
      IF Body(r)[k].kind = "atom"
        THEN Stratum[Body(r)[k].pred] <= Stratum[Rules[r].head]
        ELSE Stratum[Body(r)[k].pred] < Stratum[Rules[r].head]

VARIABLES
  pc,        \* where the solve stands: base, top, delta, then ok or failed
  reason,    \* failure_reason: none, max_depth, overflow, error
  edb,       \* edb_snapshot
  stratum,   \* active_stratum
  frozen,    \* the slices stratum_idb_end cuts out, one per stratum
  current,   \* [stratum_idb_end[active], idb_current_end)
  delta,     \* [idb_delta_begin, idb_delta_end)
  merge,     \* [idb_current_end, idb_merge_end)
  used,      \* idb_merge_end: entries of idb_facts in use
  per_pred,  \* facts_per_pred
  depth,     \* the loop variable of the recursive rounds
  rule,      \* the loop variable over the rules
  literal    \* the loop variable over the body of the rule

vars == <<pc, reason, edb, stratum, frozen, current, delta, merge, used, per_pred, depth,
          rule, literal>>

storeVars == <<frozen, current, delta, merge, used, per_pred>>

Base == PolicyFacts \union edb

Strata == 0 .. MaxStratum

Derived == (UNION {frozen[s] : s \in Strata}) \union current \union merge

NoLiteral == 0

(* Faulty: an atom already sees the facts of the running round. *)
ScanWindow_SeesMerge(p) ==
  IF p \notin IdbPreds THEN Base
  ELSE IF Stratum[p] < stratum THEN frozen[Stratum[p]]
  ELSE current \union merge

(* The facts an atom of predicate p is matched with: the base stores, the  *)
(* slice of a finished stratum, or the accepted part of the active one.    *)
ScanWindow(p) ==
  IF p \notin IdbPreds THEN Base
  ELSE IF Stratum[p] < stratum THEN frozen[Stratum[p]]
  ELSE current

(* Faulty: derived facts are not looked up. *)
FrozenSource_BaseOnly(p) == Base

(* The store a negated atom or an aggregate over predicate p reads.        *)
FrozenSource(p) == IF p \in IdbPreds THEN frozen[Stratum[p]] ELSE Base

(* Literal k of an instance of rule r holds, when literal d reads delta.   *)
Holds(r, inst, k, d) ==
  IF Body(r)[k].kind = "atom"
    THEN inst.lit[k] \in (IF k = d THEN delta ELSE ScanWindow(Body(r)[k].pred))
    ELSE FrozenSource(Body(r)[k].pred) \intersect inst.lit[k].group = inst.lit[k].present

(* build_static_join_order: the literal that reads delta comes first and   *)
(* every literal comes after those that bind the variables it needs.  The  *)
(* built-in score, or an external planner, picks one of these orders.      *)
JoinOrders(r, d) ==
  LET n == Len(Body(r)) IN
  {o \in [1 .. n -> 1 .. n] :
     /\ \A i, j \in 1 .. n : o[i] = o[j] => i = j
     /\ d # NoLiteral => o[1] = d
     /\ \A i \in 1 .. n :
          Body(r)[o[i]].needs \subseteq UNION {Body(r)[o[j]].binds : j \in 1 .. i - 1}}

(* The join reaches an evaluation error: all the literals before it in the *)
(* order hold for this instance.  Which readings err is a mark of the      *)
(* instance; the call budget of filters, which counts over the whole       *)
(* solve, is not modelled.                                                 *)
Errs(r, d, order) ==
  \E inst \in Instances[r] : \E i \in DOMAIN order :
    /\ Body(r)[order[i]].kind = "closed" /\ inst.lit[order[i]].fatal
    /\ \A j \in 1 .. i : Holds(r, inst, order[j], d)

(* The instances a whole rule application completes, and their heads.      *)
Firing(r, d) ==
  {inst \in Instances[r] :
     \A k \in 1 .. Len(Body(r)) :
        Holds(r, inst, k, d) /\ (Body(r)[k].kind = "closed" => ~inst.lit[k].fatal)}

Heads(r, d) == {inst.head : inst \in Firing(r, d)}

(* solve_once_append_idb_merge skips a head that is in the base stores, in *)
(* the accepted prefix of the array or in the running round.  The base     *)
(* lookup matters only for a caller of the low-level API that puts facts   *)
(* of a derived predicate into the EDB: ProgramAssumption excludes those.  *)
Fresh(heads) == heads \ (Base \union Derived)

(* Faulty: the running round is not searched, so every instance stores.    *)
Appended_Repeats(r, d) ==
  Cardinality({inst \in Firing(r, d) :
    inst.head \notin Base \union current \union UNION {frozen[s] : s \in Strata}})

(* Entries one application appends: one for each new head, however many    *)
(* instances derive it.  All are of the predicate of the rule's head.      *)
Appended(r, d) == Cardinality(Fresh(Heads(r, d)))

(* There is room for n more entries, in the array and of the predicate.    *)
Fits(r, n) ==
  n > 0 => used + n <= Capacity /\ per_pred[Rules[r].head] + n <= PerPredicate

Fail(why) ==
  /\ pc' = "failed" /\ reason' = why
  /\ UNCHANGED <<edb, stratum, storeVars, depth, rule, literal>>

(* One rule application plans the join, runs it and appends the new heads. *)
(* It fails when the planner does, at an evaluation error, or when a new   *)
(* head has no room, whichever the join meets first; what it appended      *)
(* before is then dropped with the whole result.                           *)
ApplyFails(r, d) ==
  \/ PlannerMayFail /\ Fail("error")
  \/ (\E order \in JoinOrders(r, d) : Errs(r, d, order)) /\ Fail("error")
  \/ ~Fits(r, Appended(r, d)) /\ Fail("overflow")

Apply(r, d) ==
  /\ \E order \in JoinOrders(r, d) : ~Errs(r, d, order)
  /\ Fits(r, Appended(r, d))
  /\ merge' = merge \union Fresh(Heads(r, d))
  /\ used' = used + Appended(r, d)
  /\ per_pred' = [per_pred EXCEPT ![Rules[r].head] = @ + Appended(r, d)]
  /\ UNCHANGED <<pc, reason, edb, stratum, frozen, current, delta, depth>>

InStratum(r) == Stratum[Rules[r].head] = stratum

(* Faulty: only the first recursive literal of a rule reads delta. *)
DeltaEligible_FirstOnly(r, k) ==
  /\ Body(r)[k].kind = "atom" /\ Body(r)[k].pred \in IdbPreds
  /\ Stratum[Body(r)[k].pred] = stratum
  /\ \A j \in 1 .. k - 1 : Body(r)[j].pred \notin IdbPreds

(* solve_once_literal_delta_eligible_in_active_stratum.                    *)
DeltaEligible(r, k) ==
  /\ Body(r)[k].kind = "atom" /\ Body(r)[k].pred \in IdbPreds
  /\ Stratum[Body(r)[k].pred] = stratum

Init ==
  /\ pc = "base" /\ reason = "none"
  /\ edb \in Snapshots
  /\ stratum = 0 /\ frozen = [s \in Strata |-> {}]
  /\ current = {} /\ delta = {} /\ merge = {}
  /\ used = 0 /\ per_pred = [p \in IdbPreds |-> 0]
  /\ depth = 0 /\ rule = 1 /\ literal = NoLiteral

(* The base round: every rule of the stratum once, no literal on delta.    *)
BaseRule ==
  /\ pc = "base" /\ rule \in RuleIds
  /\ \/ ~InStratum(rule) /\ rule' = rule + 1
        /\ UNCHANGED <<pc, reason, edb, stratum, storeVars, depth, literal>>
     \/ InStratum(rule) /\ ApplyFails(rule, NoLiteral)
     \/ InStratum(rule) /\ Apply(rule, NoLiteral) /\ rule' = rule + 1 /\ literal' = literal

EndBase ==
  /\ pc = "base" /\ rule \notin RuleIds
  /\ current' = merge /\ delta' = merge /\ merge' = {}
  /\ depth' = 1 /\ pc' = "top"
  /\ UNCHANGED <<reason, edb, stratum, frozen, used, per_pred, rule, literal>>

(* Faulty: nothing bounds the rounds. *)
BeginRound_Unbounded ==
  /\ pc = "top" /\ delta # {}
  /\ pc' = "delta" /\ rule' = 1 /\ literal' = 1
  /\ UNCHANGED <<reason, edb, stratum, storeVars, depth>>

(* The loop head: another round while there is a delta and depth is left.  *)
BeginRound ==
  /\ pc = "top" /\ delta # {} /\ depth <= MaxDepth
  /\ pc' = "delta" /\ rule' = 1 /\ literal' = 1
  /\ UNCHANGED <<reason, edb, stratum, storeVars, depth>>

(* Faulty: a literal that reads no delta does not advance the loop. *)
DeltaLiteral_Stuck ==
  /\ pc = "delta" /\ rule \in RuleIds
  /\ \/ /\ ~InStratum(rule) \/ literal > Len(Body(rule))
        /\ rule' = rule + 1 /\ literal' = 1
        /\ UNCHANGED <<pc, reason, edb, stratum, storeVars, depth>>
     \/ /\ InStratum(rule) /\ literal <= Len(Body(rule)) /\ DeltaEligible(rule, literal)
        /\ \/ ApplyFails(rule, literal)
           \/ Apply(rule, literal) /\ literal' = literal + 1 /\ rule' = rule

(* One rule with one of its literals reading delta, or the next rule.      *)
DeltaLiteral ==
  /\ pc = "delta" /\ rule \in RuleIds
  /\ \/ /\ ~InStratum(rule) \/ literal > Len(Body(rule))
        /\ rule' = rule + 1 /\ literal' = 1
        /\ UNCHANGED <<pc, reason, edb, stratum, storeVars, depth>>
     \/ /\ InStratum(rule) /\ literal <= Len(Body(rule)) /\ ~DeltaEligible(rule, literal)
        /\ literal' = literal + 1
        /\ UNCHANGED <<pc, reason, edb, stratum, storeVars, depth, rule>>
     \/ /\ InStratum(rule) /\ literal <= Len(Body(rule)) /\ DeltaEligible(rule, literal)
        /\ \/ ApplyFails(rule, literal)
           \/ Apply(rule, literal) /\ literal' = literal + 1 /\ rule' = rule

EndRound ==
  /\ pc = "delta" /\ rule \notin RuleIds
  /\ delta' = merge /\ current' = current \union merge /\ merge' = {}
  /\ depth' = depth + 1 /\ pc' = "top"
  /\ UNCHANGED <<reason, edb, stratum, frozen, used, per_pred, rule, literal>>

(* Faulty: an empty delta after the last round counts as no convergence. *)
Converged_InTime == delta = {} /\ depth <= MaxDepth

(* Faulty: an empty delta after the last round is accepted on both paths. *)
Converged_Late == delta = {}

(* Convergence: an empty delta at the loop head.  With the depth spent the *)
(* stratified path still accepts it, the other one does not.               *)
Converged == delta = {} /\ (depth <= MaxDepth \/ Stratified)

(* solve_once_freeze_active_stratum, then the next stratum or the result.  *)
(* The slice is sorted and repeated entries are dropped from it, and from  *)
(* the array's end index, not from the count of their predicate.           *)
FreezeStratum ==
  /\ pc = "top" /\ Converged
  /\ frozen' = [frozen EXCEPT ![stratum] = current]
  /\ current' = {} /\ delta' = {} /\ depth' = 0 /\ rule' = 1 /\ literal' = NoLiteral
  /\ IF stratum < MaxStratum THEN pc' = "base" /\ stratum' = stratum + 1
                             ELSE pc' = "ok" /\ stratum' = stratum
  /\ used' = Cardinality(UNION {frozen'[s] : s \in Strata})
  /\ UNCHANGED <<reason, edb, merge, per_pred>>

(* Faulty: the bound is reached a round early, whatever the delta. *)
DepthSpent_Early ==
  /\ pc = "top" /\ depth >= MaxDepth
  /\ Fail("max_depth")

DepthSpent ==
  /\ pc = "top" /\ depth > MaxDepth /\ ~Converged
  /\ Fail("max_depth")

Next ==
  \/ BaseRule \/ EndBase \/ BeginRound \/ DeltaLiteral \/ EndRound
  \/ FreezeStratum \/ DepthSpent

Spec == Init /\ [][Next]_vars /\ WF_vars(Next)

-----------------------------------------------------------------------------
(* The meaning of a program, independent of windows and rounds.  Below(s)  *)
(* is what the strata under s and the base stores hold.                    *)
Below(s) == Base \union UNION {frozen[t] : t \in 0 .. s - 1}

(* The body of an instance of rule r is true when the strata below hold    *)
(* `below' and the stratum of the rule holds M.                            *)
Satisfied(r, inst, below, M) ==
  \A k \in 1 .. Len(Body(r)) :
    IF Body(r)[k].kind = "atom"
      THEN inst.lit[k] \in below \union M
      ELSE below \intersect inst.lit[k].group = inst.lit[k].present /\ ~inst.lit[k].fatal

(* M, as the facts of stratum s, satisfies every rule of the stratum.      *)
ClosedUnder(s, below, M) ==
  \A r \in RuleIds : Stratum[Rules[r].head] = s =>
    \A inst \in Instances[r] : Satisfied(r, inst, below, M) => inst.head \in M

StratumFacts(s) == {f \in Facts : PredOf[f] \in IdbPreds /\ Stratum[PredOf[f]] = s}

LeastClosed(s, below, M) ==
  /\ ClosedUnder(s, below, M)
  /\ \A other \in SUBSET StratumFacts(s) :
       ClosedUnder(s, below, other) => M \subseteq other

(* Windows, depth and loop counters stay in range, and a window holds only *)
(* facts of the active stratum.                                            *)
TypeOK ==
  /\ pc \in {"base", "top", "delta", "ok", "failed"}
  /\ reason \in {"none", "max_depth", "overflow", "error"}
  /\ edb \in Snapshots /\ stratum \in Strata
  /\ frozen \in [Strata -> SUBSET Facts]
  /\ \A s \in Strata : frozen[s] \subseteq StratumFacts(s)
  /\ current \subseteq StratumFacts(stratum) /\ merge \subseteq StratumFacts(stratum)
  /\ delta \subseteq current
  /\ used \in Nat /\ per_pred \in [IdbPreds -> Nat]
  /\ depth \in 0 .. MaxDepth + 1
  /\ rule \in 1 .. Len(Rules) + 1 /\ literal \in Nat

(* A solve that succeeds published the perfect model of the program: in    *)
(* every stratum the least set of facts closed under its rules, given the  *)
(* strata below.  Nothing derivable is missing although a round only looks *)
(* at instances with a fact of the last round, whatever join order the     *)
(* planner picked, and nothing underivable is there.                       *)
PerfectModel ==
  pc = "ok" => \A s \in Strata : LeastClosed(s, Below(s), frozen[s])

(* An overflow is never spurious: when a solve gives up for lack of room,  *)
(* every set of facts that satisfies the active stratum is too large.      *)
OverflowIsReal ==
  reason = "overflow" =>
    \A M \in SUBSET StratumFacts(stratum) :
      ClosedUnder(stratum, Below(stratum), M) =>
        \/ Cardinality((UNION {frozen[s] : s \in Strata}) \union M) > Capacity
        \/ \E p \in IdbPreds : Cardinality({f \in M : PredOf[f] = p}) > PerPredicate

(* The naive iteration of stratum s: n rounds over all its rules.          *)
Consequences(s, M) ==
  UNION {{inst.head : inst \in {x \in Instances[r] : Satisfied(r, x, Below(s), M)}} :
           r \in {q \in RuleIds : Stratum[Rules[q].head] = s}}

Naive[s \in Strata, n \in Nat] ==
  IF n = 0 THEN {} ELSE Consequences(s, Naive[s, n - 1])

(* At every loop head the accepted facts are those of as many naive rounds:*)
(* reading delta in one literal at a time neither skips nor anticipates a  *)
(* round, so the depth bound counts the same rounds for every program.     *)
RoundsMatchNaive == pc = "top" => current = Naive[stratum, depth]

(* The naive rounds a path allows.  The stratified one allows MaxDepth + 1 *)
(* and the other a round less, because it must see the empty delta at the  *)
(* head of an allowed iteration.                                           *)
LastRound == IF Stratified THEN MaxDepth + 1 ELSE MaxDepth

ConvergesInDepth(s) == Naive[s, LastRound] = Naive[s, LastRound - 1]

(* A depth failure is never spurious: the last round the path allows still *)
(* derived something.                                                      *)
DepthFailureIsReal == reason = "max_depth" => ~ConvergesInDepth(stratum)

(* The loop bound MAELYS_DATALOG_MAX_DEPTH is what limits the work of a    *)
(* solve: a stratum is frozen only when its iteration is complete within   *)
(* the rounds the path allows, though there be room for the facts of more. *)
AcceptsWithinDepth ==
  \A s \in Strata : s < stratum \/ pc = "ok" => ConvergesInDepth(s)

(* Every solve ends, with a result or with a failure.                      *)
Terminates == <>(pc \in {"ok", "failed"})
=============================================================================

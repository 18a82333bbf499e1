--------------------------- MODULE JoinPlanProofs ---------------------------
(***************************************************************************)
(* JoinPlan for every rule, any number of literals and variables: what     *)
(* loading accepts can always be ordered, safely, and no order binds a     *)
(* variable that is local to an aggregate.                                 *)
(***************************************************************************)
EXTENDS JoinPlan, SequenceTheorems, FiniteSetTheorems, TLAPS

(* Literal k of the order finds what it reads in the set B.                *)
ReadsFrom(i, B) ==
  CASE Lit(i).kind = "atom" -> TRUE
    [] Lit(i).kind = "aggregate" -> Keys(Lit(i)) \subseteq B
    [] OTHER -> VarsOf(Lit(i)) \subseteq B

PlacedSafely == \A k \in 1 .. Len(order) : ReadsFrom(order[k], BoundBefore(k))

(* A test is placed only when no atom is left.                             *)
AtomsFirst ==
  ~Planner => \A j \in Planned : Lit(j).kind # "atom" => OfKind({"atom"}) \subseteq Planned

PlanInv ==
  /\ rule \in Rules
  /\ TypeOK
  /\ bound = UNION {Binds(Lit(i)) : i \in Planned}
  /\ pc \in {"load", "rejected", "ready"} => order = <<>>
  /\ pc \in {"ready", "plan", "planned", "failed"} => Accepted
  /\ pc = "planned" => Planned = Indices
  /\ pc = "failed" => Planner
  /\ PlacedSafely
  /\ TestsAfterAtoms
  /\ AtomsFirst

(* Literals have the shape that valid_literal establishes.                 *)
LEMMA LiteralShape ==
  ASSUME rule \in Rules, NEW i \in Indices
  PROVE  /\ Lit(i) \in Literal
         /\ VarsOf(Lit(i)) \subseteq Vars
         /\ Binds(Lit(i)) \subseteq Vars
         /\ Len(Lit(i).args) \in Nat
         /\ Len(rule.body) \in Nat
<1>1. rule \in Rule
  BY PlanAssumption DEF Rule
<1>2. rule.body \in Seq(Literal)
  BY <1>1 DEF Rule
<1>3. Lit(i) \in Literal
  BY <1>2, ElementOfSeq DEF Lit, Indices
<1>4. Lit(i).args \in Seq(Vars \union {Const})
  BY <1>3 DEF Literal
<1>5. Len(Lit(i).args) \in Nat /\ Len(rule.body) \in Nat
  BY <1>2, <1>4, LenProperties
<1>6. \A k \in 1 .. Len(Lit(i).args) : Lit(i).args[k] \in Vars \union {Const}
  BY <1>4, ElementOfSeq
<1>7. VarsOf(Lit(i)) \subseteq Vars
  BY <1>6 DEF VarsOf
<1>8. Lit(i).kind = "aggregate" => Lit(i).out \in Vars
  BY PlanAssumption DEF Lit, Indices
<1>9. Binds(Lit(i)) \subseteq Vars
  BY <1>7, <1>8 DEF Binds
<1> QED
  BY <1>3, <1>5, <1>7, <1>9

(* Once an accepted rule has its atoms placed, its aggregates are safe;    *)
(* once those are placed, so is everything else.                           *)
LEMMA SomethingIsSafe ==
  ASSUME rule \in Rules, Accepted, bound = UNION {Binds(Lit(i)) : i \in Planned},
         Planned \subseteq Indices, Planned # Indices
  PROVE  Open # {}
<1> SUFFICES ASSUME \A i \in Indices \ Planned : ~Safe(i) PROVE FALSE
  BY DEF Open
<1>1. \A i \in OfKind({"atom"}) : i \in Planned
  BY DEF OfKind, Safe
<1>2. PositiveVars \subseteq bound
  <2> SUFFICES ASSUME NEW i \in OfKind({"atom"}) PROVE VarsOf(Lit(i)) \subseteq bound
    BY DEF PositiveVars
  <2>1. Binds(Lit(i)) = VarsOf(Lit(i))
    BY DEF OfKind, Binds
  <2> QED
    BY <1>1, <2>1
<1>3. \A i \in OfKind({"aggregate"}) : i \in Planned
  <2> SUFFICES ASSUME NEW i \in OfKind({"aggregate"}) PROVE i \in Planned
    OBVIOUS
  <2>1. Lit(i).kind = "aggregate" /\ i \in Indices
    BY DEF OfKind
  <2>2. Keys(Lit(i)) \subseteq bound
    BY <1>2 DEF Accepted, AggregateSafe
  <2>3. Safe(i)
    BY <2>1, <2>2 DEF Safe
  <2> QED
    BY <2>1, <2>3
<1>4. BodyVars \subseteq bound
  <2>1. ASSUME NEW i \in OfKind({"aggregate"}) PROVE Lit(i).out \in bound
    <3>1. Binds(Lit(i)) = {Lit(i).out}
      BY DEF OfKind, Binds
    <3> QED
      BY <1>3, <3>1
  <2> QED
    BY <1>2, <2>1 DEF BodyVars
<1>5. PICK i \in Indices : i \notin Planned
  OBVIOUS
<1>6. Lit(i).kind \in Kinds
  BY LiteralShape DEF Literal
<1>7. i \in OfKind({"negated", "comparison", "filter"})
  BY <1>1, <1>3, <1>5, <1>6 DEF OfKind, Kinds
<1>8. VarsOf(Lit(i)) \subseteq bound
  BY <1>4, <1>7 DEF Accepted
<1>9. Safe(i)
  BY <1>7, <1>8 DEF Safe, OfKind
<1> QED
  BY <1>5, <1>9

(* Only variables outside every aggregate are ever bound.                  *)
LEMMA BoundIsOutside ==
  ASSUME rule \in Rules, Accepted, NEW i \in Indices
  PROVE  Binds(Lit(i)) \subseteq BodyVars
<1>1. Lit(i).kind \in Kinds
  BY LiteralShape DEF Literal
<1>2. CASE Lit(i).kind = "aggregate"
  BY <1>2 DEF Binds, BodyVars, OfKind
<1>3. CASE Lit(i).kind = "atom"
  BY <1>3 DEF Binds, BodyVars, PositiveVars, OfKind
<1>4. CASE Lit(i).kind = "filter"
  BY <1>4 DEF Binds, OfKind, Accepted
<1>5. CASE Lit(i).kind \in {"negated", "comparison"}
  BY <1>5 DEF Binds
<1> QED
  BY <1>1, <1>2, <1>3, <1>4, <1>5 DEF Kinds

(* An atom has a higher score than any test.                               *)
LEMMA ScoreRange ==
  ASSUME rule \in Rules, NEW i \in Indices
  PROVE  /\ Score(i) \in Int
         /\ Lit(i).kind = "atom" => Score(i) > 0
         /\ Lit(i).kind # "atom" => Score(i) = 0
<1>1. ASSUME NEW S \in SUBSET (1 .. Len(Lit(i).args)) PROVE Cardinality(S) \in Nat
  <2>1. Len(Lit(i).args) \in Nat
    BY LiteralShape
  <2>2. IsFiniteSet(1 .. Len(Lit(i).args))
    BY <2>1, FS_Interval
  <2>3. IsFiniteSet(S)
    BY <2>2, FS_Subset
  <2> QED
    BY <2>3, FS_CardinalityType
<1> DEFINE b == Cardinality({k \in 1 .. Len(Lit(i).args) : Lit(i).args[k] \in bound})
           c == Cardinality({k \in 1 .. Len(Lit(i).args) : Lit(i).args[k] = Const})
<1>2. b \in Nat /\ c \in Nat
  BY <1>1
<1>3. Lit(i).kind = "atom" => Score(i) = 100 + 20 * b + 10 * c - (IF Lit(i).idb THEN 50 ELSE 0)
  BY DEF Score
<1>4. Lit(i).kind # "atom" => Score(i) = 0
  BY DEF Score
<1> HIDE DEF b, c
<1> QED
  BY <1>2, <1>3, <1>4

(* Placing a safe literal keeps the order injective and safe, and the      *)
(* bound variables those of the literals placed.                           *)
LEMMA PlaceStep ==
  ASSUME PlanInv, rule' = rule, NEW i \in Indices \ Planned, Safe(i), Place(i)
  PROVE  /\ order' \in Seq(Indices) /\ bound' \subseteq Vars
         /\ Len(order') = Len(order) + 1 /\ Len(order) \in Nat
         /\ \A k \in 1 .. Len(order) : order'[k] = order[k]
         /\ order'[Len(order) + 1] = i
         /\ \A j, k \in 1 .. Len(order') : order'[j] = order'[k] => j = k
         /\ Planned' = Planned \union {i}
         /\ bound' = UNION {Binds(Lit(j))' : j \in Planned'}
         /\ PlacedSafely'
<1>1. order \in Seq(Indices) /\ rule \in Rules /\ bound \subseteq Vars
  BY DEF PlanInv, TypeOK
<1>2. order' = Append(order, i)
  BY DEF Place
<1>3. /\ order' \in Seq(Indices) /\ Len(order') = Len(order) + 1 /\ Len(order) \in Nat
      /\ \A k \in 1 .. Len(order) : order'[k] = order[k]
      /\ order'[Len(order) + 1] = i
  BY <1>1, <1>2, AppendProperties, LenProperties
<1>4. bound' = bound \union Binds(Lit(i))
  BY DEF Place
<1>5. bound' \subseteq Vars
  BY <1>1, <1>4, LiteralShape
<1>6. Planned' = Planned \union {i}
  <2>1. Planned' = {order'[k] : k \in 1 .. Len(order')}
    BY DEF Planned
  <2>2. ASSUME NEW x \in Planned' PROVE x \in Planned \union {i}
    BY <2>1, <1>3 DEF Planned
  <2>3. ASSUME NEW x \in Planned PROVE x \in Planned'
    <3>1. PICK k \in 1 .. Len(order) : x = order[k]
      BY DEF Planned
    <3>2. k \in 1 .. Len(order') /\ order'[k] = x
      BY <3>1, <1>3
    <3> QED
      BY <2>1, <3>2
  <2>4. i \in Planned'
    <3>1. Len(order) + 1 \in 1 .. Len(order')
      BY <1>3
    <3> QED
      BY <2>1, <3>1, <1>3
  <2> QED
    BY <2>2, <2>3, <2>4
<1>7. \A j, k \in 1 .. Len(order') : order'[j] = order'[k] => j = k
  <2> SUFFICES ASSUME NEW j \in 1 .. Len(order'), NEW k \in 1 .. Len(order'), order'[j] = order'[k]
               PROVE  j = k
    OBVIOUS
  <2>1. \A m \in 1 .. Len(order) : order[m] # i
    BY DEF Planned
  <2>2. \A m, n \in 1 .. Len(order) : order[m] = order[n] => m = n
    BY DEF PlanInv, TypeOK
  <2>3. j \in 1 .. Len(order) \/ j = Len(order) + 1
    BY <1>3
  <2>4. k \in 1 .. Len(order) \/ k = Len(order) + 1
    BY <1>3
  <2> QED
    BY <1>3, <2>1, <2>2, <2>3, <2>4
<1>8. \A j : Binds(Lit(j))' = Binds(Lit(j))
  BY DEF Binds, Lit, VarsOf
<1>9. bound' = UNION {Binds(Lit(j))' : j \in Planned'}
  <2>1. bound = UNION {Binds(Lit(j)) : j \in Planned}
    BY DEF PlanInv
  <2> QED
    BY <1>4, <1>6, <1>8, <2>1
<1>10. ASSUME NEW k \in 1 .. Len(order') PROVE ReadsFrom(order[k], BoundBefore(k))'
  <2>1. \A x, B : ReadsFrom(x, B)' <=> ReadsFrom(x, B)
    BY DEF ReadsFrom, Lit, Keys, VarsOf
  <2>2. BoundBefore(k)' = UNION {Binds(Lit(order'[j])) : j \in 1 .. k - 1}
    BY DEF BoundBefore, Binds, Lit, VarsOf
  <2>3. \A j \in 1 .. k - 1 : j \in 1 .. Len(order)
    BY <1>3
  <2>4. BoundBefore(k)' = UNION {Binds(Lit(order[j])) : j \in 1 .. k - 1}
    BY <1>3, <2>2, <2>3
  <2>5. BoundBefore(k)' = BoundBefore(k)
    BY <2>4 DEF BoundBefore
  <2>6. CASE k \in 1 .. Len(order)
    <3>1. ReadsFrom(order[k], BoundBefore(k))
      BY <2>6 DEF PlanInv, PlacedSafely
    <3>2. order'[k] = order[k]
      BY <2>6, <1>3
    <3>3. ReadsFrom(order'[k], BoundBefore(k)')
      BY <3>1, <3>2, <2>5
    <3> QED
      BY <3>3 DEF ReadsFrom, Lit, Keys, VarsOf
  <2>7. CASE k = Len(order) + 1
    <3>1. {order[j] : j \in 1 .. k - 1} = Planned
      BY <2>7, <1>3 DEF Planned
    <3>2. BoundBefore(k) = bound
      BY <3>1 DEF BoundBefore, PlanInv
    <3>3. ReadsFrom(i, bound)
      BY DEF Safe, ReadsFrom
    <3>4. ReadsFrom(order'[k], BoundBefore(k)')
      BY <3>2, <3>3, <2>5, <2>7, <1>3
    <3> QED
      BY <3>4 DEF ReadsFrom, Lit, Keys, VarsOf
  <2> QED
    BY <2>6, <2>7, <1>3
<1> QED
  BY <1>3, <1>5, <1>6, <1>7, <1>9, <1>10 DEF PlacedSafely

(* Facts about the rule survive a step, for the rule never changes.        *)
LEMMA RuleStays ==
  ASSUME rule' = rule
  PROVE  /\ Indices' = Indices /\ (Accepted' <=> Accepted)
         /\ \A i : Lit(i)' = Lit(i)
         /\ Planner' = Planner
         /\ \A K : OfKind(K)' = OfKind(K)
<1>1. /\ Indices' = Indices /\ \A i : Lit(i)' = Lit(i)
  BY DEF Indices, Lit
<1>2. \A K : OfKind(K)' = OfKind(K)
  BY <1>1 DEF OfKind
<1>3. Accepted' <=> Accepted
  BY DEF Accepted, AggregateSafe, Locals, Outside, Keys, BodyVars, PositiveVars,
         VarsOf, OfKind, Indices, Lit
<1> QED
  BY <1>1, <1>2, <1>3 DEF Planner

(* A step that places a literal while the rule is planned.                 *)
LEMMA PlaceInv ==
  ASSUME PlanInv, rule' = rule, pc' = "plan", Accepted,
         NEW i \in Indices \ Planned, Safe(i), Place(i),
         Planner \/ Lit(i).kind = "atom" \/ OfKind({"atom"}) \subseteq Planned
  PROVE  PlanInv'
<1>1. /\ order' \in Seq(Indices) /\ bound' \subseteq Vars
      /\ Len(order') = Len(order) + 1 /\ Len(order) \in Nat
      /\ \A k \in 1 .. Len(order) : order'[k] = order[k]
      /\ order'[Len(order) + 1] = i
      /\ \A j, k \in 1 .. Len(order') : order'[j] = order'[k] => j = k
      /\ Planned' = Planned \union {i}
      /\ bound' = UNION {Binds(Lit(j))' : j \in Planned'}
      /\ PlacedSafely'
  BY PlaceStep
<1>2. /\ Indices' = Indices /\ Accepted' /\ \A j : Lit(j)' = Lit(j)
      /\ Planner' = Planner /\ \A K : OfKind(K)' = OfKind(K)
  BY RuleStays
<1>3. rule' \in Rules /\ rule' \in Rule
  BY DEF PlanInv, TypeOK
<1>4. TypeOK'
  BY <1>1, <1>2, <1>3 DEF TypeOK
<1>5. ASSUME ~Planner, NEW j \in Planned, Lit(i).kind = "atom" PROVE Lit(j).kind = "atom"
  BY <1>5 DEF PlanInv, AtomsFirst, OfKind
<1>6. AtomsFirst'
  <2> SUFFICES ASSUME ~Planner, NEW j \in Planned', Lit(j).kind # "atom"
               PROVE  OfKind({"atom"}) \subseteq Planned \union {i}
    BY <1>1, <1>2 DEF AtomsFirst
  <2>1. CASE j = i
    BY <2>1
  <2>2. CASE j \in Planned
    BY <2>2 DEF PlanInv, AtomsFirst
  <2> QED
    BY <2>1, <2>2, <1>1
<1>7. TestsAfterAtoms'
  <2> SUFFICES ASSUME ~Planner, NEW j \in 1 .. Len(order'), NEW k \in 1 .. Len(order'),
                      j < k, Lit(order'[k]).kind = "atom"
               PROVE  Lit(order'[j]).kind = "atom"
    BY <1>2 DEF TestsAfterAtoms
  <2>1. j \in 1 .. Len(order) /\ order'[j] = order[j]
    BY <1>1
  <2>2. CASE k \in 1 .. Len(order)
    BY <1>1, <2>1, <2>2 DEF PlanInv, TestsAfterAtoms
  <2>3. CASE k = Len(order) + 1
    <3>1. order[j] \in Planned
      BY <2>1 DEF Planned
    <3> QED
      BY <1>1, <1>5, <2>1, <2>3, <3>1
  <2> QED
    BY <2>2, <2>3, <1>1
<1> QED
  BY <1>1, <1>2, <1>3, <1>4, <1>6, <1>7 DEF PlanInv

(* A step that leaves order and bound alone keeps what is said of them.    *)
LEMMA OrderStays ==
  ASSUME PlanInv, rule' = rule, order' = order, bound' = bound,
         pc' \in {"load", "ready", "rejected", "plan", "planned", "failed"}
  PROVE  /\ TypeOK' /\ rule' \in Rules /\ Planned' = Planned
         /\ (bound = UNION {Binds(Lit(i)) : i \in Planned})'
         /\ PlacedSafely' /\ TestsAfterAtoms' /\ AtomsFirst'
<1>1. /\ Indices' = Indices /\ Planner' = Planner /\ (\A j : Lit(j)' = Lit(j)) /\ \A K : OfKind(K)' = OfKind(K)
  BY RuleStays
<1>2. Planned' = Planned /\ rule' \in Rules
  BY DEF Planned, PlanInv
<1>3. TypeOK'
  BY <1>1 DEF TypeOK, PlanInv
<1>4. (bound = UNION {Binds(Lit(i)) : i \in Planned})'
  BY <1>2 DEF PlanInv, Binds, Lit, VarsOf
<1>5. PlacedSafely'
  <2>1. \A k : BoundBefore(k)' = BoundBefore(k)
    BY DEF BoundBefore, Binds, Lit, VarsOf
  <2>2. \A k : ReadsFrom(order[k], BoundBefore(k))' <=> ReadsFrom(order[k], BoundBefore(k))
    BY <2>1 DEF ReadsFrom, Lit, Keys, VarsOf
  <2> QED
    BY <2>2 DEF PlanInv, PlacedSafely
<1>6. TestsAfterAtoms' /\ AtomsFirst'
  BY <1>1, <1>2 DEF PlanInv, TestsAfterAtoms, AtomsFirst
<1> QED
  BY <1>2, <1>3, <1>4, <1>5, <1>6

LEMMA PlanInit == Init => PlanInv
<1> SUFFICES ASSUME Init PROVE PlanInv
  OBVIOUS
<1>1. rule \in Rules /\ pc = "load" /\ order = <<>> /\ bound = {}
  BY DEF Init
<1>2. order \in Seq(Indices) /\ Len(order) = 0
  BY <1>1, EmptySeq
<1>3. Planned = {}
  BY <1>2 DEF Planned
<1>4. rule \in Rule
  BY <1>1, PlanAssumption
<1>5. TypeOK
  BY <1>1, <1>2, <1>4 DEF TypeOK
<1>6. PlacedSafely /\ TestsAfterAtoms /\ AtomsFirst
  BY <1>2, <1>3 DEF PlacedSafely, TestsAfterAtoms, AtomsFirst
<1>7. bound = UNION {Binds(Lit(i)) : i \in Planned}
  BY <1>1, <1>3
<1> QED
  BY <1>1, <1>5, <1>6, <1>7 DEF PlanInv

(* Every step keeps the invariant.                                         *)
LEMMA PlanStep == PlanInv /\ [Next]_vars => PlanInv'
<1> SUFFICES ASSUME PlanInv, [Next]_vars PROVE PlanInv'
  OBVIOUS
<1>1. rule' = rule
  BY DEF Next, Load, StartPlan, ChooseBest, ChooseAggregate, PlannerChooses, PlanFails, Finish, vars
<1>2. (Accepted' <=> Accepted) /\ Planner' = Planner
  BY <1>1, RuleStays
<1>3. rule \in Rules /\ Planned \subseteq Indices
  <2>1. order \in Seq(Indices)
    BY DEF PlanInv, TypeOK
  <2>2. \A k \in 1 .. Len(order) : order[k] \in Indices
    BY <2>1, ElementOfSeq
  <2> QED
    BY <2>2 DEF PlanInv, Planned
<1>4. CASE Load
  <2>1. /\ pc' \in {"ready", "rejected"} /\ order' = order /\ bound' = bound /\ pc = "load"
        /\ pc' = "ready" => Accepted
    BY <1>4 DEF Load
  <2> QED
    BY <1>1, <1>2, <2>1, OrderStays DEF PlanInv
<1>5. CASE StartPlan
  <2>1. pc = "ready" /\ pc' = "plan" /\ Accepted
    BY <1>5 DEF StartPlan, PlanInv
  <2>2. CASE UNCHANGED <<order, bound>>
    BY <1>1, <1>2, <2>1, <2>2, OrderStays DEF PlanInv
  <2>3. CASE \E i \in OfKind({"atom"}) : Lit(i).idb /\ Place(i)
    <3>1. PICK i \in OfKind({"atom"}) : Place(i)
      BY <2>3
    <3>2. i \in Indices /\ Lit(i).kind = "atom" /\ Safe(i)
      BY DEF OfKind, Safe
    <3>3. Planned = {}
      <4>1. Len(order) = 0
        BY <2>1, EmptySeq DEF PlanInv
      <4> QED
        BY <4>1 DEF Planned
    <3> QED
      BY <1>1, <2>1, <3>1, <3>2, <3>3, PlaceInv
  <2> QED
    BY <1>5, <2>2, <2>3 DEF StartPlan
<1>6. CASE ChooseBest
  <2>1. pc = "plan" /\ pc' = "plan" /\ Accepted /\ ~Planner
    BY <1>6 DEF ChooseBest, Pending, PlanInv
  <2>2. PICK i \in Open :
          /\ \A j \in Open : Score(j) < Score(i) \/ (Score(j) = Score(i) /\ i <= j)
          /\ Place(i)
    BY <1>6 DEF ChooseBest
  <2>3. i \in Indices \ Planned /\ Safe(i)
    BY DEF Open
  <2>4. ASSUME Lit(i).kind # "atom", NEW j \in OfKind({"atom"}) PROVE j \in Planned
    <3> SUFFICES ASSUME j \notin Planned PROVE FALSE
      OBVIOUS
    <3>1. j \in Indices /\ Lit(j).kind = "atom"
      BY DEF OfKind
    <3>2. j \in Open
      BY <3>1 DEF Open, Safe
    <3>3. Score(j) > 0 /\ Score(j) \in Int /\ Score(i) = 0
      BY <1>3, <2>3, <2>4, <3>1, ScoreRange
    <3> QED
      BY <2>2, <3>2, <3>3
  <2> QED
    BY <1>1, <2>1, <2>2, <2>3, <2>4, PlaceInv
<1>7. CASE ChooseAggregate
  <2>1. pc = "plan" /\ pc' = "plan" /\ Accepted /\ Planner
    BY <1>7 DEF ChooseAggregate, Pending, PlanInv
  <2>2. PICK i \in ReadyAggregates : Place(i)
    BY <1>7 DEF ChooseAggregate
  <2>3. i \in Indices \ Planned /\ Safe(i)
    BY DEF Open, ReadyAggregates
  <2> QED
    BY <1>1, <2>1, <2>2, <2>3, PlaceInv
<1>8. CASE PlannerChooses
  <2>1. pc = "plan" /\ pc' = "plan" /\ Accepted /\ Planner
    BY <1>8 DEF PlannerChooses, Pending, PlanInv
  <2>2. PICK i \in Open : Place(i)
    BY <1>8 DEF PlannerChooses
  <2>3. i \in Indices \ Planned /\ Safe(i)
    BY DEF Open
  <2> QED
    BY <1>1, <2>1, <2>2, <2>3, PlaceInv
<1>9. CASE PlanFails
  <2>1. /\ pc = "plan" /\ Accepted /\ pc' = "failed" /\ order' = order /\ bound' = bound
        /\ Planned # Indices /\ (~Planner => Open = {})
    BY <1>9 DEF PlanFails, Pending, PlanInv
  <2>2. Open # {}
    BY <1>3, <2>1, SomethingIsSafe DEF PlanInv
  <2> QED
    BY <1>1, <1>2, <2>1, <2>2, OrderStays DEF PlanInv
<1>10. CASE Finish
  <2>1. /\ pc = "plan" /\ Accepted /\ pc' = "planned" /\ order' = order /\ bound' = bound
        /\ Planned = Indices
    BY <1>10 DEF Finish, PlanInv
  <2>2. Indices' = Indices
    BY <1>1, RuleStays
  <2> QED
    BY <1>1, <1>2, <2>1, <2>2, OrderStays DEF PlanInv
<1>11. CASE UNCHANGED vars
  <2>1. pc' = pc /\ order' = order /\ bound' = bound /\ Indices' = Indices
    BY <1>1, <1>11, RuleStays DEF vars
  <2>2. pc' \in {"load", "ready", "rejected", "plan", "planned", "failed"}
    BY <2>1 DEF PlanInv, TypeOK
  <2> QED
    BY <1>1, <1>2, <2>1, <2>2, OrderStays DEF PlanInv
<1> QED
  BY <1>4, <1>5, <1>6, <1>7, <1>8, <1>9, <1>10, <1>11 DEF Next

(* The inductive invariant of loading and ordering a rule.                 *)
THEOREM PlanInvariant == Spec => []PlanInv
  BY PlanInit, PlanStep, PTL DEF Spec

(* Whatever rule was accepted, a literal can always be placed, and the     *)
(* built-in choice never fails.                                            *)
THEOREM AcceptedNeverStuck == Spec => []NeverStuck
<1>1. PlanInv => NeverStuck
  <2> SUFFICES ASSUME PlanInv, Pending PROVE Open # {}
    BY DEF NeverStuck, PlanInv
  <2>1. \A k \in 1 .. Len(order) : order[k] \in Indices
    BY ElementOfSeq DEF PlanInv, TypeOK
  <2>2. Planned \subseteq Indices
    BY <2>1 DEF Planned
  <2> QED
    BY <2>2, SomethingIsSafe DEF PlanInv, Pending
<1> QED
  BY <1>1, PlanInvariant, PTL

(* Every order is safe to evaluate, and binds the head.                    *)
THEOREM OrdersAreSafe == Spec => []OrderIsSafe
<1>1. PlanInv => OrderIsSafe
  <2> SUFFICES ASSUME PlanInv PROVE OrderIsSafe
    OBVIOUS
  <2>1. Len(order) \in Nat
    BY LenProperties DEF PlanInv, TypeOK
  <2>2. ASSUME pc = "planned" PROVE rule.head \subseteq BoundBefore(Len(order) + 1)
    <3>1. {order[j] : j \in 1 .. (Len(order) + 1) - 1} = Planned
      BY <2>1 DEF Planned
    <3>2. BoundBefore(Len(order) + 1) = bound
      BY <3>1 DEF BoundBefore, PlanInv
    <3>3. Planned = Indices /\ Accepted
      BY <2>2 DEF PlanInv
    <3>4. BodyVars \subseteq bound
      <4>1. ASSUME NEW i \in OfKind({"atom"}) PROVE VarsOf(Lit(i)) \subseteq bound
        <5>1. Binds(Lit(i)) = VarsOf(Lit(i)) /\ i \in Planned
          BY <3>3 DEF OfKind, Binds
        <5> QED
          BY <5>1 DEF PlanInv
      <4>2. ASSUME NEW i \in OfKind({"aggregate"}) PROVE Lit(i).out \in bound
        <5>1. Binds(Lit(i)) = {Lit(i).out} /\ i \in Planned
          BY <3>3 DEF OfKind, Binds
        <5> QED
          BY <5>1 DEF PlanInv
      <4> QED
        BY <4>1, <4>2 DEF BodyVars, PositiveVars
    <3> QED
      BY <3>2, <3>3, <3>4 DEF Accepted
  <2> QED
    BY <2>2 DEF OrderIsSafe, PlanInv, PlacedSafely, ReadsFrom
<1> QED
  BY <1>1, PlanInvariant, PTL

(* No variable local to an aggregate is ever bound.                        *)
THEOREM LocalsNeverBound == Spec => []LocalsStayLocal
<1>1. PlanInv => LocalsStayLocal
  <2> SUFFICES ASSUME PlanInv, NEW i \in OfKind({"aggregate"})
               PROVE  bound \intersect Locals(Lit(i)) = {}
    BY DEF LocalsStayLocal
  <2>1. CASE Accepted
    <3>1. \A k \in 1 .. Len(order) : order[k] \in Indices
      BY ElementOfSeq DEF PlanInv, TypeOK
    <3>2. \A j \in Planned : Binds(Lit(j)) \subseteq BodyVars
      BY <2>1, <3>1, BoundIsOutside DEF Planned, PlanInv
    <3>3. bound \subseteq Outside
      BY <3>2 DEF PlanInv, Outside
    <3> QED
      BY <2>1, <3>3 DEF Accepted
  <2>2. CASE ~Accepted
    <3>1. order = <<>>
      BY <2>2 DEF PlanInv, TypeOK
    <3>2. Len(order) = 0
      BY <3>1, EmptySeq
    <3>3. Planned = {}
      BY <3>2 DEF Planned
    <3> QED
      BY <3>3 DEF PlanInv
  <2> QED
    BY <2>1, <2>2
<1> QED
  BY <1>1, PlanInvariant, PTL

(* The built-in order tries every atom before any test.                    *)
THEOREM AtomsComeFirst == Spec => []TestsAfterAtoms
<1>1. PlanInv => TestsAfterAtoms
  BY DEF PlanInv
<1> QED
  BY <1>1, PlanInvariant, PTL
=============================================================================

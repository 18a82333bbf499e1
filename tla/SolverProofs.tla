---------------------------- MODULE SolverProofs ----------------------------
(* Semi-naive evaluation by strata computes the perfect model, for every    *)
(* validated program, every EDB, every depth bound and every capacity.      *)
EXTENDS Solver, SequenceTheorems, FiniteSetTheorems, TLAPS

-----------------------------------------------------------------------------
(* The shape of rules and instances. *)

LEMMA RuleCount == Len(Rules) \in Nat
<1>1. Rules \in Seq([head : IdbPreds, body : Seq(Literals)])
  BY ProgramAssumption
<1> QED
  BY <1>1, LenProperties

LEMMA RuleShape ==
  ASSUME NEW r \in RuleIds
  PROVE  /\ Rules[r].head \in IdbPreds
         /\ Stratum[Rules[r].head] \in Strata
         /\ Len(Body(r)) \in Nat
         /\ \A k \in 1 .. Len(Body(r)) : Body(r)[k].kind \in {"atom", "closed"}
<1>1. Rules[r] \in [head : IdbPreds, body : Seq(Literals)]
  <2>1. Rules \in Seq([head : IdbPreds, body : Seq(Literals)])
    BY ProgramAssumption
  <2> QED
    BY <2>1, ElementOfSeq DEF RuleIds
<1>2. Body(r) \in Seq(Literals)
  BY <1>1 DEF Body
<1>3. \A k \in 1 .. Len(Body(r)) : Body(r)[k] \in Literals
  BY <1>2
<1>4. \A k \in 1 .. Len(Body(r)) : Body(r)[k].kind \in {"atom", "closed"}
  BY <1>3 DEF Literals
<1>5. Stratum[Rules[r].head] \in Strata
  BY <1>1, ProgramAssumption DEF Strata
<1> QED
  BY <1>1, <1>2, <1>4, <1>5

\* A head belongs to the stratum of its rule.
LEMMA HeadStratum ==
  ASSUME NEW r \in RuleIds, NEW inst \in Instances[r]
  PROVE  inst.head \in StratumFacts(Stratum[Rules[r].head])
  BY InstanceAssumption, RuleShape DEF StratumFacts

-----------------------------------------------------------------------------
(* What the windows hold. *)

\* The windows hold facts of their strata.
Windows ==
  /\ edb \in Snapshots /\ stratum \in Strata
  /\ frozen \in [Strata -> SUBSET Facts]
  /\ \A s \in Strata : frozen[s] \subseteq StratumFacts(s)
  /\ current \subseteq StratumFacts(stratum) /\ merge \subseteq StratumFacts(stratum)
  /\ delta \subseteq current

LEMMA BaseIsNotDerived ==
  ASSUME Windows, NEW f \in Base
  PROVE  f \in Facts /\ PredOf[f] \notin IdbPreds
  BY ProgramAssumption DEF Windows, Base

\* A fact of stratum s is stored in the slice of s or nowhere below.
LEMMA BelowByStratum ==
  ASSUME Windows, NEW n \in Nat, n <= MaxStratum + 1, NEW f \in Facts
  PROVE  /\ PredOf[f] \notin IdbPreds => (f \in Below(n) <=> f \in Base)
         /\ PredOf[f] \in IdbPreds /\ Stratum[PredOf[f]] < n =>
              (f \in Below(n) <=> f \in frozen[Stratum[PredOf[f]]])
         /\ PredOf[f] \in IdbPreds /\ ~(Stratum[PredOf[f]] < n) => f \notin Below(n)
<1>1. 0 .. n - 1 \subseteq Strata
  BY ProgramAssumption DEF Strata
<1>2. \A t \in 0 .. n - 1 : f \in frozen[t] => PredOf[f] \in IdbPreds /\ Stratum[PredOf[f]] = t
  BY <1>1 DEF Windows, StratumFacts
<1>3. f \in Below(n) <=> f \in Base \/ \E t \in 0 .. n - 1 : f \in frozen[t]
  BY DEF Below
<1>4. PredOf[f] \in IdbPreds => f \notin Base
  BY BaseIsNotDerived
<1>5. PredOf[f] \in IdbPreds => Stratum[PredOf[f]] \in Nat
  BY ProgramAssumption
<1>6. PredOf[f] \in IdbPreds /\ Stratum[PredOf[f]] < n => Stratum[PredOf[f]] \in 0 .. n - 1
  BY <1>5
<1> QED
  BY <1>2, <1>3, <1>4, <1>6

\* Looking an atom up in the window of its predicate finds what the strata below and
\* the accepted facts hold: solve_once_idb_scan_window hides nothing.
LEMMA AtomLookup ==
  ASSUME Windows, NEW r \in RuleIds, InStratum(r), NEW inst \in Instances[r],
         NEW k \in 1 .. Len(Body(r)), Body(r)[k].kind = "atom"
  PROVE  inst.lit[k] \in ScanWindow(Body(r)[k].pred)
           <=> inst.lit[k] \in Below(stratum) \union current
<1> DEFINE p == Body(r)[k].pred
           f == inst.lit[k]
<1>1. f \in Facts /\ PredOf[f] = p
  BY InstanceAssumption
<1>2. p \in IdbPreds => Stratum[p] <= stratum /\ Stratum[p] \in Nat
  BY StratificationAssumption, ProgramAssumption DEF InStratum
<1>3. stratum \in Nat /\ stratum <= MaxStratum + 1
  BY ProgramAssumption DEF Windows, Strata
<1>4. f \in current => p \in IdbPreds /\ Stratum[p] = stratum
  BY <1>1 DEF Windows, StratumFacts
<1>5. /\ p \notin IdbPreds => (f \in Below(stratum) <=> f \in Base)
      /\ p \in IdbPreds /\ Stratum[p] < stratum =>
           (f \in Below(stratum) <=> f \in frozen[Stratum[p]])
      /\ p \in IdbPreds /\ ~(Stratum[p] < stratum) => f \notin Below(stratum)
  BY <1>1, <1>3, BelowByStratum
<1> HIDE DEF p, f
<1>6. f \in ScanWindow(p) <=> f \in Below(stratum) \union current
  BY <1>2, <1>3, <1>4, <1>5 DEF ScanWindow
<1> QED
  BY <1>6 DEF p, f

\* A closed literal reads what the strata below hold of its group.
LEMMA ClosedLookup ==
  ASSUME Windows, NEW r \in RuleIds, InStratum(r), NEW inst \in Instances[r],
         NEW k \in 1 .. Len(Body(r)), Body(r)[k].kind # "atom"
  PROVE  FrozenSource(Body(r)[k].pred) \intersect inst.lit[k].group
           = Below(stratum) \intersect inst.lit[k].group
<1> DEFINE p == Body(r)[k].pred
           g == inst.lit[k].group
<1>1. \A f \in g : f \in Facts /\ PredOf[f] = p
  <2>1. inst.lit[k] \in Readings /\ \A f \in inst.lit[k].group : PredOf[f] = Body(r)[k].pred
    BY InstanceAssumption
  <2> QED
    BY <2>1 DEF Readings
<1>2. p \in IdbPreds => Stratum[p] < stratum
  BY StratificationAssumption DEF InStratum
<1>3. stratum \in Nat /\ stratum <= MaxStratum + 1
  BY ProgramAssumption DEF Windows, Strata
<1> HIDE DEF p, g
<1>4. \A f \in g : f \in FrozenSource(p) <=> f \in Below(stratum)
  BY <1>1, <1>2, <1>3, BelowByStratum DEF FrozenSource
<1>5. FrozenSource(p) \intersect g = Below(stratum) \intersect g
  BY <1>4
<1> QED
  BY <1>5 DEF p, g

-----------------------------------------------------------------------------
(* What a rule application derives. *)

LEMMA SatisfiedMonotone ==
  ASSUME NEW r, NEW inst, NEW below, NEW A, NEW B, A \subseteq B,
         Satisfied(r, inst, below, A)
  PROVE  Satisfied(r, inst, below, B)
  BY DEF Satisfied

\* A join literal: none reads delta, or one atom of the active stratum does.
JoinOn(r, d) == d = NoLiteral \/ (d \in 1 .. Len(Body(r)) /\ DeltaEligible(r, d))

\* An instance passes the join exactly when its body is true and, if a literal reads
\* delta, that literal is a fact of the last round.
LEMMA InstanceFires ==
  ASSUME Windows, NEW r \in RuleIds, InStratum(r), NEW inst \in Instances[r],
         NEW d, JoinOn(r, d)
  PROVE  (\A k \in 1 .. Len(Body(r)) :
            Holds(r, inst, k, d) /\ (Body(r)[k].kind = "closed" => ~inst.lit[k].fatal))
         <=> /\ Satisfied(r, inst, Below(stratum), current)
             /\ d # NoLiteral => inst.lit[d] \in delta
<1> DEFINE n == Len(Body(r))
           true(k) == IF Body(r)[k].kind = "atom"
                      THEN inst.lit[k] \in Below(stratum) \union current
                      ELSE Below(stratum) \intersect inst.lit[k].group = inst.lit[k].present
                             /\ ~inst.lit[k].fatal
           passes(k) == Holds(r, inst, k, d)
                          /\ (Body(r)[k].kind = "closed" => ~inst.lit[k].fatal)
<1>1. ASSUME NEW k \in 1 .. n, k # d PROVE passes(k) <=> true(k)
  <2>1. CASE Body(r)[k].kind = "atom"
    BY <1>1, <2>1, AtomLookup DEF Holds
  <2>2. CASE Body(r)[k].kind # "atom"
    <3>1. Body(r)[k].kind = "closed"
      BY <2>2, RuleShape
    <3> QED
      BY <1>1, <2>2, <3>1, ClosedLookup DEF Holds
  <2> QED
    BY <2>1, <2>2
<1>2. ASSUME NEW k \in 1 .. n, k = d
      PROVE  /\ passes(k) <=> inst.lit[k] \in delta
             /\ inst.lit[k] \in delta => true(k)
  <2>1. Body(r)[k].kind = "atom"
    BY <1>2, RuleShape DEF JoinOn, NoLiteral, DeltaEligible
  <2> QED
    BY <1>2, <2>1 DEF Holds, Windows
<1>3. d # NoLiteral => d \in 1 .. n
  BY DEF JoinOn
<1>4. d = NoLiteral => d \notin 1 .. n
  BY DEF NoLiteral
<1>5. Satisfied(r, inst, Below(stratum), current) <=> \A k \in 1 .. n : true(k)
  BY DEF Satisfied
<1> HIDE DEF n, true, passes
<1>6. (\A k \in 1 .. n : passes(k))
        <=> (\A k \in 1 .. n : true(k)) /\ (d # NoLiteral => inst.lit[d] \in delta)
  BY <1>1, <1>2, <1>3, <1>4
<1> QED
  BY <1>5, <1>6 DEF n, passes

\* The instance of rule r is true for what the solve has accepted.
True(r, inst) == Satisfied(r, inst, Below(stratum), current)

\* The instances a join on literal d must have derived.
Derives(r, d) ==
  {inst \in Instances[r] : True(r, inst) /\ (d # NoLiteral => inst.lit[d] \in delta)}

LEMMA HeadsOfDerived ==
  ASSUME Windows, NEW r \in RuleIds, InStratum(r), NEW d, JoinOn(r, d)
  PROVE  Heads(r, d) = {inst.head : inst \in Derives(r, d)}
<1>1. Firing(r, d) = Derives(r, d)
  BY InstanceFires DEF Firing, Derives, True
<1> QED
  BY <1>1 DEF Heads

\* The counters count the entries the windows hold, each once.
CountersExact ==
  /\ used = Cardinality(Derived)
  /\ \A p \in IdbPreds : per_pred[p] = Cardinality({f \in Derived : PredOf[f] = p})

LEMMA SameCounters ==
  ASSUME CountersExact, Derived' = Derived, used' = used, per_pred' = per_pred
  PROVE  CountersExact'
  BY DEF CountersExact

\* Disjoint sets add up.
LEMMA DisjointCount ==
  ASSUME NEW S, NEW T, IsFiniteSet(S), IsFiniteSet(T), S \intersect T = {}
  PROVE  Cardinality(S \union T) = Cardinality(S) + Cardinality(T)
<1>1. Cardinality(S \intersect T) = 0
  BY FS_EmptySet
<1>2. Cardinality(S) \in Nat /\ Cardinality(T) \in Nat
  BY FS_CardinalityType
<1>3. Cardinality(S \union T) = Cardinality(S) + Cardinality(T) - Cardinality(S \intersect T)
  BY FS_Union
<1> QED
  BY <1>1, <1>2, <1>3

\* A rule application appends new facts only, all of one predicate.
LEMMA AppendedCounts ==
  ASSUME Windows, NEW r \in RuleIds, InStratum(r), NEW d, JoinOn(r, d)
  PROVE  LET fresh == Fresh(Heads(r, d))
             p == Rules[r].head
         IN  /\ IsFiniteSet(fresh) /\ Appended(r, d) = Cardinality(fresh) /\ Appended(r, d) \in Nat
             /\ Cardinality(Derived) \in Nat
             /\ Cardinality({f \in Derived : PredOf[f] = p}) \in Nat
             /\ Cardinality(Derived \union fresh) = Cardinality(Derived) + Appended(r, d)
             /\ Cardinality({f \in Derived \union fresh : PredOf[f] = p})
                  = Cardinality({f \in Derived : PredOf[f] = p}) + Appended(r, d)
             /\ \A q : q # p => {f \in Derived \union fresh : PredOf[f] = q}
                                = {f \in Derived : PredOf[f] = q}
             /\ \A f \in fresh : PredOf[f] = p
<1> DEFINE fresh == Fresh(Heads(r, d))
           p == Rules[r].head
           ofP == {f \in Derived : PredOf[f] = p}
<1>1. fresh \subseteq Facts /\ \A f \in fresh : PredOf[f] = p
  BY HeadsOfDerived, InstanceAssumption DEF Fresh, Derives
<1>2. fresh \intersect Derived = {}
  BY DEF Fresh
<1>3. Derived \subseteq Facts
  BY DEF Derived, Windows, StratumFacts
<1> HIDE DEF fresh
<1>4. IsFiniteSet(fresh) /\ IsFiniteSet(Derived) /\ IsFiniteSet(ofP)
  BY <1>1, <1>3, ProgramAssumption, FS_Subset
<1>5. Cardinality(fresh) \in Nat /\ Cardinality(Derived) \in Nat /\ Cardinality(ofP) \in Nat
  BY <1>4, FS_CardinalityType
<1>6. Cardinality(Derived \union fresh) = Cardinality(Derived) + Cardinality(fresh)
  <2>1. Derived \intersect fresh = {}
    BY <1>2
  <2> QED
    BY <1>4, <2>1, DisjointCount
<1>7. Cardinality(ofP \union fresh) = Cardinality(ofP) + Cardinality(fresh)
  <2>1. ofP \intersect fresh = {}
    BY <1>2
  <2> QED
    BY <1>4, <2>1, DisjointCount
<1>8. {f \in Derived \union fresh : PredOf[f] = p} = ofP \union fresh
  BY <1>1
<1>9. Appended(r, d) = Cardinality(fresh)
  BY DEF Appended, fresh
<1>10. \A q : q # p => {f \in Derived \union fresh : PredOf[f] = q} = {f \in Derived : PredOf[f] = q}
  BY <1>1
<1> QED
  BY <1>1, <1>4, <1>5, <1>6, <1>7, <1>8, <1>9, <1>10 DEF fresh

\* Strata from the active one on have no slice while the solve runs.
Unfrozen == \A s \in Strata : s >= stratum => frozen[s] = {}

\* Whatever satisfies the active stratum contains all that was derived in it.
Sound ==
  \A M \in SUBSET StratumFacts(stratum) :
    ClosedUnder(stratum, Below(stratum), M) => current \union merge \subseteq M

\* A rule application appends every head it must derive, and nothing that a model of
\* the stratum lacks.
LEMMA ApplyDerives ==
  ASSUME Windows, Unfrozen, Sound, NEW r \in RuleIds, InStratum(r), NEW d, JoinOn(r, d),
         Apply(r, d)
  PROVE  /\ merge \subseteq merge'
         /\ merge' \subseteq StratumFacts(stratum)
         /\ merge' \subseteq merge \union Heads(r, d)
         /\ \A inst \in Derives(r, d) : inst.head \in current \union merge'
         /\ \A M \in SUBSET StratumFacts(stratum) :
              ClosedUnder(stratum, Below(stratum), M) => current \union merge' \subseteq M
<1>1. merge' = merge \union (Heads(r, d) \ (Base \union Derived))
  BY DEF Apply, Fresh
<1>2. Heads(r, d) = {inst.head : inst \in Derives(r, d)}
  BY HeadsOfDerived
<1>3. Heads(r, d) \subseteq StratumFacts(stratum)
  BY <1>2, HeadStratum DEF Derives, InStratum
<1>4. \A f \in StratumFacts(stratum) : f \notin Base
  BY BaseIsNotDerived DEF StratumFacts
<1>5. \A f \in StratumFacts(stratum) : \A s \in Strata : f \notin frozen[s]
  <2> SUFFICES ASSUME NEW f \in StratumFacts(stratum), NEW s \in Strata, f \in frozen[s]
               PROVE  FALSE
    OBVIOUS
  <2>1. Stratum[PredOf[f]] = stratum /\ Stratum[PredOf[f]] = s
    BY DEF Windows, StratumFacts
  <2>2. s >= stratum
    BY <2>1, ProgramAssumption DEF Strata
  <2> QED
    BY <2>2 DEF Unfrozen
<1>6. Heads(r, d) \subseteq current \union merge'
  BY <1>1, <1>3, <1>4, <1>5 DEF Derived
<1>7. current \union merge \subseteq Derived
  BY DEF Derived
<1>8. ASSUME NEW M \in SUBSET StratumFacts(stratum), ClosedUnder(stratum, Below(stratum), M)
      PROVE  current \union merge' \subseteq M
  <2>1. current \union merge \subseteq M
    BY <1>8 DEF Sound
  <2>2. ASSUME NEW inst \in Derives(r, d) PROVE inst.head \in M
    <3>1. Satisfied(r, inst, Below(stratum), M)
      BY <2>1, SatisfiedMonotone DEF Derives, True
    <3> QED
      BY <1>8, <3>1 DEF ClosedUnder, Derives, InStratum
  <2> QED
    BY <1>1, <1>2, <2>1, <2>2
<1> QED
  BY <1>1, <1>2, <1>3, <1>6, <1>7, <1>8 DEF Windows

-----------------------------------------------------------------------------
(* The inductive invariant. *)

\* The base round has derived the heads of the rules it has passed.
BaseDone ==
  \A r \in RuleIds : InStratum(r) /\ r < rule =>
    \A inst \in Instances[r] : True(r, inst) => inst.head \in current \union merge

\* Instances that need no fact of the last round were derived before it.
OldDone ==
  \A r \in RuleIds : InStratum(r) =>
    \A inst \in Instances[r] :
      Satisfied(r, inst, Below(stratum), current \ delta) => inst.head \in current

\* A recursive round has derived the instances whose delta literal it has passed.
DeltaDone ==
  \A r \in RuleIds : InStratum(r) =>
    \A inst \in Instances[r], k \in 1 .. Len(Body(r)) :
      /\ r < rule \/ (r = rule /\ k < literal)
      /\ DeltaEligible(r, k) /\ inst.lit[k] \in delta
      /\ True(r, inst)
      => inst.head \in current \union merge

\* The slices of finished strata are their least models.
LowerModels == \A s \in Strata : s < stratum => LeastClosed(s, Below(s), frozen[s])

Running == pc \in {"base", "top", "delta"}

SolverInv ==
  /\ TypeOK /\ CountersExact /\ LowerModels /\ PerfectModel /\ OverflowIsReal
  /\ pc # "failed" => reason = "none"
  /\ Running => Unfrozen /\ Sound
  /\ pc = "base" => current = {} /\ BaseDone
  /\ pc = "top" => merge = {} /\ OldDone
  /\ pc = "delta" => OldDone /\ DeltaDone /\ depth <= MaxDepth /\ literal > 0

LEMMA SameBelow ==
  ASSUME edb' = edb, frozen' = frozen, stratum' = stratum
  PROVE  /\ Base' = Base
         /\ \A s \in Strata : Below(s)' = Below(s)
         /\ Below(stratum)' = Below(stratum)
  BY DEF Below, Base

LEMMA TypesOfWindows == TypeOK => Windows
  BY DEF TypeOK, Windows

\* Every set that satisfies the active stratum is too large for the result.
NoRoom ==
  \A M \in SUBSET StratumFacts(stratum) :
    ClosedUnder(stratum, Below(stratum), M) =>
      \/ Cardinality((UNION {frozen[s] : s \in Strata}) \union M) > Capacity
      \/ \E p \in IdbPreds : Cardinality({f \in M : PredOf[f] = p}) > PerPredicate

\* Heads that do not fit are in every set that satisfies the stratum.
LEMMA OverflowNoRoom ==
  ASSUME Windows, CountersExact, Unfrozen, Sound, NEW r \in RuleIds, InStratum(r), NEW d,
         JoinOn(r, d), ~Fits(r, Appended(r, d))
  PROVE  NoRoom
<1> DEFINE fresh == Fresh(Heads(r, d))
           old == UNION {frozen[s] : s \in Strata}
<1>1. fresh \subseteq Heads(r, d) /\ Heads(r, d) = {inst.head : inst \in Derives(r, d)}
  BY HeadsOfDerived DEF Fresh
<1>2. fresh \subseteq StratumFacts(stratum)
  BY <1>1, HeadStratum DEF Derives, InStratum
<1>3. Derived = old \union current \union merge
  BY DEF Derived
<1>4. old \subseteq Facts /\ \A f \in old : f \notin StratumFacts(stratum)
  <2> SUFFICES ASSUME NEW s \in Strata, NEW f \in frozen[s]
               PROVE  f \in Facts /\ f \notin StratumFacts(stratum)
    OBVIOUS
  <2>1. f \in Facts /\ Stratum[PredOf[f]] = s
    BY DEF Windows, StratumFacts
  <2>2. s = stratum => frozen[s] = {}
    BY ProgramAssumption DEF Unfrozen, Strata
  <2> QED
    BY <2>1, <2>2 DEF StratumFacts
<1> HIDE DEF fresh, old
<1> SUFFICES ASSUME NEW M \in SUBSET StratumFacts(stratum),
                    ClosedUnder(stratum, Below(stratum), M)
             PROVE  \/ Cardinality(old \union M) > Capacity
                    \/ \E p \in IdbPreds : Cardinality({f \in M : PredOf[f] = p}) > PerPredicate
  BY DEF NoRoom, old
<1>5. current \union merge \union fresh \subseteq M
  <2>1. current \union merge \subseteq M
    BY DEF Sound
  <2>2. ASSUME NEW inst \in Derives(r, d) PROVE inst.head \in M
    <3>1. Satisfied(r, inst, Below(stratum), M)
      BY <2>1, SatisfiedMonotone DEF Derives, True
    <3> QED
      BY <3>1 DEF ClosedUnder, Derives, InStratum
  <2> QED
    BY <1>1, <2>1, <2>2
<1>6. M \subseteq Facts /\ IsFiniteSet(Facts)
  BY ProgramAssumption DEF StratumFacts
<1>7. CASE ~(Cardinality(Derived \union fresh) <= Capacity)
  <2>1. Derived \union fresh \subseteq old \union M
    BY <1>3, <1>5
  <2>2. IsFiniteSet(old \union M)
    BY <1>4, <1>6, FS_Subset
  <2>3. /\ Cardinality(Derived \union fresh) \in Nat /\ Cardinality(old \union M) \in Nat
        /\ Cardinality(Derived \union fresh) <= Cardinality(old \union M)
    BY <2>1, <2>2, FS_Subset, FS_CardinalityType
  <2> QED
    BY <1>7, <2>3, ProgramAssumption
<1>8. ASSUME NEW g \in fresh,
             ~(Cardinality({f \in Derived \union fresh : PredOf[f] = PredOf[g]}) <= PerPredicate)
      PROVE  \E p \in IdbPreds : Cardinality({f \in M : PredOf[f] = p}) > PerPredicate
  <2> DEFINE p == PredOf[g]
             kept == {f \in Derived \union fresh : PredOf[f] = p}
             wanted == {f \in M : PredOf[f] = p}
  <2>1. p \in IdbPreds /\ Stratum[p] = stratum
    BY <1>2 DEF StratumFacts
  <2>2. \A f \in kept : f \in M
    <3> SUFFICES ASSUME NEW f \in kept, f \in old PROVE FALSE
      BY <1>3, <1>5
    <3>1. f \in StratumFacts(stratum)
      BY <1>4, <2>1 DEF StratumFacts
    <3> QED
      BY <1>4, <3>1
  <2>3. kept \subseteq wanted /\ IsFiniteSet(wanted)
    BY <1>6, <2>2, FS_Subset
  <2>4. /\ Cardinality(kept) \in Nat /\ Cardinality(wanted) \in Nat
        /\ Cardinality(kept) <= Cardinality(wanted)
    BY <2>3, FS_Subset, FS_CardinalityType
  <2>5. Cardinality(wanted) > PerPredicate
    BY <1>8, <2>4, ProgramAssumption
  <2> QED
    BY <2>1, <2>5
<1>9. CASE ~(Cardinality({f \in Derived \union fresh : PredOf[f] = Rules[r].head}) <= PerPredicate)
  <2>1. PICK g \in fresh : TRUE
    <3>1. fresh # {}
      <4>1. Cardinality(fresh) > 0
        BY AppendedCounts DEF Fits, fresh
      <4> QED
        BY <4>1, FS_EmptySet
    <3> QED
      BY <3>1
  <2>2. PredOf[g] = Rules[r].head
    BY AppendedCounts DEF fresh
  <2> QED
    BY <1>8, <1>9, <2>2
<1>10. /\ used + Appended(r, d) = Cardinality(Derived \union fresh)
       /\ per_pred[Rules[r].head] + Appended(r, d)
            = Cardinality({f \in Derived \union fresh : PredOf[f] = Rules[r].head})
  <2>1. Rules[r].head \in IdbPreds
    BY RuleShape
  <2> QED
    BY <2>1, AppendedCounts DEF CountersExact, fresh
<1> QED
  BY <1>7, <1>9, <1>10 DEF Fits

\* A failure keeps the windows and ends the solve.
LEMMA FailInv ==
  ASSUME SolverInv, NEW why \in {"max_depth", "overflow", "error"}, Fail(why),
         why = "overflow" => NoRoom
  PROVE  SolverInv'
<1> USE DEF Fail, storeVars
<1>1. Base' = Base /\ \A s \in Strata : Below(s)' = Below(s)
  BY SameBelow
<1>2. TypeOK'
  BY DEF SolverInv, TypeOK
<1>3. CountersExact'
  <2>1. Derived' = Derived /\ used' = used /\ per_pred' = per_pred
    BY DEF Derived
  <2>2. CountersExact
    BY DEF SolverInv
  <2> QED
    BY <2>1, <2>2, SameCounters
<1>4. LowerModels'
  BY <1>1 DEF SolverInv, LowerModels
<1>5. PerfectModel'
  BY DEF PerfectModel
<1>6. OverflowIsReal'
  <2>1. Below(stratum)' = Below(stratum)
    BY SameBelow
  <2> QED
    BY <2>1 DEF OverflowIsReal, NoRoom
<1> QED
  BY <1>2, <1>3, <1>4, <1>5, <1>6 DEF SolverInv, Running

LEMMA ApplyFailsInv ==
  ASSUME SolverInv, pc \in {"base", "delta"}, NEW r \in RuleIds, InStratum(r), NEW d,
         JoinOn(r, d), ApplyFails(r, d)
  PROVE  SolverInv'
<1>1. Windows /\ CountersExact /\ Unfrozen /\ Sound
  BY TypesOfWindows DEF SolverInv, Running
<1>2. CASE Fail("error")
  BY <1>2, FailInv
<1>3. CASE ~Fits(r, Appended(r, d)) /\ Fail("overflow")
  BY <1>1, <1>3, OverflowNoRoom, FailInv
<1> QED
  BY <1>2, <1>3 DEF ApplyFails

\* What every successful rule application keeps.
LEMMA ApplyInv ==
  ASSUME SolverInv, pc \in {"base", "delta"}, NEW r \in RuleIds, InStratum(r), NEW d,
         JoinOn(r, d), Apply(r, d), rule' \in 1 .. Len(Rules) + 1, literal' \in Nat
  PROVE  /\ TypeOK' /\ CountersExact' /\ LowerModels' /\ PerfectModel' /\ OverflowIsReal'
         /\ pc' = pc /\ reason' = reason /\ Unfrozen' /\ Sound'
         /\ merge \subseteq merge'
         /\ \A inst \in Derives(r, d) : inst.head \in current \union merge'
<1>1. Windows /\ Unfrozen /\ Sound
  BY TypesOfWindows DEF SolverInv, Running
<1>2. /\ merge \subseteq merge'
      /\ merge' \subseteq StratumFacts(stratum)
      /\ \A inst \in Derives(r, d) : inst.head \in current \union merge'
      /\ \A M \in SUBSET StratumFacts(stratum) :
           ClosedUnder(stratum, Below(stratum), M) => current \union merge' \subseteq M
  BY <1>1, ApplyDerives
<1>3. UNCHANGED <<pc, reason, edb, stratum, frozen, current, delta, depth>>
  BY DEF Apply
<1>4. Base' = Base /\ Below(stratum)' = Below(stratum) /\ \A s \in Strata : Below(s)' = Below(s)
  BY <1>3, SameBelow
<1>5. TypeOK'
  <2>1. Appended(r, d) \in Nat
    BY <1>1, AppendedCounts
  <2>2. used \in Nat /\ per_pred \in [IdbPreds -> Nat]
    BY DEF SolverInv, TypeOK
  <2>3. /\ used' = used + Appended(r, d)
        /\ per_pred' = [per_pred EXCEPT ![Rules[r].head] = @ + Appended(r, d)]
    BY DEF Apply
  <2>4. used' \in Nat
    BY <2>1, <2>2, <2>3
  <2>5. per_pred' \in [IdbPreds -> Nat]
    <3>1. ASSUME NEW p \in IdbPreds PROVE per_pred'[p] \in Nat
      <4>1. CASE p = Rules[r].head
        BY <2>1, <2>2, <2>3, <4>1
      <4>2. CASE p # Rules[r].head
        BY <2>2, <2>3, <4>2
      <4> QED
        BY <4>1, <4>2
    <3> QED
      BY <2>2, <2>3, <3>1
  <2> QED
    BY <1>2, <1>3, <2>4, <2>5 DEF SolverInv, TypeOK
<1>6. CountersExact'
  <2>1. Derived' = Derived \union Fresh(Heads(r, d))
    BY <1>3 DEF Apply, Derived
  <2>2. used' = Cardinality(Derived')
    BY <1>1, <2>1, AppendedCounts DEF SolverInv, CountersExact, Apply
  <2>3. ASSUME NEW p \in IdbPreds
        PROVE  per_pred'[p] = Cardinality({f \in Derived' : PredOf[f] = p})
    <3>1. per_pred[p] = Cardinality({f \in Derived : PredOf[f] = p})
      BY DEF SolverInv, CountersExact
    <3>2. /\ per_pred \in [IdbPreds -> Nat]
          /\ per_pred' = [per_pred EXCEPT ![Rules[r].head] = @ + Appended(r, d)]
      BY DEF SolverInv, TypeOK, Apply
    <3>3. CASE p = Rules[r].head
      <4>1. per_pred'[p] = per_pred[p] + Appended(r, d)
        BY <3>2, <3>3
      <4>2. Cardinality({f \in Derived \union Fresh(Heads(r, d)) : PredOf[f] = p})
              = Cardinality({f \in Derived : PredOf[f] = p}) + Appended(r, d)
        <5>1. Cardinality({f \in Derived \union Fresh(Heads(r, d)) : PredOf[f] = Rules[r].head})
                = Cardinality({f \in Derived : PredOf[f] = Rules[r].head}) + Appended(r, d)
          BY <1>1, AppendedCounts
        <5> QED
          BY <3>3, <5>1
      <4> QED
        BY <2>1, <3>1, <4>1, <4>2
    <3>4. CASE p # Rules[r].head
      <4>1. per_pred'[p] = per_pred[p]
        BY <3>2, <3>4
      <4>2. {f \in Derived \union Fresh(Heads(r, d)) : PredOf[f] = p} = {f \in Derived : PredOf[f] = p}
        BY <1>1, <3>4, AppendedCounts
      <4> QED
        BY <2>1, <3>1, <4>1, <4>2
    <3> QED
      BY <3>3, <3>4
  <2> QED
    BY <2>2, <2>3 DEF CountersExact
<1>7. LowerModels'
  BY <1>3, <1>4 DEF SolverInv, LowerModels
<1>8. PerfectModel' /\ OverflowIsReal'
  BY <1>3 DEF SolverInv, PerfectModel, OverflowIsReal
<1>9. Unfrozen'
  BY <1>1, <1>3 DEF Unfrozen
<1>10. Sound'
  BY <1>2, <1>3, <1>4 DEF Sound
<1> QED
  BY <1>2, <1>3, <1>5, <1>6, <1>7, <1>8, <1>9, <1>10

\* A step that only moves the loop variables keeps all but what depends on them.
LEMMA LoopStep ==
  ASSUME SolverInv, UNCHANGED <<pc, reason, edb, stratum, storeVars, depth>>,
         rule' \in 1 .. Len(Rules) + 1, literal' \in Nat
  PROVE  /\ TypeOK' /\ CountersExact' /\ LowerModels' /\ PerfectModel' /\ OverflowIsReal'
         /\ Running => Unfrozen' /\ Sound'
         /\ Running' <=> Running
         /\ OldDone' <=> OldDone
<1> USE DEF storeVars
<1>1. Base' = Base /\ Below(stratum)' = Below(stratum) /\ \A s \in Strata : Below(s)' = Below(s)
  BY SameBelow
<1>2. TypeOK'
  BY DEF SolverInv, TypeOK
<1>3. CountersExact' /\ LowerModels' /\ PerfectModel' /\ OverflowIsReal'
  <2>1. CountersExact'
    <3>1. Derived' = Derived /\ used' = used /\ per_pred' = per_pred
      BY DEF Derived
    <3>2. CountersExact
      BY DEF SolverInv
    <3> QED
      BY <3>1, <3>2, SameCounters
  <2>2. LowerModels' /\ PerfectModel' /\ OverflowIsReal'
    BY <1>1 DEF SolverInv, LowerModels, PerfectModel, OverflowIsReal
  <2> QED
    BY <2>1, <2>2
<1>4. Running => Unfrozen' /\ Sound'
  BY <1>1 DEF SolverInv, Unfrozen, Sound
<1>5. (Running' <=> Running) /\ (OldDone' <=> OldDone)
  BY <1>1 DEF Running, OldDone, InStratum
<1> QED
  BY <1>2, <1>3, <1>4, <1>5

LEMMA BaseRuleInv ==
  ASSUME SolverInv, BaseRule
  PROVE  SolverInv'
<1> USE DEF storeVars
<1>1. pc = "base" /\ rule \in RuleIds
  BY DEF BaseRule
<1>2. CASE InStratum(rule) /\ ApplyFails(rule, NoLiteral)
  <2>1. JoinOn(rule, NoLiteral) /\ pc \in {"base", "delta"}
    BY <1>1 DEF JoinOn
  <2> QED
    BY <1>1, <1>2, <2>1, ApplyFailsInv
<1>3. CASE /\ ~InStratum(rule) /\ rule' = rule + 1
           /\ UNCHANGED <<pc, reason, edb, stratum, storeVars, depth, literal>>
  <2>1. rule' \in 1 .. Len(Rules) + 1 /\ literal' \in Nat
    BY <1>1, <1>3 DEF RuleIds, SolverInv, TypeOK
  <2>2. BaseDone'
    <3>1. Below(stratum)' = Below(stratum)
      BY <1>3, SameBelow
    <3>2. \A r \in RuleIds : r < rule' /\ InStratum(r) => r < rule
      BY <1>1, <1>3 DEF RuleIds
    <3> QED
      BY <1>1, <1>3, <3>1, <3>2 DEF SolverInv, BaseDone, InStratum, True
  <2>3. pc' = "base" /\ current' = {}
    BY <1>1, <1>3 DEF SolverInv
  <2> QED
    BY <1>1, <1>3, <2>1, <2>2, <2>3, LoopStep DEF SolverInv, Running
<1>4. CASE InStratum(rule) /\ Apply(rule, NoLiteral) /\ rule' = rule + 1 /\ literal' = literal
  <2>1. rule' \in 1 .. Len(Rules) + 1 /\ literal' \in Nat
    BY <1>1, <1>4 DEF RuleIds, SolverInv, TypeOK
  <2>2. /\ TypeOK' /\ CountersExact' /\ LowerModels' /\ PerfectModel' /\ OverflowIsReal'
        /\ pc' = pc /\ reason' = reason /\ Unfrozen' /\ Sound'
        /\ merge \subseteq merge'
        /\ \A inst \in Derives(rule, NoLiteral) : inst.head \in current \union merge'
    <3>1. JoinOn(rule, NoLiteral) /\ pc \in {"base", "delta"}
      BY <1>1 DEF JoinOn
    <3> QED
      BY <1>1, <1>4, <2>1, <3>1, ApplyInv
  <2>3. UNCHANGED <<pc, edb, stratum, frozen, current>>
    BY <1>4 DEF Apply
  <2>4. Below(stratum)' = Below(stratum)
    BY <2>3, SameBelow
  <2>5. BaseDone'
    <3> SUFFICES ASSUME NEW r \in RuleIds, InStratum(r), r < rule', NEW inst \in Instances[r],
                        True(r, inst)
                 PROVE  inst.head \in current \union merge'
      BY <2>3, <2>4 DEF BaseDone, InStratum, True
    <3>1. CASE r < rule
      BY <1>1, <2>2, <3>1 DEF SolverInv, BaseDone
    <3>2. CASE r = rule
      BY <2>2, <3>2 DEF Derives
    <3> QED
      BY <1>1, <1>4, <3>1, <3>2 DEF RuleIds
  <2> QED
    BY <1>1, <2>2, <2>3, <2>5 DEF SolverInv
<1> QED
  BY <1>2, <1>3, <1>4 DEF BaseRule

LEMMA EndBaseInv ==
  ASSUME SolverInv, EndBase
  PROVE  SolverInv'
<1>1. /\ pc = "base" /\ rule \notin RuleIds /\ pc' = "top" /\ current' = merge /\ delta' = merge
      /\ merge' = {} /\ depth' = 1
      /\ UNCHANGED <<reason, edb, stratum, frozen, used, per_pred, rule, literal>>
  BY DEF EndBase
<1>2. Base' = Base /\ Below(stratum)' = Below(stratum) /\ \A s \in Strata : Below(s)' = Below(s)
  BY <1>1, SameBelow
<1>3. TypeOK'
  BY <1>1, ProgramAssumption DEF SolverInv, TypeOK
<1>4. CountersExact' /\ LowerModels' /\ PerfectModel' /\ OverflowIsReal'
  <2>1. current = {}
    BY <1>1 DEF SolverInv
  <2>2. Derived' = Derived
    BY <1>1, <2>1 DEF Derived
  <2>3. CountersExact
    BY DEF SolverInv
  <2>4. CountersExact'
    BY <1>1, <2>2, <2>3, SameCounters
  <2>5. LowerModels' /\ PerfectModel' /\ OverflowIsReal'
    BY <1>1, <1>2 DEF SolverInv, LowerModels, PerfectModel, OverflowIsReal
  <2> QED
    BY <2>4, <2>5
<1>5. Unfrozen' /\ Sound'
  BY <1>1, <1>2 DEF SolverInv, Running, Unfrozen, Sound
<1>6. OldDone'
  <2>1. \A r \in RuleIds : r < rule
    <3>1. rule \in 1 .. Len(Rules) + 1
      BY DEF SolverInv, TypeOK
    <3> QED
      BY <1>1, <3>1, RuleCount DEF RuleIds
  <2>2. current = {} /\ BaseDone
    BY <1>1 DEF SolverInv
  <2>3. current' \ delta' = current
    BY <1>1, <2>2
  <2> QED
    BY <1>1, <1>2, <2>1, <2>2, <2>3 DEF OldDone, BaseDone, True, InStratum
<1> QED
  BY <1>1, <1>3, <1>4, <1>5, <1>6 DEF SolverInv

LEMMA BeginRoundInv ==
  ASSUME SolverInv, BeginRound
  PROVE  SolverInv'
<1> USE DEF storeVars
<1>1. /\ pc = "top" /\ pc' = "delta" /\ depth <= MaxDepth /\ rule' = 1 /\ literal' = 1
      /\ UNCHANGED <<reason, edb, stratum, storeVars, depth>>
  BY DEF BeginRound
<1>2. Base' = Base /\ Below(stratum)' = Below(stratum) /\ \A s \in Strata : Below(s)' = Below(s)
  BY <1>1, SameBelow
<1>3. TypeOK'
  <2>1. 1 \in 1 .. Len(Rules) + 1
    BY DEF SolverInv, TypeOK
  <2> QED
    BY <1>1, <2>1 DEF SolverInv, TypeOK
<1>4. CountersExact' /\ LowerModels' /\ PerfectModel' /\ OverflowIsReal'
  <2>1. Derived' = Derived /\ used' = used /\ per_pred' = per_pred
    BY <1>1 DEF Derived
  <2>2. CountersExact
    BY DEF SolverInv
  <2>3. CountersExact'
    BY <2>1, <2>2, SameCounters
  <2>4. LowerModels' /\ PerfectModel' /\ OverflowIsReal'
    BY <1>1, <1>2 DEF SolverInv, LowerModels, PerfectModel, OverflowIsReal
  <2> QED
    BY <2>3, <2>4
<1>5. Unfrozen' /\ Sound'
  BY <1>1, <1>2 DEF SolverInv, Running, Unfrozen, Sound
<1>6. OldDone'
  BY <1>1, <1>2 DEF SolverInv, OldDone, InStratum
<1>7. DeltaDone'
  BY <1>1 DEF DeltaDone, RuleIds
<1> QED
  BY <1>1, <1>3, <1>4, <1>5, <1>6, <1>7 DEF SolverInv

LEMMA DeltaLiteralInv ==
  ASSUME SolverInv, DeltaLiteral
  PROVE  SolverInv'
<1> USE DEF storeVars
<1>1. pc = "delta" /\ rule \in RuleIds /\ rule \in Nat /\ literal \in Nat
  BY DEF DeltaLiteral, SolverInv, TypeOK
<1>2. OldDone /\ DeltaDone /\ depth <= MaxDepth /\ literal > 0
  BY <1>1 DEF SolverInv
<1>3. rule + 1 \in 1 .. Len(Rules) + 1 /\ rule \in 1 .. Len(Rules) + 1
  BY <1>1 DEF RuleIds
<1>4. CASE /\ ~InStratum(rule) \/ literal > Len(Body(rule))
           /\ rule' = rule + 1 /\ literal' = 1
           /\ UNCHANGED <<pc, reason, edb, stratum, storeVars, depth>>
  <2>1. Below(stratum)' = Below(stratum)
    BY <1>4, SameBelow
  <2>2. \A r \in RuleIds : \A k \in 1 .. Len(Body(r)) :
          InStratum(r) /\ (r < rule' \/ (r = rule' /\ k < literal')) =>
            r < rule \/ (r = rule /\ k < literal)
    <3> SUFFICES ASSUME NEW r \in RuleIds, NEW k \in 1 .. Len(Body(r)), InStratum(r),
                        r < rule + 1 \/ (r = rule + 1 /\ k < 1)
                 PROVE  r < rule \/ (r = rule /\ k < literal)
      BY <1>4
    <3>1. r \in Nat /\ k \in Nat /\ k >= 1 /\ Len(Body(r)) \in Nat /\ k <= Len(Body(r))
      BY RuleShape DEF RuleIds
    <3>2. r < rule \/ r = rule
      BY <1>1, <3>1
    <3>3. r = rule => literal > Len(Body(r))
      BY <1>4
    <3> QED
      BY <1>1, <3>1, <3>2, <3>3
  <2>3. DeltaDone'
    BY <1>2, <1>4, <2>1, <2>2 DEF DeltaDone, InStratum, DeltaEligible, True
  <2>4. rule' \in 1 .. Len(Rules) + 1 /\ literal' \in Nat
    BY <1>3, <1>4
  <2>5. /\ TypeOK' /\ CountersExact' /\ LowerModels' /\ PerfectModel' /\ OverflowIsReal'
        /\ Running => Unfrozen' /\ Sound'
        /\ OldDone'
    BY <1>2, <1>4, <2>4, LoopStep
  <2>6. pc' = "delta" /\ reason' = reason /\ depth' = depth /\ literal' > 0 /\ Running
    BY <1>1, <1>2, <1>4 DEF Running
  <2> QED
    BY <1>1, <1>2, <2>3, <2>5, <2>6 DEF SolverInv
<1>5. CASE /\ InStratum(rule) /\ literal <= Len(Body(rule)) /\ ~DeltaEligible(rule, literal)
           /\ literal' = literal + 1
           /\ UNCHANGED <<pc, reason, edb, stratum, storeVars, depth, rule>>
  <2>1. Below(stratum)' = Below(stratum)
    BY <1>5, SameBelow
  <2>2. \A r \in RuleIds : \A k \in 1 .. Len(Body(r)) :
          DeltaEligible(r, k) /\ (r < rule' \/ (r = rule' /\ k < literal')) =>
            r < rule \/ (r = rule /\ k < literal)
    BY <1>1, <1>5 DEF RuleIds
  <2>3. DeltaDone'
    BY <1>2, <1>5, <2>1, <2>2 DEF DeltaDone, InStratum, DeltaEligible, True
  <2>4. rule' \in 1 .. Len(Rules) + 1 /\ literal' \in Nat
    BY <1>1, <1>3, <1>5
  <2>5. /\ TypeOK' /\ CountersExact' /\ LowerModels' /\ PerfectModel' /\ OverflowIsReal'
        /\ Running => Unfrozen' /\ Sound'
        /\ OldDone'
    BY <1>2, <1>5, <2>4, LoopStep
  <2>6. pc' = "delta" /\ reason' = reason /\ depth' = depth /\ literal' > 0 /\ Running
    BY <1>1, <1>2, <1>5 DEF Running
  <2> QED
    BY <1>1, <1>2, <2>3, <2>5, <2>6 DEF SolverInv
<1>6. CASE /\ InStratum(rule) /\ literal <= Len(Body(rule)) /\ DeltaEligible(rule, literal)
           /\ ApplyFails(rule, literal)
  <2>1. literal \in 1 .. Len(Body(rule))
    BY <1>1, <1>2, <1>6, RuleShape
  <2>2. JoinOn(rule, literal) /\ pc \in {"base", "delta"}
    BY <1>1, <1>6, <2>1 DEF JoinOn
  <2> QED
    BY <1>1, <1>6, <2>2, ApplyFailsInv
<1>7. CASE /\ InStratum(rule) /\ literal <= Len(Body(rule)) /\ DeltaEligible(rule, literal)
           /\ Apply(rule, literal) /\ literal' = literal + 1 /\ rule' = rule
  <2>1. rule' \in 1 .. Len(Rules) + 1 /\ literal' \in Nat
    BY <1>1, <1>3, <1>7
  <2>2. literal \in 1 .. Len(Body(rule))
    BY <1>1, <1>2, <1>7, RuleShape
  <2>3. JoinOn(rule, literal) /\ pc \in {"base", "delta"}
    BY <1>1, <1>7, <2>2 DEF JoinOn
  <2>4. /\ TypeOK' /\ CountersExact' /\ LowerModels' /\ PerfectModel' /\ OverflowIsReal'
        /\ pc' = pc /\ reason' = reason /\ Unfrozen' /\ Sound'
        /\ merge \subseteq merge'
        /\ \A inst \in Derives(rule, literal) : inst.head \in current \union merge'
    BY <1>1, <1>7, <2>1, <2>3, ApplyInv
  <2>5. UNCHANGED <<pc, edb, stratum, frozen, current, delta, depth>>
    BY <1>7 DEF Apply
  <2>6. Below(stratum)' = Below(stratum)
    BY <2>5, SameBelow
  <2>7. OldDone'
    BY <1>2, <2>5, <2>6 DEF OldDone, InStratum
  <2>8. DeltaDone'
    <3> SUFFICES ASSUME NEW r \in RuleIds, InStratum(r), NEW inst \in Instances[r],
                        NEW k \in 1 .. Len(Body(r)), r < rule \/ (r = rule /\ k < literal + 1),
                        DeltaEligible(r, k), inst.lit[k] \in delta, True(r, inst)
                 PROVE  inst.head \in current \union merge'
      BY <1>7, <2>5, <2>6 DEF DeltaDone, InStratum, DeltaEligible, True
    <3>1. CASE r < rule \/ (r = rule /\ k < literal)
      BY <1>2, <2>4, <3>1 DEF DeltaDone
    <3>2. CASE r = rule /\ k = literal
      BY <2>4, <3>2 DEF Derives
    <3> QED
      BY <1>1, <3>1, <3>2
  <2> QED
    BY <1>1, <1>2, <1>7, <2>4, <2>5, <2>7, <2>8 DEF SolverInv
<1> QED
  BY <1>1, <1>4, <1>5, <1>6, <1>7 DEF DeltaLiteral

LEMMA EndRoundInv ==
  ASSUME SolverInv, EndRound
  PROVE  SolverInv'
<1>1. /\ pc = "delta" /\ rule \notin RuleIds /\ pc' = "top"
      /\ current' = current \union merge /\ delta' = merge /\ merge' = {} /\ depth' = depth + 1
      /\ UNCHANGED <<reason, edb, stratum, frozen, used, per_pred, rule, literal>>
  BY DEF EndRound
<1>2. Base' = Base /\ Below(stratum)' = Below(stratum) /\ \A s \in Strata : Below(s)' = Below(s)
  BY <1>1, SameBelow
<1>3. OldDone /\ DeltaDone /\ depth <= MaxDepth
  BY <1>1 DEF SolverInv
<1>4. TypeOK'
  <2>1. depth' \in 0 .. MaxDepth + 1
    BY <1>1, <1>3, ProgramAssumption DEF SolverInv, TypeOK
  <2> QED
    BY <1>1, <2>1 DEF SolverInv, TypeOK
<1>5. CountersExact' /\ LowerModels' /\ PerfectModel' /\ OverflowIsReal'
  <2>1. Derived' = Derived
    BY <1>1 DEF Derived
  <2>2. CountersExact
    BY DEF SolverInv
  <2>3. CountersExact'
    BY <1>1, <2>1, <2>2, SameCounters
  <2>4. LowerModels' /\ PerfectModel' /\ OverflowIsReal'
    BY <1>1, <1>2 DEF SolverInv, LowerModels, PerfectModel, OverflowIsReal
  <2> QED
    BY <2>3, <2>4
<1>6. Unfrozen' /\ Sound'
  BY <1>1, <1>2 DEF SolverInv, Running, Unfrozen, Sound
<1>7. OldDone'
  <2> SUFFICES ASSUME NEW r \in RuleIds, InStratum(r), NEW inst \in Instances[r],
                      Satisfied(r, inst, Below(stratum), current' \ delta')
               PROVE  inst.head \in current \union merge
    BY <1>1, <1>2 DEF OldDone, InStratum
  <2>1. current' \ delta' \subseteq current
    BY <1>1
  <2>2. True(r, inst)
    BY <2>1, SatisfiedMonotone DEF True
  <2>3. r < rule
    <3>1. rule \in 1 .. Len(Rules) + 1
      BY DEF SolverInv, TypeOK
    <3> QED
      BY <1>1, <3>1, RuleCount DEF RuleIds
  <2>4. CASE \E k \in 1 .. Len(Body(r)) : DeltaEligible(r, k) /\ inst.lit[k] \in delta
    BY <1>3, <2>2, <2>3, <2>4 DEF DeltaDone
  <2>5. CASE \A k \in 1 .. Len(Body(r)) : ~(DeltaEligible(r, k) /\ inst.lit[k] \in delta)
    <3>1. ASSUME NEW k \in 1 .. Len(Body(r)), Body(r)[k].kind = "atom", inst.lit[k] \in delta
          PROVE  FALSE
      <4>1. PredOf[inst.lit[k]] = Body(r)[k].pred
        BY <3>1, InstanceAssumption
      <4>2. inst.lit[k] \in StratumFacts(stratum)
        BY <3>1 DEF SolverInv, TypeOK
      <4>3. DeltaEligible(r, k)
        BY <3>1, <4>1, <4>2 DEF DeltaEligible, StratumFacts
      <4> QED
        BY <2>5, <3>1, <4>3
    <3>2. Satisfied(r, inst, Below(stratum), current \ delta)
      BY <2>2, <3>1 DEF True, Satisfied
    <3> QED
      BY <1>3, <3>2 DEF OldDone
  <2> QED
    BY <2>4, <2>5
<1> QED
  BY <1>1, <1>4, <1>5, <1>6, <1>7 DEF SolverInv

\* A stratum whose last round derived nothing is its least model: freezing it
\* publishes exactly that, and the strata below keep theirs.
LEMMA FreezeInv ==
  ASSUME SolverInv, FreezeStratum
  PROVE  SolverInv'
<1>1. /\ pc = "top" /\ delta = {} /\ frozen' = [frozen EXCEPT ![stratum] = current]
      /\ current' = {} /\ delta' = {} /\ depth' = 0 /\ rule' = 1 /\ literal' = NoLiteral
      /\ IF stratum < MaxStratum THEN pc' = "base" /\ stratum' = stratum + 1
                                 ELSE pc' = "ok" /\ stratum' = stratum
      /\ used' = Cardinality(UNION {frozen'[s] : s \in Strata})
      /\ UNCHANGED <<reason, edb, merge, per_pred>>
  BY DEF FreezeStratum, Converged
<1>2. merge = {} /\ OldDone /\ Unfrozen /\ Sound /\ TypeOK /\ Windows
  BY <1>1, TypesOfWindows DEF SolverInv, Running
<1>3. /\ stratum \in Strata /\ stratum \in Nat /\ MaxStratum \in Nat /\ stratum <= MaxStratum
      /\ \A s \in Strata : s \in Nat /\ s <= MaxStratum
  BY <1>2, ProgramAssumption DEF Windows, Strata
<1>4. /\ frozen' \in [Strata -> SUBSET Facts]
      /\ frozen'[stratum] = current
      /\ \A s \in Strata : s # stratum => frozen'[s] = frozen[s]
  <2>1. current \subseteq Facts
    BY <1>2 DEF Windows, StratumFacts
  <2> QED
    BY <1>1, <1>2, <2>1 DEF Windows
<1>5. Base' = Base
  BY <1>1 DEF Base
<1>6. \A s \in Strata : s <= stratum => Below(s)' = Below(s)
  <2> SUFFICES ASSUME NEW s \in Strata, s <= stratum PROVE Below(s)' = Below(s)
    OBVIOUS
  <2>1. \A t \in 0 .. s - 1 : t \in Strata /\ t # stratum
    BY <1>3 DEF Strata
  <2>2. {frozen'[t] : t \in 0 .. s - 1} = {frozen[t] : t \in 0 .. s - 1}
    BY <1>4, <2>1
  <2> QED
    BY <1>5, <2>2 DEF Below
<1>7. LeastClosed(stratum, Below(stratum), current)
  <2>1. current \ delta = current
    BY <1>1
  <2>2. ClosedUnder(stratum, Below(stratum), current)
    BY <1>2, <2>1 DEF ClosedUnder, OldDone, InStratum
  <2> QED
    BY <1>2, <2>2 DEF LeastClosed, Sound
<1>8. \A s \in Strata : s <= stratum => LeastClosed(s, Below(s)', frozen'[s])
  <2> SUFFICES ASSUME NEW s \in Strata, s <= stratum
               PROVE  LeastClosed(s, Below(s), frozen'[s])
    BY <1>6
  <2>1. CASE s = stratum
    BY <1>4, <1>7, <2>1
  <2>2. CASE s < stratum
    BY <1>3, <1>4, <2>2 DEF SolverInv, LowerModels
  <2> QED
    BY <1>3, <2>1, <2>2
<1>9. stratum' \in Strata /\ stratum' >= stratum
      /\ (pc' = "base" => stratum' = stratum + 1) /\ (pc' = "ok" => stratum = MaxStratum)
      /\ pc' \in {"base", "ok"} /\ stratum' <= stratum + 1
  BY <1>1, <1>3 DEF Strata
<1>10. TypeOK'
  <2>1. \A s \in Strata : frozen'[s] \subseteq StratumFacts(s)
    BY <1>2, <1>4 DEF Windows
  <2>2. depth' \in 0 .. MaxDepth + 1 /\ rule' \in 1 .. Len(Rules) + 1 /\ literal' \in Nat
    BY <1>1, <1>2, ProgramAssumption DEF TypeOK, NoLiteral
  <2>3. used' \in Nat
    <3>1. UNION {frozen'[s] : s \in Strata} \subseteq Facts
      BY <1>4
    <3> QED
      BY <1>1, <3>1, ProgramAssumption, FS_Subset, FS_CardinalityType
  <2> QED
    BY <1>1, <1>2, <1>4, <1>9, <2>1, <2>2, <2>3 DEF TypeOK
<1>11. CountersExact' /\ OverflowIsReal' /\ reason' = "none"
  <2>1. frozen[stratum] = {}
    <3>1. stratum \in Strata /\ stratum >= stratum
      BY <1>3
    <3> QED
      BY <1>2, <3>1 DEF Unfrozen
  <2>2. UNION {frozen'[s] : s \in Strata} = (UNION {frozen[s] : s \in Strata}) \union current
    BY <1>3, <1>4, <2>1
  <2>3. Derived' = Derived /\ Derived' = UNION {frozen'[s] : s \in Strata}
    BY <1>1, <1>2, <2>2 DEF Derived
  <2>4. CountersExact'
    BY <1>1, <2>3 DEF SolverInv, CountersExact
  <2> QED
    BY <1>1, <1>2, <2>4 DEF SolverInv, OverflowIsReal
<1>12. LowerModels'
  <2> SUFFICES ASSUME NEW s \in Strata, s < stratum'
               PROVE  LeastClosed(s, Below(s)', frozen'[s])
    BY DEF LowerModels
  <2>1. s <= stratum
    BY <1>3, <1>9
  <2> QED
    BY <1>8, <2>1
<1>13. PerfectModel'
  <2> SUFFICES ASSUME pc' = "ok", NEW s \in Strata
               PROVE  LeastClosed(s, Below(s)', frozen'[s])
    BY DEF PerfectModel
  <2> QED
    BY <1>3, <1>8, <1>9
<1>14. pc' = "base" => Unfrozen'
  <2> SUFFICES ASSUME pc' = "base", NEW s \in Strata, s >= stratum' PROVE frozen'[s] = {}
    BY DEF Unfrozen
  <2>1. s >= stratum /\ s # stratum
    BY <1>3, <1>9
  <2> QED
    BY <1>2, <1>4, <2>1 DEF Unfrozen
<1>15. Sound'
  BY <1>1, <1>2 DEF Sound
<1>16. BaseDone'
  BY <1>1 DEF BaseDone, RuleIds
<1> QED
  BY <1>1, <1>9, <1>10, <1>11, <1>12, <1>13, <1>14, <1>15, <1>16 DEF SolverInv, Running

LEMMA SolverInitInv == Init => SolverInv
<1> SUFFICES ASSUME Init PROVE SolverInv
  OBVIOUS
<1> USE DEF Init
<1>1. 0 \in Strata /\ \A s \in Strata : frozen[s] = {} /\ ~(s < 0)
  BY ProgramAssumption DEF Strata
<1>2. TypeOK
  <2>1. depth \in 0 .. MaxDepth + 1 /\ literal \in Nat
    BY ProgramAssumption DEF NoLiteral
  <2>2. rule \in 1 .. Len(Rules) + 1
    BY RuleCount
  <2> QED
    BY <1>1, <2>1, <2>2 DEF TypeOK
<1>3. CountersExact /\ LowerModels /\ PerfectModel /\ OverflowIsReal
  <2>1. Derived = {}
    BY <1>1 DEF Derived
  <2>2. CountersExact
    BY <2>1, FS_EmptySet DEF CountersExact
  <2> QED
    BY <1>1, <2>2 DEF LowerModels, PerfectModel, OverflowIsReal
<1>4. Unfrozen /\ Sound
  BY <1>1 DEF Unfrozen, Sound
<1>5. BaseDone
  BY DEF BaseDone, RuleIds
<1> QED
  BY <1>2, <1>3, <1>4, <1>5 DEF SolverInv

LEMMA SolverStepInv == SolverInv /\ [Next]_vars => SolverInv'
<1> USE DEF storeVars
<1> SUFFICES ASSUME SolverInv, [Next]_vars PROVE SolverInv'
  OBVIOUS
<1>1. CASE BaseRule
  BY <1>1, BaseRuleInv
<1>2. CASE EndBase
  BY <1>2, EndBaseInv
<1>3. CASE BeginRound
  BY <1>3, BeginRoundInv
<1>4. CASE DeltaLiteral
  BY <1>4, DeltaLiteralInv
<1>5. CASE EndRound
  BY <1>5, EndRoundInv
<1>6. CASE FreezeStratum
  BY <1>6, FreezeInv
<1>7. CASE DepthSpent
  BY <1>7, FailInv DEF DepthSpent
<1>8. CASE UNCHANGED vars
  <2>1. /\ UNCHANGED <<pc, reason, edb, stratum, storeVars, depth>>
        /\ UNCHANGED <<rule, literal>>
    BY <1>8 DEF vars
  <2>2. rule' \in 1 .. Len(Rules) + 1 /\ literal' \in Nat
    BY <2>1 DEF SolverInv, TypeOK
  <2>3. Below(stratum)' = Below(stratum)
    BY <2>1, SameBelow
  <2>4. (BaseDone' <=> BaseDone) /\ (DeltaDone' <=> DeltaDone)
    BY <2>1, <2>3 DEF BaseDone, DeltaDone, InStratum, True, DeltaEligible
  <2> QED
    BY <2>1, <2>2, <2>4, LoopStep DEF SolverInv
<1> QED
  BY <1>1, <1>2, <1>3, <1>4, <1>5, <1>6, <1>7, <1>8 DEF Next

-----------------------------------------------------------------------------

\* Every reachable state of a solve satisfies the inductive invariant.
THEOREM SolverInvariant == Spec => []SolverInv
<1> QED
  BY SolverInitInv, SolverStepInv, PTL DEF Spec

\* Windows and counters keep their types: in particular every window holds facts of
\* its own stratum only, which is what the lookups by window rely on.
THEOREM WindowsTyped == Spec => []TypeOK
<1>1. SolverInv => TypeOK
  BY DEF SolverInv
<1> QED
  BY SolverInvariant, <1>1, PTL

\* A successful solve is the perfect model of the program: stratified semi-naive
\* evaluation is sound and complete for every validated program, EDB, join order,
\* depth bound and capacity.
THEOREM SolveIsPerfect == Spec => []PerfectModel
<1>1. SolverInv => PerfectModel
  BY DEF SolverInv
<1> QED
  BY SolverInvariant, <1>1, PTL

\* An overflow is never spurious, for every capacity: solve_once_append_idb_merge runs
\* out of room only when no result that fits satisfies the program.
THEOREM OverflowNeverSpurious == Spec => []OverflowIsReal
<1>1. SolverInv => OverflowIsReal
  BY DEF SolverInv
<1> QED
  BY SolverInvariant, <1>1, PTL
=============================================================================

------------------------ MODULE StratificationProofs ------------------------
(***************************************************************************)
(* Stratification, for every program and every bound: an accepted program  *)
(* is stratified and has no cycle through a negation or an aggregate, and  *)
(* no stratum is higher than it must be.                                   *)
(***************************************************************************)
EXTENDS Stratification, SequenceTheorems, TLAPS

RuleType == [head : Preds, body : Seq([pred : Preds, strict : BOOLEAN])]

(* Rules visited since the last change of the pass are satisfied.          *)
Satisfies(S, r) ==
  \A i \in Literals(r) :
    S[HeadOf(r)] >= S[BodyOf(r)[i].pred] + IF BodyOf(r)[i].strict THEN 1 ELSE 0

StrataInv ==
  /\ TypeOK
  /\ pc = "pass" => iters <= MaxPredicates
  /\ (pc = "pass" /\ ~changed) => \A r \in 1 .. rule - 1 : Satisfies(strata, r)
  /\ pc \in {"ok", "too_deep"} => Valid(strata)
  /\ pc = "ok" => \A p \in Preds : strata[p] < MaxStrata
  /\ \A S \in [Preds -> Nat] : Valid(S) => \A p \in Preds : strata[p] <= S[p]

(* Rules and literals of a program have the shape validation builds.       *)
LEMMA ProgramShape ==
  ASSUME program \in Seq(RuleType), NEW r \in RuleIds
  PROVE  /\ HeadOf(r) \in Preds
         /\ BodyOf(r) \in Seq([pred : Preds, strict : BOOLEAN])
         /\ \A i \in Literals(r) : /\ BodyOf(r)[i].pred \in Preds
                                   /\ BodyOf(r)[i].strict \in BOOLEAN
<1>1. program[r] \in RuleType
  BY ElementOfSeq DEF RuleIds
<1>2. BodyOf(r) \in Seq([pred : Preds, strict : BOOLEAN])
  BY <1>1 DEF RuleType, BodyOf
<1>3. ASSUME NEW i \in Literals(r) PROVE BodyOf(r)[i] \in [pred : Preds, strict : BOOLEAN]
  BY <1>2, ElementOfSeq DEF Literals
<1>4. HeadOf(r) \in Preds
  BY <1>1 DEF RuleType, HeadOf
<1> QED
  BY <1>2, <1>3, <1>4

(* The first pass starts with everything in stratum 0, which no valid      *)
(* assignment undercuts and which is final without strict literals.        *)
LEMMA StrataInit == Init => StrataInv
<1> SUFFICES ASSUME Init PROVE StrataInv
  OBVIOUS
<1>1. program \in Seq(RuleType)
  BY StrataAssumption DEF Init, RuleType
<1>2. Len(program) \in Nat
  BY <1>1, LenProperties
<1>3. 0 \in Preds
  BY StrataAssumption DEF Preds
<1>4. TypeOK
  <2>1. pc \in {"pass", "trace", "ok", "too_deep", "cycle"}
    BY DEF Init
  <2>2. rule \in 1 .. Len(program) + 1 /\ iters \in 0 .. MaxPredicates + 1 /\ hops \in 0 .. MaxPredicates
    BY <1>2, StrataAssumption DEF Init
  <2>3. strata \in [Preds -> Nat] /\ predecessor \in [Preds -> Preds] /\ updated \in Preds
    BY <1>3 DEF Init
  <2>4. changed \in BOOLEAN
    BY Zenon DEF Init
  <2> QED
    BY <1>1, <2>1, <2>2, <2>3, <2>4 DEF TypeOK, RuleType
<1>5. pc = "ok" => Valid(strata)
  <2> SUFFICES ASSUME pc = "ok", NEW r \in RuleIds, NEW i \in Literals(r)
               PROVE  strata[HeadOf(r)] >= strata[BodyOf(r)[i].pred]
                                           + IF BodyOf(r)[i].strict THEN 1 ELSE 0
    BY DEF Valid
  <2>1. ~BodyOf(r)[i].strict
    BY DEF Init, Layered
  <2>2. strata[HeadOf(r)] = 0 /\ strata[BodyOf(r)[i].pred] = 0
    BY <1>1, ProgramShape DEF Init
  <2> QED
    BY <2>1, <2>2
<1>6. \A p \in Preds : strata[p] < MaxStrata
  BY StrataAssumption DEF Init
<1>7. \A S \in [Preds -> Nat] : Valid(S) => \A p \in Preds : strata[p] <= S[p]
  BY DEF Init
<1>8. pc = "pass" \/ pc = "ok"
  BY DEF Init
<1>9. rule = 1
  BY DEF Init
<1>10. \A r \in 1 .. rule - 1 : Satisfies(strata, r)
  BY <1>9
<1>11. iters <= MaxPredicates
  BY StrataAssumption DEF Init
<1> QED
  BY <1>11, <1>4, <1>5, <1>6, <1>7, <1>8, <1>10 DEF StrataInv

(* A visit raises the head to what its body asks for at most, so never     *)
(* above a valid assignment; a visit that raises nothing found the rule    *)
(* satisfied.                                                              *)
LEMMA VisitKeepsInv == StrataInv /\ VisitRule => StrataInv'
<1> SUFFICES ASSUME StrataInv, VisitRule PROVE StrataInv'
  OBVIOUS
<1>1. program \in Seq(RuleType) /\ rule \in RuleIds /\ program' = program /\ rule' = rule + 1
      /\ pc = "pass" /\ pc' = pc
  BY DEF StrataInv, TypeOK, VisitRule, RuleType
<1>2. Len(program) \in Nat
  BY <1>1, LenProperties
<1>3. strata \in [Preds -> Nat]
  BY DEF StrataInv, TypeOK
<1>r. rule' \in 1 .. Len(program) + 1
  BY <1>1, <1>2 DEF RuleIds
<1>i. iters' <= MaxPredicates
  BY <1>1 DEF StrataInv, VisitRule
<1>4. CASE Raise(rule)
  <2>1. PICK i \in Literals(rule) :
           /\ Needed(rule, i) > strata[HeadOf(rule)]
           /\ strata' = [strata EXCEPT ![HeadOf(rule)] = Needed(rule, i)]
           /\ predecessor' = [predecessor EXCEPT ![HeadOf(rule)] = BodyOf(rule)[i].pred]
           /\ updated' = HeadOf(rule) /\ changed' = TRUE
    BY <1>4 DEF Raise
  <2>2. /\ HeadOf(rule) \in Preds /\ BodyOf(rule)[i].pred \in Preds
        /\ BodyOf(rule)[i].strict \in BOOLEAN
    BY <1>1, ProgramShape
  <2>3. Needed(rule, i) \in Nat
    BY <1>3, <2>2 DEF Needed
  <2>4. strata' \in [Preds -> Nat]
    BY <1>3, <2>1, <2>3
  <2>5. predecessor' \in [Preds -> Preds] /\ updated' \in Preds
    BY <2>1, <2>2 DEF StrataInv, TypeOK
  <2>6. changed' \in BOOLEAN
    BY <2>1, Zenon
  <2>7. TypeOK'
    BY <1>1, <1>r, <2>4, <2>5, <2>6 DEF TypeOK, StrataInv, VisitRule
  <2>8. ASSUME NEW S \in [Preds -> Nat], Valid(S)', NEW p \in Preds PROVE strata'[p] <= S[p]
    <3>1. Valid(S)
      BY <2>8, <1>1 DEF Valid, RuleIds, HeadOf, BodyOf, Literals
    <3>2. \A q \in Preds : strata[q] <= S[q]
      BY <3>1 DEF StrataInv
    <3>3. S[HeadOf(rule)] >= S[BodyOf(rule)[i].pred] + IF BodyOf(rule)[i].strict THEN 1 ELSE 0
      BY <3>1, <1>1 DEF Valid
    <3>4. Needed(rule, i) <= S[HeadOf(rule)]
      BY <3>2, <3>3, <2>2, <1>3 DEF Needed
    <3> QED
      BY <3>2, <3>4, <2>1, <2>2, <1>3
  <2> QED
    BY <1>i, <2>1, <2>7, <2>8, <1>1 DEF StrataInv
<1>5. CASE /\ \A i \in Literals(rule) : Needed(rule, i) <= strata[HeadOf(rule)]
           /\ UNCHANGED <<strata, predecessor, updated, changed>>
  <2>1. TypeOK'
    BY <1>1, <1>5, <1>r DEF TypeOK, StrataInv, VisitRule
  <2>2. ASSUME ~changed', NEW r \in 1 .. rule' - 1 PROVE Satisfies(strata, r)'
    <3>1. CASE r = rule
      <4> SUFFICES ASSUME NEW i \in Literals(rule)
                   PROVE  strata[HeadOf(rule)] >= strata[BodyOf(rule)[i].pred]
                                           + IF BodyOf(rule)[i].strict THEN 1 ELSE 0
        BY <1>1, <1>5, <3>1 DEF Satisfies, HeadOf, BodyOf, Literals
      <4>1. Needed(rule, i) <= strata[HeadOf(rule)]
        BY <1>5
      <4>2. HeadOf(rule) \in Preds /\ BodyOf(rule)[i].pred \in Preds
        BY <1>1, ProgramShape
      <4> QED
        BY <4>1, <4>2, <1>3 DEF Needed
    <3>2. CASE r # rule
      <4>1. r \in 1 .. rule - 1
        BY <3>2, <1>1, <1>2 DEF RuleIds
      <4>2. Satisfies(strata, r)
        BY <4>1, <2>2, <1>5, <1>1 DEF StrataInv
      <4> QED
        BY <4>2, <1>1, <1>5 DEF Satisfies, HeadOf, BodyOf, Literals
    <3> QED
      BY <3>1, <3>2
  <2>3. ASSUME NEW S \in [Preds -> Nat], Valid(S)' PROVE \A p \in Preds : strata'[p] <= S[p]
    <3>1. Valid(S)
      BY <2>3, <1>1 DEF Valid, RuleIds, HeadOf, BodyOf, Literals
    <3> QED
      BY <3>1, <1>5 DEF StrataInv
  <2> QED
    BY <1>i, <2>1, <2>2, <2>3, <1>1 DEF StrataInv
<1> QED
  BY <1>4, <1>5 DEF VisitRule

(* A pass without a change satisfied every rule.                           *)
LEMMA EndPassKeepsInv == StrataInv /\ EndPass => StrataInv'
<1> SUFFICES ASSUME StrataInv, EndPass PROVE StrataInv'
  OBVIOUS
<1>1. /\ program \in Seq(RuleType) /\ program' = program /\ strata' = strata
      /\ pc = "pass" /\ rule \notin RuleIds /\ rule \in 1 .. Len(program) + 1
  BY DEF StrataInv, TypeOK, EndPass, RuleType
<1>2. Len(program) \in Nat
  BY <1>1, LenProperties
<1>3. rule = Len(program) + 1
  BY <1>1, <1>2 DEF RuleIds
<1>4. ASSUME NEW S \in [Preds -> Nat], Valid(S)' PROVE \A p \in Preds : strata'[p] <= S[p]
  <2>1. Valid(S)
    BY <1>4, <1>1 DEF Valid, RuleIds, HeadOf, BodyOf, Literals
  <2> QED
    BY <2>1, <1>1 DEF StrataInv
<1>5. strata \in [Preds -> Nat]
  BY DEF StrataInv, TypeOK
<1>6. CASE changed /\ ~LastPass
  <2>1. pc' = "pass" /\ rule' = 1 /\ changed' = FALSE /\ iters' = iters + 1
    BY <1>6 DEF EndPass
  <2>2. iters' \in 0 .. MaxPredicates + 1
    BY <1>6, <2>1, StrataAssumption DEF LastPass, StrataInv, TypeOK
  <2>3. rule' \in 1 .. Len(program) + 1
    BY <2>1, <1>2
  <2>c. changed' \in BOOLEAN
    BY <2>1, Zenon
  <2>4. TypeOK'
    BY <1>1, <2>1, <2>2, <2>3, <2>c DEF TypeOK, StrataInv, EndPass
  <2>5. \A r \in 1 .. rule' - 1 : Satisfies(strata, r)'
    BY <2>1
  <2>6. iters' <= MaxPredicates
    BY <1>6, <2>1, StrataAssumption DEF LastPass, StrataInv, TypeOK
  <2> QED
    BY <1>4, <2>1, <2>4, <2>5, <2>6 DEF StrataInv
<1>7. CASE ~(changed /\ ~LastPass)
  <2>1. /\ pc' = IF changed THEN "trace"
                 ELSE IF \E p \in Preds : strata[p] >= MaxStrata THEN "too_deep" ELSE "ok"
        /\ rule' = rule /\ changed' = changed /\ iters' = iters + 1
    BY <1>7 DEF EndPass
  <2>2. iters' \in 0 .. MaxPredicates + 1
    BY <1>1, <2>1, StrataAssumption DEF StrataInv, TypeOK
  <2>3. pc' \in {"pass", "trace", "ok", "too_deep", "cycle"}
    BY <2>1
  <2>4. TypeOK'
    BY <1>1, <2>1, <2>2, <2>3 DEF TypeOK, StrataInv, EndPass
  <2>5. ASSUME pc' \in {"ok", "too_deep"} PROVE Valid(strata)'
    <3>1. ~changed
      BY <2>1, <2>5
    <3>2. \A r \in 1 .. rule - 1 : Satisfies(strata, r)
      BY <3>1, <1>1 DEF StrataInv
    <3>3. Valid(strata)
      BY <3>2, <1>2, <1>3 DEF Valid, Satisfies, RuleIds
    <3> QED
      BY <3>3, <1>1 DEF Valid, RuleIds, HeadOf, BodyOf, Literals
  <2>6. ASSUME pc' = "ok", NEW p \in Preds PROVE strata'[p] < MaxStrata
    BY <2>1, <2>6, <1>1, <1>5, StrataAssumption
  <2>7. pc' # "pass"
    BY <2>1
  <2> QED
    BY <1>4, <2>4, <2>5, <2>6, <2>7 DEF StrataInv
<1> QED
  BY <1>6, <1>7

(* Following the chain changes no stratum.                                 *)
LEMMA TraceKeepsInv == StrataInv /\ Trace => StrataInv'
<1> SUFFICES ASSUME StrataInv, Trace PROVE StrataInv'
  OBVIOUS
<1>1. /\ program' = program /\ strata' = strata /\ rule' = rule /\ iters' = iters
      /\ changed' = changed /\ predecessor' = predecessor /\ pc' \in {"trace", "cycle"}
  BY DEF Trace
<1>2. updated' \in Preds
  BY DEF Trace, StrataInv, TypeOK
<1>3. hops' \in 0 .. MaxPredicates
  BY StrataAssumption DEF Trace, StrataInv, TypeOK
<1>4. TypeOK'
  BY <1>1, <1>2, <1>3 DEF StrataInv, TypeOK
<1>5. ASSUME NEW S \in [Preds -> Nat], Valid(S)' PROVE \A p \in Preds : strata'[p] <= S[p]
  <2>1. Valid(S)
    BY <1>5, <1>1 DEF Valid, RuleIds, HeadOf, BodyOf, Literals
  <2> QED
    BY <2>1, <1>1 DEF StrataInv
<1> QED
  BY <1>1, <1>4, <1>5 DEF StrataInv

(* The inductive invariant of assign_strata.                               *)
THEOREM StrataInvariant == Spec => []StrataInv
<1>1. ASSUME StrataInv, UNCHANGED vars PROVE StrataInv'
  <2>1. /\ program' = program /\ strata' = strata /\ rule' = rule /\ iters' = iters /\ hops' = hops
        /\ changed' = changed /\ predecessor' = predecessor /\ updated' = updated /\ pc' = pc
    BY <1>1 DEF vars
  <2>2. \A S : Valid(S)' <=> Valid(S)
    BY <2>1 DEF Valid, RuleIds, HeadOf, BodyOf, Literals
  <2>3. Valid(strata)' <=> Valid(strata)
    BY <2>1 DEF Valid, RuleIds, HeadOf, BodyOf, Literals
  <2>4. \A r : Satisfies(strata, r)' <=> Satisfies(strata, r)
    BY <2>1 DEF Satisfies, HeadOf, BodyOf, Literals
  <2>5. TypeOK'
    BY <1>1, <2>1 DEF StrataInv, TypeOK
  <2> QED
    BY <1>1, <2>1, <2>2, <2>3, <2>4, <2>5 DEF StrataInv
<1>2. StrataInv /\ [Next]_vars => StrataInv'
  BY <1>1, VisitKeepsInv, EndPassKeepsInv, TraceKeepsInv DEF Next
<1> QED
  BY <1>2, StrataInit, PTL DEF Spec

(* Whatever the program and the bounds on predicates and strata: what is   *)
(* accepted is stratified within the limit, and no stratum exceeds that of *)
(* any valid assignment.                                                   *)
THEOREM StratificationIsLeast == Spec => []LeastStratification
<1>1. StrataInv => LeastStratification
  <2> SUFFICES ASSUME StrataInv, NEW S \in [Preds -> 0 .. MaxPredicates], Valid(S)
               PROVE  \A p \in Preds : strata[p] <= S[p]
    BY DEF LeastStratification, StrataInv
  <2>1. S \in [Preds -> Nat]
    BY StrataAssumption
  <2> QED
    BY <2>1 DEF StrataInv
<1> QED
  BY <1>1, StrataInvariant, PTL

(* A stratification orders dependencies.                                   *)
LEMMA DependenciesDescend ==
  ASSUME NEW S \in [Preds -> Nat], Valid(S), program \in Seq(RuleType),
         NEW p \in Preds, NEW q \in Preds, DependsOn(p, q)
  PROVE  S[q] <= S[p]
<1> DEFINE Low == {x \in Preds : S[x] <= S[p]}
<1>1. Low \in SUBSET Preds /\ p \in Low
  OBVIOUS
<1>2. ASSUME NEW r \in RuleIds, HeadOf(r) \in Low, NEW i \in Literals(r)
      PROVE  BodyOf(r)[i].pred \in Low
  <2>1. S[HeadOf(r)] >= S[BodyOf(r)[i].pred] + IF BodyOf(r)[i].strict THEN 1 ELSE 0
    BY DEF Valid
  <2>2. BodyOf(r)[i].pred \in Preds /\ HeadOf(r) \in Preds
    BY ProgramShape
  <2> QED
    BY <1>2, <2>1, <2>2
<1>3. q \in Low
  <2> HIDE DEF Low
  <2> QED
    BY <1>1, <1>2 DEF DependsOn
<1> QED
  BY <1>3

(* What validation accepts, or refuses only for its depth, has no cycle    *)
(* through a negation or an aggregate.                                     *)
THEOREM AcceptedHasNoCycle ==
  Spec => [](pc \in {"ok", "too_deep"} => ~\E p \in Preds : OnStrictCycle(p))
<1>1. StrataInv => (pc \in {"ok", "too_deep"} => ~\E p \in Preds : OnStrictCycle(p))
  <2> SUFFICES ASSUME StrataInv, pc \in {"ok", "too_deep"}, NEW p \in Preds, OnStrictCycle(p)
               PROVE  FALSE
    OBVIOUS
  <2>1. Valid(strata) /\ strata \in [Preds -> Nat] /\ program \in Seq(RuleType)
    BY DEF StrataInv, TypeOK, RuleType
  <2>0. PICK r \in RuleIds : \E i \in Literals(r) :
           BodyOf(r)[i].strict /\ DependsOn(p, HeadOf(r)) /\ DependsOn(BodyOf(r)[i].pred, p)
    BY DEF OnStrictCycle
  <2>2. PICK i \in Literals(r) :
           BodyOf(r)[i].strict /\ DependsOn(p, HeadOf(r)) /\ DependsOn(BodyOf(r)[i].pred, p)
    BY <2>0
  <2>3. HeadOf(r) \in Preds /\ BodyOf(r)[i].pred \in Preds
    BY <2>1, ProgramShape
  <2>4. strata[HeadOf(r)] <= strata[p]
    BY <2>1, <2>2, <2>3, DependenciesDescend
  <2>5. strata[p] <= strata[BodyOf(r)[i].pred]
    BY <2>1, <2>2, <2>3, DependenciesDescend
  <2>6. strata[HeadOf(r)] >= strata[BodyOf(r)[i].pred] + IF BodyOf(r)[i].strict THEN 1 ELSE 0
    BY <2>1 DEF Valid
  <2> QED
    BY <2>1, <2>2, <2>3, <2>4, <2>5, <2>6
<1> QED
  BY <1>1, StrataInvariant, PTL
=============================================================================

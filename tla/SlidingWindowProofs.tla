------------------------- MODULE SlidingWindowProofs -------------------------
(* The safety properties of SlidingWindow, for every capacity, set of times *)
(* and range of occurrence IDs.                                             *)
EXTENDS SlidingWindow, FiniteSetTheorems, WellFoundedInduction, TLAPS

\* A nonempty set of naturals has a least element.
LEMMA LeastNatural ==
  ASSUME NEW S \in SUBSET Nat, S # {}
  PROVE  \E m \in S : \A n \in S : m <= n
<1>1. IsWellFoundedOn(OpToRel(<, Nat), Nat)
  BY NatLessThanWellFounded
<1>2. PICK m \in S : \A n \in S : <<n, m>> \notin OpToRel(<, Nat)
  BY <1>1, WFMin
<1>3. \A n \in S : ~(n < m)
  BY <1>2 DEF OpToRel
<1> QED
  BY <1>3

\* The inductive invariant: the three properties support one another only through
\* the types and the uniqueness of IDs, which makes the oldest event a single one.
WinInv == WinTypeOK /\ IdsUnique /\ NoneOverdue /\ AtMostCapacity

\* Making room leaves a set of old events that is smaller than the capacity.
LEMMA RetainedHasRoom ==
  ASSUME WinTypeOK, IdsUnique, AtMostCapacity
  PROVE  /\ Retained \subseteq events
         /\ IsFiniteSet(Retained)
         /\ Cardinality(Retained) \in Nat
         /\ Cardinality(Retained) < Capacity
<1> USE WindowAssumption
<1>1. Retained \subseteq events
  BY DEF Retained
<1>2. IsFiniteSet(Retained) /\ Cardinality(Retained) \in Nat /\ Cardinality(events) \in Nat
  BY <1>1, FS_Subset, FS_CardinalityType DEF WinTypeOK
<1>3. CASE Cardinality(events) # Capacity
  BY <1>1, <1>2, <1>3 DEF Retained, AtMostCapacity
<1>4. CASE Cardinality(events) = Capacity
  <2>1. events # {}
    BY <1>4, FS_EmptySet
  <2> DEFINE Ids == {e.id : e \in events}
  <2>2. Ids \in SUBSET Nat /\ Ids # {}
    BY <2>1 DEF WinTypeOK
  <2>3. PICK m \in Ids : \A n \in Ids : m <= n
    BY <2>2, LeastNatural
  <2>4. PICK oldest \in events : oldest.id = m
    OBVIOUS
  <2>5. oldest \notin Retained
    <3>1. \A e \in events : e.id \in Ids
      OBVIOUS
    <3>2. \A e \in events : e.id \in Nat /\ oldest.id <= e.id
      BY <2>2, <2>3, <2>4, <3>1
    <3>3. ~\E older \in events : older.id < oldest.id
      BY <3>2, <2>4
    <3> QED
      BY <1>4, <3>3 DEF Retained
  <2>6. Retained \subseteq events \ {oldest}
    BY <1>1, <2>5
  <2>7. IsFiniteSet(events \ {oldest}) /\ Cardinality(events \ {oldest}) = Capacity - 1
    BY <1>4, <2>4, FS_RemoveElement DEF WinTypeOK
  <2> QED
    BY <1>1, <1>2, <2>6, <2>7, FS_Subset
<1> QED
  BY <1>3, <1>4

LEMMA WinInitInv == WinInit => WinInv
<1> USE WindowAssumption
<1> SUFFICES ASSUME WinInit PROVE WinInv
  OBVIOUS
<1>1. WinTypeOK
  <2>1. events = {} /\ IsFiniteSet(events)
    BY FS_EmptySet DEF WinInit
  <2>2. static \in StaticLists
    BY Zenon DEF WinInit, WindowAssumption
  <2>3. open \in BOOLEAN /\ next = First /\ watermark \in Times \cup {NoTime}
    BY Zenon DEF WinInit
  <2>4. First \in First..(MaxOccurrence + 1)
    OBVIOUS
  <2> QED
    BY <2>1, <2>2, <2>3, <2>4 DEF WinTypeOK
<1>2. IdsUnique /\ NoneOverdue
  BY DEF WinInit, IdsUnique, NoneOverdue
<1>3. AtMostCapacity
  BY FS_EmptySet DEF WinInit, AtMostCapacity
<1> QED
  BY <1>1, <1>2, <1>3 DEF WinInv

LEMMA PushInv ==
  ASSUME WinInv, NEW p \in Payloads, NEW d \in Times \cup {NoTime}, Push(p, d)
  PROVE  WinInv'
<1> USE WindowAssumption DEF NoTime
<1> DEFINE e == Event(next, p, d)
<1>1. /\ Retained \subseteq events /\ IsFiniteSet(Retained)
      /\ Cardinality(Retained) \in Nat /\ Cardinality(Retained) < Capacity
  BY RetainedHasRoom DEF WinInv
<1>2. events' = Retained \cup {e}
  BY DEF Push
<1>3. IsFiniteSet(events') /\ Cardinality(events') <= Capacity
  <2> HIDE DEF e
  <2>1. /\ IsFiniteSet(Retained \cup {e})
        /\ \/ Cardinality(Retained \cup {e}) = Cardinality(Retained)
           \/ Cardinality(Retained \cup {e}) = Cardinality(Retained) + 1
    BY <1>1, FS_AddElement
  <2> QED
    BY <1>1, <1>2, <2>1
<1>4. next \in First..MaxOccurrence /\ next' = next + 1 /\ open' = open /\ static' = static
      /\ watermark' = watermark
  BY DEF Push, WinInv, WinTypeOK
<1>5. e \in [id : First..MaxOccurrence, payload : Payloads, deadline : Times \cup {NoTime}]
  BY <1>4 DEF Event
<1>6. WinTypeOK'
  BY <1>1, <1>2, <1>3, <1>4, <1>5 DEF WinInv, WinTypeOK
<1>7. IdsUnique'
  <2>1. \A x \in events : x.id < next /\ x.id \in Nat
    BY DEF WinInv, IdsUnique, WinTypeOK
  <2>2. e.id = next
    BY DEF Event
  <2> QED
    BY <1>1, <1>2, <1>4, <2>1, <2>2 DEF WinInv, IdsUnique
<1>8. NoneOverdue'
  <2>1. ~IsDue(e.deadline, watermark)
    BY DEF Push, IsDue, Event, WinInv, WinTypeOK
  <2> QED
    BY <1>1, <1>2, <1>4, <2>1 DEF WinInv, NoneOverdue
<1> QED
  BY <1>3, <1>6, <1>7, <1>8 DEF WinInv, AtMostCapacity

LEMMA ExpireInv ==
  ASSUME WinInv, NEW t \in Times, Expire(t)
  PROVE  WinInv'
<1> USE WindowAssumption
<1>1. events' \subseteq events
  BY DEF Expire
<1>2. IsFiniteSet(events') /\ Cardinality(events') <= Cardinality(events)
  BY <1>1, FS_Subset DEF WinInv, WinTypeOK
<1>3. WinTypeOK'
  BY <1>1, <1>2 DEF Expire, WinInv, WinTypeOK
<1>4. IdsUnique'
  BY <1>1 DEF Expire, WinInv, IdsUnique
<1>5. NoneOverdue'
  BY DEF Expire, NoneOverdue
<1>6. AtMostCapacity'
  BY <1>1, <1>2, FS_CardinalityType DEF WinInv, WinTypeOK, AtMostCapacity
<1> QED
  BY <1>3, <1>4, <1>5, <1>6 DEF WinInv

LEMMA WinStepInv == WinInv /\ [WinNext]_winVars => WinInv'
<1> USE WindowAssumption
<1> SUFFICES ASSUME WinInv, [WinNext]_winVars PROVE WinInv'
  OBVIOUS
<1>1. CASE Open
  BY <1>1 DEF Open, WinInv, WinTypeOK, IdsUnique, NoneOverdue, AtMostCapacity
<1>2. ASSUME NEW p \in Payloads, NEW d \in Times \cup {NoTime}, Push(p, d) PROVE WinInv'
  BY <1>2, PushInv
<1>3. ASSUME NEW t \in Times, Expire(t) PROVE WinInv'
  BY <1>3, ExpireInv
<1>4. ASSUME NEW facts \in StaticLists, ReplaceStatic(facts) PROVE WinInv'
  BY <1>4 DEF ReplaceStatic, WinInv, WinTypeOK, IdsUnique, NoneOverdue, AtMostCapacity
<1>5. CASE Close
  <2>1. WinTypeOK'
    <3>1. events' = {} /\ IsFiniteSet(events')
      BY <1>5, FS_EmptySet DEF Close
    <3>2. static' \in StaticLists
      BY <1>5, Zenon DEF Close, WindowAssumption
    <3>3. open' \in BOOLEAN /\ next' = First /\ watermark' \in Times \cup {NoTime}
      BY <1>5, Zenon DEF Close
    <3>4. First \in First..(MaxOccurrence + 1)
      OBVIOUS
    <3> QED
      BY <3>1, <3>2, <3>3, <3>4 DEF WinTypeOK
  <2>2. IdsUnique' /\ NoneOverdue'
    BY <1>5 DEF Close, IdsUnique, NoneOverdue
  <2>3. AtMostCapacity'
    BY <1>5, FS_EmptySet DEF Close, AtMostCapacity
  <2> QED
    BY <2>1, <2>2, <2>3 DEF WinInv
<1>6. CASE UNCHANGED winVars
  BY <1>6 DEF winVars, WinInv, WinTypeOK, IdsUnique, NoneOverdue, AtMostCapacity
<1> QED
  BY <1>1, <1>2, <1>3, <1>4, <1>5, <1>6 DEF WinNext

\* Every reachable state of the window satisfies the inductive invariant.
THEOREM WindowInvariant == WinSpec => []WinInv
<1> QED
  BY WinInitInv, WinStepInv, PTL DEF WinSpec

\* The promise holds for every capacity, set of times and range of IDs: the cursor
\* moves with every event that is accepted and with nothing else; a deadline
\* already reached is refused and expiry removes what the watermark makes due;
\* evicting the oldest event of a full window removes exactly one, because IDs
\* tell the events apart.
THEOREM PromiseKept == WinSpec => []WindowPromise
<1>1. WinInv => WindowPromise
  BY DEF WinInv, WindowPromise
<1> QED
  BY WindowInvariant, <1>1, PTL
=============================================================================

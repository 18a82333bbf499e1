---------------------------- MODULE SlidingWindow ----------------------------
(***************************************************************************)
(* What a single-fact window promises its user: the last accepted events   *)
(* under consecutive occurrence IDs, which give their arrival order,       *)
(* together with static facts, changed by whole operations that happen or  *)
(* do not.  Module Window implements it with two banks and two sessions.   *)
(***************************************************************************)
EXTENDS Integers, FiniteSets

CONSTANTS
  Capacity,        \* events the window retains
  StaticLists,     \* the lists of static facts that fit the static capacity
  Payloads,        \* what an event says
  Times,           \* caller-defined time units
  First,           \* first occurrence ID
  MaxOccurrence    \* stands for INT32_MAX

NoTime == -1

ASSUME WindowAssumption ==
  /\ Capacity \in Nat \ {0}
  /\ <<>> \in StaticLists
  /\ Times \subseteq Nat
  /\ First \in Nat /\ MaxOccurrence \in Nat /\ First <= MaxOccurrence

VARIABLES open, static, events, next, watermark

winVars == <<open, static, events, next, watermark>>

Event(id, payload, deadline) == [id |-> id, payload |-> payload, deadline |-> deadline]

\* An event is due once the watermark reaches its deadline.
IsDue(deadline, time) == deadline # NoTime /\ deadline <= time

WinInit ==
  /\ open = FALSE
  /\ static = <<>>
  /\ events = {}
  /\ next = First
  /\ watermark = NoTime

Open ==
  /\ ~open
  /\ open' = TRUE
  /\ UNCHANGED <<static, events, next, watermark>>

\* A full window gives up its oldest event to a new one.
Retained ==
  IF Cardinality(events) = Capacity
  THEN {e \in events : \E older \in events : older.id < e.id}
  ELSE events

\* Faulty: a full window evicts nothing.
Push_NoEviction(payload, deadline) ==
  /\ open
  /\ next <= MaxOccurrence
  /\ deadline # NoTime => deadline > watermark
  /\ events' = events \cup {Event(next, payload, deadline)}
  /\ next' = next + 1
  /\ UNCHANGED <<open, static, watermark>>

Push(payload, deadline) ==
  /\ open
  /\ next <= MaxOccurrence
  /\ deadline # NoTime => deadline > watermark
  /\ events' = Retained \cup {Event(next, payload, deadline)}
  /\ next' = next + 1
  /\ UNCHANGED <<open, static, watermark>>

Expire(time) ==
  /\ open
  /\ time >= watermark
  /\ events' = {e \in events : ~IsDue(e.deadline, time)}
  /\ watermark' = time
  /\ UNCHANGED <<open, static, next>>

ReplaceStatic(facts) ==
  /\ open
  /\ static' = facts
  /\ UNCHANGED <<open, events, next, watermark>>

Close ==
  /\ open
  /\ open' = FALSE
  /\ static' = <<>>
  /\ events' = {}
  /\ next' = First
  /\ watermark' = NoTime

WinNext ==
  \/ Open
  \/ \E p \in Payloads, d \in Times \cup {NoTime} : Push(p, d)
  \/ \E t \in Times : Expire(t)
  \/ \E facts \in StaticLists : ReplaceStatic(facts)
  \/ Close

WinSpec == WinInit /\ [][WinNext]_winVars

\* Every variable keeps its type.
WinTypeOK ==
  /\ open \in BOOLEAN
  /\ static \in StaticLists
  /\ events \subseteq
       [id : First..MaxOccurrence, payload : Payloads, deadline : Times \cup {NoTime}]
  /\ IsFiniteSet(events)
  /\ next \in First..(MaxOccurrence + 1)
  /\ watermark \in Times \cup {NoTime}

\* No occurrence ID is given twice, whatever was evicted or expired: the events
\* have different IDs, all below the cursor.
IdsUnique ==
  \A e \in events :
    /\ e.id < next
    /\ \A other \in events : other.id = e.id => other = e

\* No retained event is due at the committed watermark.
NoneOverdue == \A e \in events : ~IsDue(e.deadline, watermark)

\* The window never holds more events than its capacity.
AtMostCapacity == Cardinality(events) <= Capacity

\* What a user relies on at every moment: IDs that are never reused, nothing
\* overdue, and no more events than the capacity.
WindowPromise == IdsUnique /\ NoneOverdue /\ AtMostCapacity
=============================================================================

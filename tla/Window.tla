-------------------------------- MODULE Window --------------------------------
(***************************************************************************)
(* The single-fact sliding window (src/runtime/maelys_datalog_window.c):   *)
(* two banks of input facts and deadlines, two sessions.  An update builds *)
(* the inactive bank, solves it as a candidate on that bank's session,     *)
(* releases the old result, swaps banks and commits the candidate.         *)
(*                                                                         *)
(* The update is cut at the callbacks it runs, where the program can use   *)
(* the old result (prepare or release an explanation) or call the window   *)
(* again; `step' is the callback.  A session is the value module Lease     *)
(* describes.  A window without expiration never gets a time.              *)
(***************************************************************************)
EXTENDS Integers, Sequences, SequencesExt

CONSTANTS Capacity, StaticFacts, StaticCapacity, Payloads, Times, First, MaxOccurrence

VARIABLES
  open,          \* the handle is usable: result # NULL, and init returned it
  busy,          \* window.busy
  step,          \* the callback under way, "none" outside
  active,        \* window.active
  facts,         \* inputs[b]: static facts, then event facts
  deadlines,     \* deadlines[b], parallel to the events of bank b
  static_count, next, now, has_now,
  todo,          \* the arguments of the update under way
  sessions       \* the two sessions (module Lease)

vars == <<open, busy, step, active, facts, deadlines, static_count, next, now,
          has_now, todo, sessions>>

Banks == {0, 1}
NoTime == -1
candidate == 1 - active

StaticFact(x) == [static |-> x]
EventFact(id, payload) == [id |-> id, payload |-> payload]
StaticLists == {[i \in DOMAIN l |-> StaticFact(l[i])] :
                  l \in BoundedSeq(StaticFacts, StaticCapacity)}
Inputs ==
  SUBSET ({StaticFact(x) : x \in StaticFacts}
            \cup {EventFact(i, p) : i \in First..MaxOccurrence, p \in Payloads})

L == INSTANCE Lease

\* The events of the active bank.
EventCount == Len(facts[active]) - static_count
Due(i, time) == deadlines[active][i] # NoTime /\ deadlines[active][i] <= time
Indices == [i \in 1..EventCount |-> i]

Idle == [op |-> "none"]

-----------------------------------------------------------------------------
(* Opening: probe session 1, then solve and publish the empty bank on 0. *)

WindowInit ==
  /\ ~open /\ step = "none"
  /\ active' = 0
  /\ facts' = [b \in Banks |-> <<>>]
  /\ deadlines' = [b \in Banks |-> <<>>]
  /\ static_count' = 0
  /\ next' = First
  /\ now' = 0 /\ has_now' = FALSE
  /\ step' = "probing"
  /\ UNCHANGED <<open, busy, todo, sessions>>

\* A failed solve ends window_init with both sessions as they were.
ProbeReturns ==
  /\ step = "probing"
  /\ \/ /\ L!CanSolve(sessions[1])
        /\ sessions' = [sessions EXCEPT ![1] = L!Candidate(@, {})]
        /\ step' = "unprobing"
     \/ step' = "none" /\ UNCHANGED sessions
  /\ UNCHANGED <<open, busy, active, facts, deadlines, static_count, next, now,
                 has_now, todo>>

UnprobeReturns ==
  /\ step = "unprobing"
  /\ sessions' = [sessions EXCEPT ![1] = L!Released(@)]
  /\ step' = "opening"
  /\ UNCHANGED <<open, busy, active, facts, deadlines, static_count, next, now,
                 has_now, todo>>

OpeningReturns ==
  /\ step = "opening"
  /\ \/ /\ L!CanSolve(sessions[0])
        /\ sessions' = [sessions EXCEPT ![0] = L!Candidate(@, {})]
        /\ step' = "committing"
     \/ step' = "none" /\ UNCHANGED sessions
  /\ UNCHANGED <<open, busy, active, facts, deadlines, static_count, next, now,
                 has_now, todo>>

-----------------------------------------------------------------------------
(* window_update. *)

\* Indices of the events the candidate bank keeps.
Kept(op, time) ==
  IF op = "expire" THEN SelectSeq(Indices, LAMBDA i : ~Due(i, time))
  ELSE IF op = "push" /\ EventCount = Capacity THEN Tail(Indices)
  ELSE Indices

TimeAccepted(op, time) ==
  time # NoTime /\ has_now => IF op = "expire" THEN time >= now ELSE time > now

\* Faulty: deadlines do not move with the events that are kept.
Build_StaleDeadlines(op, new, time) ==
  LET kept == Kept(op, time)
      prefix == IF op = "static" THEN new ELSE SubSeq(facts[active], 1, static_count)
      fresh == IF op = "push" THEN new ELSE <<>>
  IN  /\ facts' = [facts EXCEPT ![candidate] =
            prefix \o [k \in DOMAIN kept |-> facts[active][static_count + kept[k]]] \o fresh]
      /\ deadlines' = [deadlines EXCEPT ![candidate] =
            SubSeq(deadlines[active], 1, Len(kept)) \o IF op = "push" THEN <<time>> ELSE <<>>]

\* Faulty: the new event is put before the kept ones.
Build_NewestFirst(op, new, time) ==
  LET kept == Kept(op, time)
      prefix == IF op = "static" THEN new ELSE SubSeq(facts[active], 1, static_count)
      fresh == IF op = "push" THEN new ELSE <<>>
  IN  /\ facts' = [facts EXCEPT ![candidate] =
            prefix \o fresh \o [k \in DOMAIN kept |-> facts[active][static_count + kept[k]]]]
      /\ deadlines' = [deadlines EXCEPT ![candidate] =
            (IF op = "push" THEN <<time>> ELSE <<>>)
              \o [k \in DOMAIN kept |-> deadlines[active][kept[k]]]]

\* The candidate bank: static prefix, kept events, the new event.
Build(op, new, time) ==
  LET kept == Kept(op, time)
      prefix == IF op = "static" THEN new ELSE SubSeq(facts[active], 1, static_count)
      fresh == IF op = "push" THEN new ELSE <<>>
  IN  /\ facts' = [facts EXCEPT ![candidate] =
            prefix \o [k \in DOMAIN kept |-> facts[active][static_count + kept[k]]] \o fresh]
      /\ deadlines' = [deadlines EXCEPT ![candidate] =
            [k \in DOMAIN kept |-> deadlines[active][kept[k]]]
              \o IF op = "push" THEN <<time>> ELSE <<>>]

\* Nothing is due: only the watermark moves, without a callback.
AdvanceWatermark(time) ==
  /\ now' = time /\ has_now' = TRUE
  /\ UNCHANGED <<open, busy, step, active, facts, deadlines, static_count, next,
                 todo, sessions>>

\* The inactive bank cannot hold the candidate's text: it is left half built.
BankRejects ==
  /\ facts' = [facts EXCEPT ![candidate] = <<>>]
  /\ UNCHANGED <<open, busy, step, active, deadlines, static_count, next, now,
                 has_now, todo, sessions>>

SolveCandidateBank(op, new, time) ==
  /\ busy' = TRUE
  /\ Build(op, new, time)
  /\ todo' = [op |-> op, time |-> time,
              static |-> IF op = "static" THEN Len(new) ELSE static_count]
  /\ step' = "solving"
  /\ UNCHANGED <<open, active, static_count, next, now, has_now, sessions>>

WindowUpdate(op, new, time) ==
  /\ open /\ ~busy
  /\ TimeAccepted(op, time)
  /\ IF op = "expire" /\ \A i \in 1..EventCount : ~Due(i, time)
     THEN AdvanceWatermark(time)
     ELSE SolveCandidateBank(op, new, time) \/ BankRejects

\* window_push and window_push_until: the ID is the event's first term.
WindowPush(payload, deadline) ==
  /\ next <= MaxOccurrence
  /\ WindowUpdate("push", <<EventFact(next, payload)>>, deadline)

WindowExpire(time) == WindowUpdate("expire", <<>>, time)

WindowReplaceStatic(list) == WindowUpdate("static", list, NoTime)

\* Faulty: the candidate is solved over the inputs of the active bank.
SolvingReturns_OldInputs ==
  /\ step = "solving"
  /\ \/ /\ L!CanSolve(sessions[candidate])
        /\ sessions' = [sessions EXCEPT ![candidate] =
                          L!Candidate(@, ToSet(facts[active]))]
        /\ step' = IF L!CanRelease(sessions[active]) THEN "releasing" ELSE "discarding"
        /\ UNCHANGED <<busy, todo>>
     \/ /\ step' = "none" /\ busy' = FALSE /\ todo' = Idle
        /\ UNCHANGED sessions
  /\ UNCHANGED <<open, active, facts, deadlines, static_count, next, now, has_now>>

\* The candidate's solve callback returns; result_free(old) may be refused.
SolvingReturns ==
  /\ step = "solving"
  /\ \/ /\ L!CanSolve(sessions[candidate])
        /\ sessions' = [sessions EXCEPT ![candidate] =
                          L!Candidate(@, ToSet(facts[candidate]))]
        /\ step' = IF L!CanRelease(sessions[active]) THEN "releasing" ELSE "discarding"
        /\ UNCHANGED <<busy, todo>>
     \/ /\ step' = "none" /\ busy' = FALSE /\ todo' = Idle
        /\ UNCHANGED sessions
  /\ UNCHANGED <<open, active, facts, deadlines, static_count, next, now, has_now>>

\* Faulty: the candidate is not freed when the old result cannot be.
DiscardingReturns_KeepsCandidate ==
  /\ step = "discarding"
  /\ step' = "none" /\ busy' = FALSE /\ todo' = Idle
  /\ UNCHANGED <<open, active, facts, deadlines, static_count, next, now, has_now, sessions>>

\* Faulty: the early return leaves busy set.
DiscardingReturns_StaysBusy ==
  /\ step = "discarding"
  /\ sessions' = [sessions EXCEPT ![candidate] = L!Released(@)]
  /\ step' = "none" /\ todo' = Idle
  /\ UNCHANGED <<open, busy, active, facts, deadlines, static_count, next, now, has_now>>

DiscardingReturns ==
  /\ step = "discarding"
  /\ sessions' = [sessions EXCEPT ![candidate] = L!Released(@)]
  /\ step' = "none" /\ busy' = FALSE /\ todo' = Idle
  /\ UNCHANGED <<open, active, facts, deadlines, static_count, next, now, has_now>>

\* The old result is gone: the candidate's bank becomes the window.
ReleasingReturns ==
  /\ step = "releasing"
  /\ sessions' = [sessions EXCEPT ![active] = L!Released(@)]
  /\ active' = candidate
  /\ static_count' = todo.static
  /\ next' = IF todo.op = "push" THEN next + 1 ELSE next
  /\ now' = IF todo.op = "expire" THEN todo.time ELSE now
  /\ has_now' = (has_now \/ todo.op = "expire")
  /\ step' = "committing"
  /\ UNCHANGED <<open, busy, facts, deadlines, todo>>

\* Of an update, or of window_init, which hands the window out.
CommittingReturns ==
  /\ step = "committing"
  /\ sessions' = [sessions EXCEPT ![active] = L!Published(@)]
  /\ step' = "none" /\ busy' = FALSE /\ todo' = Idle
  /\ open' = TRUE
  /\ UNCHANGED <<active, facts, deadlines, static_count, next, now, has_now>>

-----------------------------------------------------------------------------

WindowFree ==
  /\ open /\ ~busy /\ L!CanRelease(sessions[active])
  /\ busy' = TRUE
  /\ step' = "closing"
  /\ UNCHANGED <<open, active, facts, deadlines, static_count, next, now, has_now,
                 todo, sessions>>

ClosingReturns ==
  /\ step = "closing"
  /\ sessions' = [sessions EXCEPT ![active] = L!Released(@)]
  /\ open' = FALSE
  /\ step' = "none" /\ busy' = FALSE
  /\ UNCHANGED <<active, facts, deadlines, static_count, next, now, has_now, todo>>

\* A session whose own callback runs refuses to prepare or release a handle.
InCallback(b) ==
  \/ step \in {"solving", "discarding"} /\ b = candidate
  \/ step \in {"releasing", "committing", "closing"} /\ b = active

\* The program prepares or releases explanations of the result it reads.
HoldExplanation(b, h) ==
  /\ L!CanHold(sessions[b]) /\ ~InCallback(b)
  /\ sessions' = [sessions EXCEPT ![b] = L!Holding(@, h)]
  /\ UNCHANGED <<open, busy, step, active, facts, deadlines, static_count, next, now,
                 has_now, todo>>

-----------------------------------------------------------------------------

Init ==
  /\ open = FALSE /\ busy = FALSE /\ step = "none" /\ active = 0
  /\ facts = [b \in Banks |-> <<>>]
  /\ deadlines = [b \in Banks |-> <<>>]
  /\ static_count = 0 /\ next = First /\ now = 0 /\ has_now = FALSE
  /\ todo = Idle
  /\ sessions = [b \in Banks |-> L!IdleLease]

Call ==
  \/ WindowInit
  \/ \E p \in Payloads, d \in Times \cup {NoTime} : WindowPush(p, d)
  \/ \E t \in Times : WindowExpire(t)
  \/ \E list \in StaticLists : WindowReplaceStatic(list)
  \/ WindowFree
  \/ \E b \in Banks, h \in BOOLEAN : HoldExplanation(b, h)

CallbackReturns ==
  \/ ProbeReturns \/ UnprobeReturns \/ OpeningReturns \/ SolvingReturns
  \/ DiscardingReturns \/ ReleasingReturns \/ CommittingReturns \/ ClosingReturns

Next == Call \/ CallbackReturns

\* A callback is a function call: it returns.
Spec == Init /\ [][Next]_vars /\ WF_vars(CallbackReturns)

-----------------------------------------------------------------------------
(* Properties. *)

\* The event a reader gets at an index of the active bank.
EventAt(i) ==
  [id |-> facts[active][static_count + i].id,
   payload |-> facts[active][static_count + i].payload,
   deadline |-> deadlines[active][i]]

\* Between operations an open window holds one lease, the published result of the
\* active bank's session, and a closed one none: whatever failed, no candidate
\* stays behind in the other session.
OneLease ==
  step = "none" =>
    /\ sessions[candidate].lease = "none"
    /\ sessions[active].lease = IF open THEN "published" ELSE "none"

\* The result the window hands out was computed over exactly the static facts
\* and events it reports, and the session adopted them.
ResultMatchesWindow ==
  open /\ step # "committing" =>
    /\ sessions[active].over = ToSet(facts[active])
    /\ sessions[active].committed = ToSet(facts[active])

\* The events the window hands out by index come in arrival order: their IDs
\* increase along the bank and stay below the cursor.
InArrivalOrder ==
  open => \A i \in 1..EventCount :
            /\ EventAt(i).id < next
            /\ \A j \in 1..(i - 1) : EventAt(j).id < EventAt(i).id

\* The window seen by its user, as the sliding window it promises.
SW == INSTANCE SlidingWindow WITH
  static <- IF open THEN SubSeq(facts[active], 1, static_count) ELSE <<>>,
  events <- IF open THEN {EventAt(i) : i \in 1..EventCount} ELSE {},
  next <- IF open THEN next ELSE First,
  watermark <- IF open /\ has_now THEN now ELSE NoTime

\* The two-bank window implements the sliding window: each update happens as a
\* whole at the swap of the banks or not at all, with the evicted, expired and
\* retained events, their deadlines and the occurrence cursor as promised.
ImplementsSlidingWindow == SW!WinSpec

\* Every operation ends and leaves the window usable.
OperationsEnd == (step # "none") ~> (step = "none" /\ ~busy)
=============================================================================

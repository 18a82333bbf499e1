----------------------------- MODULE GroupWindow -----------------------------
(***************************************************************************)
(* The window of event groups (src/runtime/                                *)
(* maelys_datalog_group_window.c).  A group contributes a list of facts,   *)
(* empty or with repetitions; the contributions of all groups lie one      *)
(* after the other behind the static facts, and a table gives each group   *)
(* its offset and length.  What is solved is the union of all of them.     *)
(*                                                                         *)
(* As in module Window, an update is cut at the callbacks it runs and a    *)
(* session is a value of module Lease.                                     *)
(***************************************************************************)
EXTENDS Integers, Sequences, FiniteSets, SequencesExt

CONSTANTS Groups,          \* capacities.groups
          Contributions,   \* capacities.contributions
          UniqueFacts,     \* capacities.unique_facts
          Facts,
          Payloads,        \* the lists of facts that are pushed
          StaticLists,     \* the lists of static facts that fit
          Times, First, MaxGroup

VARIABLES
  open, busy, step,    \* as in Window
  active,
  inputs,              \* inputs[b]: static facts, then contributions
  groups,              \* groups[b]: [id, offset, count], offset among contributions
  deadlines,           \* deadlines[b], parallel to groups[b]
  facts,               \* facts[b]: the union that is solved
  group_count, static_count, unique_count, next, now, has_now,
  todo, sessions

counts == <<group_count, static_count, unique_count, next, now, has_now>>
banks == <<inputs, groups, deadlines, facts>>
vars == <<open, busy, step, active, banks, counts, todo, sessions>>

Banks == {0, 1}
NoTime == -1
candidate == 1 - active
Idle == [op |-> "none"]

L == INSTANCE Lease WITH Inputs <- SUBSET Facts

Group(id, offset, count) == [id |-> id, offset |-> offset, count |-> count]
Due(i, time) == deadlines[active][i] # NoTime /\ deadlines[active][i] <= time

(* The contributions of group i of the active bank.                        *)
Slice(i) ==
  LET g == groups[active][i]
  IN  SubSeq(inputs[active], static_count + g.offset + 1, static_count + g.offset + g.count)

-----------------------------------------------------------------------------
(* Opening: probe session 1, then solve and publish nothing on session 0. *)

GroupWindowInit ==
  /\ ~open /\ step = "none"
  /\ active' = 0
  /\ inputs' = [b \in Banks |-> <<>>] /\ groups' = [b \in Banks |-> <<>>]
  /\ deadlines' = [b \in Banks |-> <<>>] /\ facts' = [b \in Banks |-> {}]
  /\ group_count' = 0 /\ static_count' = 0 /\ unique_count' = 0
  /\ next' = First /\ now' = 0 /\ has_now' = FALSE
  /\ step' = "probing"
  /\ UNCHANGED <<open, busy, todo, sessions>>

(* An empty candidate is solved on session b, or the solve fails and init  *)
(* returns with nothing leased.                                            *)
EmptyCandidate(b, then) ==
  /\ \/ /\ L!CanSolve(sessions[b])
        /\ sessions' = [sessions EXCEPT ![b] = L!Candidate(@, {})]
        /\ step' = then
     \/ step' = "none" /\ UNCHANGED sessions
  /\ UNCHANGED <<open, busy, active, banks, counts, todo>>

ProbeReturns == step = "probing" /\ EmptyCandidate(1, "unprobing")

UnprobeReturns ==
  /\ step = "unprobing"
  /\ sessions' = [sessions EXCEPT ![1] = L!Released(@)]
  /\ step' = "opening"
  /\ UNCHANGED <<open, busy, active, banks, counts, todo>>

OpeningReturns == step = "opening" /\ EmptyCandidate(0, "committing")

-----------------------------------------------------------------------------
(* group_update. *)

TimeAccepted(op, time) ==
  time # NoTime /\ has_now => IF op = "expire" THEN time >= now ELSE time > now

Evicts(op) == op = "push" /\ group_count = Groups

SkippedFacts(op) == IF Evicts(op) THEN groups[active][1].count ELSE 0

(* Indices of the groups the candidate keeps.                              *)
Kept(op, time) ==
  SelectSeq([i \in 1 .. group_count |-> i],
            LAMBDA i : IF op = "expire" THEN ~Due(i, time) ELSE ~(Evicts(op) /\ i = 1))

(* An expiry packs the kept groups; eviction moves them by the first one.  *)
Offset(op, kept, k) ==
  IF op = "expire"
  THEN FoldLeft(LAMBDA n, j : n + groups[active][kept[j]].count, 0, [j \in 1 .. k - 1 |-> j])
  ELSE groups[active][kept[k]].offset - SkippedFacts(op)

(* Faulty: the run that is copied does not start behind the evicted group. *)
Retained_FromStart(op, kept) ==
  IF op = "expire"
  THEN FlattenSeq([k \in DOMAIN kept |-> Slice(kept[k])])
  ELSE SubSeq(inputs[active], static_count + 1, Len(inputs[active]) - SkippedFacts(op))

(* The contributions that are copied: group by group for an expiry, in one *)
(* run behind the skipped ones otherwise.                                  *)
Retained(op, kept) ==
  IF op = "expire"
  THEN FlattenSeq([k \in DOMAIN kept |-> Slice(kept[k])])
  ELSE SubSeq(inputs[active], static_count + SkippedFacts(op) + 1, Len(inputs[active]))

(* make_union sorts the facts in place and drops repetitions.              *)
MakeUnion(raw) == ToSet(raw)

Build(op, new, time) ==
  LET kept == Kept(op, time)
      retained == Retained(op, kept)
      prefix == IF op = "static" THEN new ELSE SubSeq(inputs[active], 1, static_count)
      pushed == IF op = "push" THEN new ELSE <<>>
      raw == prefix \o retained \o pushed
  IN  /\ inputs' = [inputs EXCEPT ![candidate] = raw]
      /\ facts' = [facts EXCEPT ![candidate] = MakeUnion(raw)]
      /\ groups' = [groups EXCEPT ![candidate] =
           [k \in DOMAIN kept |->
              [groups[active][kept[k]] EXCEPT !.offset = Offset(op, kept, k)]]
           \o IF op = "push" THEN <<Group(next, Len(retained), Len(new))>> ELSE <<>>]
      /\ deadlines' = [deadlines EXCEPT ![candidate] =
           [k \in DOMAIN kept |-> deadlines[active][kept[k]]]
           \o IF op = "push" THEN <<time>> ELSE <<>>]

AdvanceWatermark(time) ==
  /\ now' = time /\ has_now' = TRUE
  /\ UNCHANGED <<open, busy, step, active, banks, group_count, static_count,
                 unique_count, next, todo, sessions>>

(* The text of the candidate does not fit its bank.  What was copied until *)
(* then is never read: the next update clears the bank first.              *)
BankRejects ==
  /\ inputs' = [inputs EXCEPT ![candidate] = <<>>]
  /\ UNCHANGED <<open, busy, step, active, groups, deadlines, facts, counts, todo, sessions>>

ContributionsFit(op, new) ==
  op = "push" =>
    Len(inputs[active]) - static_count - SkippedFacts(op) + Len(new) <= Contributions

UnionFits == Cardinality(facts'[candidate]) <= UniqueFacts

SolveCandidateBank(op, new, time) ==
  /\ ContributionsFit(op, new)
  /\ Build(op, new, time)
  /\ IF UnionFits
     THEN /\ busy' = TRUE /\ step' = "solving"
          /\ todo' = [op |-> op, time |-> time,
                      static |-> IF op = "static" THEN Len(new) ELSE static_count]
     ELSE UNCHANGED <<busy, step, todo>>
  /\ UNCHANGED <<open, active, counts, sessions>>

GroupUpdate(op, new, time) ==
  /\ open /\ ~busy
  /\ TimeAccepted(op, time)
  /\ IF op = "expire" /\ \A i \in 1 .. group_count : ~Due(i, time)
     THEN AdvanceWatermark(time)
     ELSE SolveCandidateBank(op, new, time) \/ (ContributionsFit(op, new) /\ BankRejects)

GroupWindowPush(list, deadline) ==
  next <= MaxGroup /\ GroupUpdate("push", list, deadline)
GroupWindowExpire(time) == GroupUpdate("expire", <<>>, time)
GroupWindowReplaceStatic(list) == GroupUpdate("static", list, NoTime)

SolvingReturns ==
  /\ step = "solving"
  /\ \/ /\ L!CanSolve(sessions[candidate])
        /\ sessions' = [sessions EXCEPT ![candidate] = L!Candidate(@, facts[candidate])]
        /\ step' = IF L!CanRelease(sessions[active]) THEN "releasing" ELSE "discarding"
        /\ UNCHANGED <<busy, todo>>
     \/ /\ step' = "none" /\ busy' = FALSE /\ todo' = Idle
        /\ UNCHANGED sessions
  /\ UNCHANGED <<open, active, banks, counts>>

DiscardingReturns ==
  /\ step = "discarding"
  /\ sessions' = [sessions EXCEPT ![candidate] = L!Released(@)]
  /\ step' = "none" /\ busy' = FALSE /\ todo' = Idle
  /\ UNCHANGED <<open, active, banks, counts>>

(* Faulty: the number of unique facts is not published with the bank. *)
ReleasingReturns_OldUnique ==
  /\ step = "releasing"
  /\ sessions' = [sessions EXCEPT ![active] = L!Released(@)]
  /\ active' = candidate
  /\ group_count' = Len(groups[candidate])
  /\ static_count' = todo.static
  /\ next' = IF todo.op = "push" THEN next + 1 ELSE next
  /\ now' = IF todo.op = "expire" THEN todo.time ELSE now
  /\ has_now' = (has_now \/ todo.op = "expire")
  /\ step' = "committing"
  /\ UNCHANGED <<open, busy, banks, unique_count, todo>>

ReleasingReturns ==
  /\ step = "releasing"
  /\ sessions' = [sessions EXCEPT ![active] = L!Released(@)]
  /\ active' = candidate
  /\ group_count' = Len(groups[candidate])
  /\ static_count' = todo.static
  /\ unique_count' = Cardinality(facts[candidate])
  /\ next' = IF todo.op = "push" THEN next + 1 ELSE next
  /\ now' = IF todo.op = "expire" THEN todo.time ELSE now
  /\ has_now' = (has_now \/ todo.op = "expire")
  /\ step' = "committing"
  /\ UNCHANGED <<open, busy, banks, todo>>

CommittingReturns ==
  /\ step = "committing"
  /\ sessions' = [sessions EXCEPT ![active] = L!Published(@)]
  /\ step' = "none" /\ busy' = FALSE /\ todo' = Idle
  /\ open' = TRUE
  /\ UNCHANGED <<active, banks, counts>>

-----------------------------------------------------------------------------

GroupWindowFree ==
  /\ open /\ ~busy /\ L!CanRelease(sessions[active])
  /\ busy' = TRUE /\ step' = "closing"
  /\ UNCHANGED <<open, active, banks, counts, todo, sessions>>

ClosingReturns ==
  /\ step = "closing"
  /\ sessions' = [sessions EXCEPT ![active] = L!Released(@)]
  /\ open' = FALSE /\ step' = "none" /\ busy' = FALSE
  /\ UNCHANGED <<active, banks, counts, todo>>

(* A session whose own callback runs refuses to prepare or release.        *)
InCallback(b) ==
  \/ step \in {"solving", "discarding"} /\ b = candidate
  \/ step \in {"releasing", "committing", "closing"} /\ b = active

HoldExplanation(b, h) ==
  /\ L!CanHold(sessions[b]) /\ ~InCallback(b)
  /\ sessions' = [sessions EXCEPT ![b] = L!Holding(@, h)]
  /\ UNCHANGED <<open, busy, step, active, banks, counts, todo>>

-----------------------------------------------------------------------------

Init ==
  /\ open = FALSE /\ busy = FALSE /\ step = "none" /\ active = 0
  /\ inputs = [b \in Banks |-> <<>>] /\ groups = [b \in Banks |-> <<>>]
  /\ deadlines = [b \in Banks |-> <<>>] /\ facts = [b \in Banks |-> {}]
  /\ group_count = 0 /\ static_count = 0 /\ unique_count = 0
  /\ next = First /\ now = 0 /\ has_now = FALSE
  /\ todo = Idle /\ sessions = [b \in Banks |-> L!IdleLease]

Call ==
  \/ GroupWindowInit
  \/ \E l \in Payloads, d \in Times \cup {NoTime} : GroupWindowPush(l, d)
  \/ \E t \in Times : GroupWindowExpire(t)
  \/ \E l \in StaticLists : GroupWindowReplaceStatic(l)
  \/ GroupWindowFree
  \/ \E b \in Banks, h \in BOOLEAN : HoldExplanation(b, h)

CallbackReturns ==
  \/ ProbeReturns \/ UnprobeReturns \/ OpeningReturns \/ SolvingReturns
  \/ DiscardingReturns \/ ReleasingReturns \/ CommittingReturns \/ ClosingReturns

Next == Call \/ CallbackReturns

Spec == Init /\ [][Next]_vars

-----------------------------------------------------------------------------
(* The result handed out was computed over the union of the static facts   *)
(* and all contributions reported, as many as are reported to be unique.   *)
ResultMatchesUnion ==
  open /\ step # "committing" =>
    /\ sessions[active].over = ToSet(inputs[active])
    /\ sessions[active].committed = ToSet(inputs[active])
    /\ unique_count = Cardinality(ToSet(inputs[active]))

(* The window as its user sees it: a sliding window whose events are the   *)
(* groups with the lists they contributed.                                 *)
SW == INSTANCE SlidingWindow WITH
  Capacity <- Groups, MaxOccurrence <- MaxGroup,
  static <- IF open THEN SubSeq(inputs[active], 1, static_count) ELSE <<>>,
  events <- IF open
            THEN {[id |-> groups[active][i].id, payload |-> Slice(i),
                   deadline |-> deadlines[active][i]] : i \in 1 .. group_count}
            ELSE {},
  next <- IF open THEN next ELSE First,
  watermark <- IF open /\ has_now THEN now ELSE NoTime

(* The window of groups implements the sliding window: every update        *)
(* happens as a whole at the swap of the banks or not at all, and every    *)
(* retained group still has the very list that was pushed.                 *)
ImplementsSlidingWindow == SW!WinSpec

=============================================================================

------------------------------- MODULE Session -------------------------------
(***************************************************************************)
(* One session of the runtime: the lease on its single result, the `busy'  *)
(* guard around every backend callback, the deferred (candidate) commit    *)
(* that windows use, the explanation handles and the result-scoped         *)
(* explanation cache, and the retained inputs of the transactional API     *)
(* (src/runtime/maelys_datalog_runtime.c and maelys_datalog_inputs.inc).   *)
(*                                                                         *)
(* A call of the API is cut where the code hands control to the backend: a *)
(* callback may call the API again, so each operation is enabled by the    *)
(* guards of its C function alone, never by "no callback is running".  The *)
(* one exception is ResultCommit, which no caller of the API can reach.  A *)
(* refused call changes nothing and is a stuttering step.  `frame' is the  *)
(* callback that runs, `depth' how many are nested.                        *)
(***************************************************************************)
EXTENDS Integers, FiniteSets

CONSTANTS
  Facts,             \* input facts a caller can name
  Vocabulary,        \* those whose symbols are in the frozen dictionary
  FactCapacity,      \* options.fact_capacity
  AdditionCapacity,  \* options.addition_capacity
  RemovalCapacity,   \* options.removal_capacity
  TransactionSolve,  \* TRUE: an ABI 7 backend that takes transactions
  Slots,             \* disjoint regions for explanation storage
  Workspace,         \* the region reserved by the session, or outside Slots
  Queries,           \* pairs of explanation kind and ground query
  MaxGeneration,     \* stands for UINT64_MAX in base.generation
  MaxIncarnation,    \* stands for UINT64_MAX in input_incarnation
  MaxResults         \* bound: results a behaviour publishes

ASSUME SessionAssumption ==
  /\ Vocabulary \subseteq Facts
  /\ IsFiniteSet(Facts)
  /\ TransactionSolve \in BOOLEAN
  /\ FactCapacity \in Nat /\ AdditionCapacity \in Nat /\ RemovalCapacity \in Nat
  /\ MaxGeneration \in Nat /\ MaxIncarnation \in Nat /\ MaxResults \in Nat

VARIABLES
  life,            \* "live" or "freed"
  busy,            \* session.busy
  active,          \* session.active # NULL; there is one result_storage
  pending_commit,  \* session.pending_commit
  generation,      \* session.result_generation
  handles,         \* result.explanations: the handle linked in each slot
  cache,           \* session.explanation_cache # NULL (it lies in Workspace)
  cacheKey,        \* explanation_generation and explanation_query
  inputs,          \* session.retained_inputs, NoInputs when detached
  incarnation,     \* input_incarnation
  frame,           \* the running callback, NoFrame when none runs
  depth,           \* number of nested backend callbacks
  known,           \* external: a base a caller has read, and the set it named then
  mirror,          \* external: input set and generation the backend committed
  state            \* external: result.state, what a solve computed, or NoState

vars == <<life, busy, active, pending_commit, generation, handles, cache,
          cacheKey, inputs, incarnation, known, frame, depth, mirror, state>>

leaseVars == <<life, active, pending_commit, generation>>
explanationVars == <<handles, cache, cacheKey>>
inputVars == <<inputs, incarnation, known>>
backendVars == <<mirror, state>>

NoInputs == [attached |-> FALSE]
NoBase == [read |-> FALSE]
NoFrame == [op |-> "none"]
NoState == [solved |-> FALSE]
NoKey == [generation |-> 0]
NoHandle == [generation |-> 0]
NoHandles == [slot \in Slots |-> NoHandle]

Bases == [incarnation : 0..MaxIncarnation, generation : 0..MaxGeneration]

\* Unsigned counters of one width each.
NextGeneration(g) == (g + 1) % (MaxGeneration + 1)
NextIncarnation == (incarnation + 1) % (MaxIncarnation + 1)

KeyFor(q) == [generation |-> generation, query |-> q]

-----------------------------------------------------------------------------
(* Callbacks: busy = 1 around every one of them. *)

Enter(f) ==
  /\ busy' = TRUE
  /\ frame' = f
  /\ depth' = depth + 1

\* One callback returns and the host calls the next without clearing busy.
Chain(f) ==
  /\ frame' = f
  /\ UNCHANGED <<busy, depth>>

Leave ==
  /\ busy' = FALSE
  /\ frame' = NoFrame
  /\ depth' = depth - 1

-----------------------------------------------------------------------------
(* The two ends of a transaction on the retained inputs.  Between transactions *)
(* the candidate array is scratch that nothing reads: it is kept empty here.   *)

RetainedCommit(h) ==
  IF h.attached /\ h.pending
  THEN [h EXCEPT !.live = h.candidate, !.candidate = {}, !.pending = FALSE,
                 !.base.generation = NextGeneration(@)]
  ELSE h

\* Faulty: the transaction stays pending.
RetainedAbort_Forgotten(h) == h

RetainedAbort(h) ==
  IF h.attached THEN [h EXCEPT !.candidate = {}, !.pending = FALSE] ELSE h

-----------------------------------------------------------------------------
(* Solving. *)

\* session_solve_materialized up to the solve callback.  `via' is the caller, `base'
\* what it was called with, `packet' what the backend receives.
SolveMaterialized(via, base, packet) ==
  Enter([op |-> "solve", via |-> via, base |-> base, packet |-> packet])

Snapshot(set, next) ==
  [kind |-> "REPLACE", additions |-> set, removals |-> {}, next |-> next]

Delta(added, removed, next) ==
  [kind |-> "DELTA", additions |-> added, removals |-> removed, next |-> next]

\* session_solve: the batch is validated, deduplicated and materialized before
\* the session changes.
SessionSolve(batch) ==
  /\ life = "live" /\ ~busy /\ ~active /\ inputs = NoInputs /\ ~TransactionSolve
  /\ SolveMaterialized("solve", NoBase, Snapshot(batch, 0))
  /\ UNCHANGED <<leaseVars, explanationVars, inputVars, backendVars>>

\* session_solve_candidate of a session without retained inputs: the window
\* adapters' deferred form of session_solve.
SessionSolveCandidate(batch) ==
  /\ life = "live" /\ ~busy /\ ~active /\ inputs = NoInputs /\ ~TransactionSolve
  /\ pending_commit' = TRUE
  /\ SolveMaterialized("candidate", NoBase, Snapshot(batch, 0))
  /\ UNCHANGED <<life, active, generation, explanationVars, inputVars, backendVars>>

\* External: what a conforming backend computes its result over.
BackendInput(packet) ==
  IF packet.kind = "REPLACE"
  THEN packet.additions
  ELSE (mirror.set \ packet.removals) \cup packet.additions

\* Faulty: a deferred candidate is committed at once.
SolveReturnsOk_CommitsAtOnce ==
  /\ frame.op = "solve"
  /\ generation < MaxResults
  /\ state' = [solved |-> TRUE, set |-> BackendInput(frame.packet),
               next |-> frame.packet.next]
  /\ generation' = generation + 1
  /\ active' = TRUE
  /\ Chain([op |-> "commit"])
  /\ UNCHANGED <<life, pending_commit, explanationVars, inputVars, mirror>>

\* The solve callback succeeds and so do the emitted output and the allocator.
SolveReturnsOk ==
  /\ frame.op = "solve"
  /\ generation < MaxResults
  /\ state' = [solved |-> TRUE, set |-> BackendInput(frame.packet),
               next |-> frame.packet.next]
  /\ generation' = generation + 1
  /\ active' = TRUE
  /\ IF pending_commit THEN Leave ELSE Chain([op |-> "commit"])
  /\ UNCHANGED <<life, pending_commit, explanationVars, inputVars, mirror>>

\* It fails, or the output or the allocator recorded an error: what it left in
\* result.state is destroyed.
SolveReturnsError ==
  /\ frame.op = "solve"
  /\ Chain([op |-> "discard", via |-> frame.via])
  /\ UNCHANGED <<leaseVars, explanationVars, inputVars, backendVars>>

\* Faulty: the error path returns with busy set.
DiscardReturns_StaysBusy ==
  /\ frame.op = "discard"
  /\ state' = NoState
  /\ inputs' = IF frame.via = "retained" THEN RetainedAbort(inputs) ELSE inputs
  /\ pending_commit' = IF frame.via = "solve" THEN pending_commit ELSE FALSE
  /\ frame' = NoFrame /\ depth' = depth - 1
  /\ UNCHANGED <<life, busy, active, generation, explanationVars, incarnation, known, mirror>>

\* The error path returns through retained_run or session_solve_candidate, which
\* drop the pending transaction.
DiscardReturns ==
  /\ frame.op = "discard"
  /\ state' = NoState
  /\ inputs' = IF frame.via = "retained" THEN RetainedAbort(inputs) ELSE inputs
  /\ pending_commit' = IF frame.via = "solve" THEN pending_commit ELSE FALSE
  /\ Leave
  /\ UNCHANGED <<life, active, generation, explanationVars, incarnation, known, mirror>>

\* result_commit.  The C function tests pending_commit alone, but it is internal:
\* only the window adapters call it, with a candidate whose solve has returned, so
\* no callback of this session runs then.
ResultCommit ==
  /\ frame = NoFrame /\ active /\ pending_commit
  /\ pending_commit' = FALSE
  /\ Enter([op |-> "commit"])
  /\ UNCHANGED <<life, active, generation, explanationVars, inputVars, backendVars>>

\* The backend adopts the result's inputs, then the host does.
CommitReturns ==
  /\ frame.op = "commit"
  /\ mirror' = [set |-> state.set, generation |-> state.next]
  /\ inputs' = RetainedCommit(inputs)
  /\ Leave
  /\ UNCHANGED <<leaseVars, explanationVars, incarnation, known, state>>

-----------------------------------------------------------------------------
(* Retained inputs. *)

\* session_inputs_init takes an incarnation, then interns the caller's symbols: when
\* that fails nothing is attached and the incarnation is spent.
InputsInit ==
  /\ life = "live" /\ ~busy /\ ~active /\ inputs = NoInputs /\ generation = 0
  /\ incarnation # MaxIncarnation
  /\ incarnation' = NextIncarnation
  /\ \/ inputs' = [attached |-> TRUE, live |-> {}, candidate |-> {}, pending |-> FALSE,
                   base |-> [incarnation |-> NextIncarnation, generation |-> 0]]
     \/ inputs' = inputs
  /\ UNCHANGED <<leaseVars, busy, explanationVars, known, frame, depth, backendVars>>

\* session_inputs_base: the caller now knows the name of the committed set.
InputsBase ==
  /\ inputs.attached /\ ~busy
  /\ known' = [read |-> TRUE, base |-> inputs.base, live |-> inputs.live]
  /\ UNCHANGED <<leaseVars, busy, explanationVars, inputs, incarnation, frame, depth,
                 backendVars>>

\* External: another session of the process attaches inputs (the incarnation counter
\* is global), and the caller reads one of the bases it goes through.
OtherInputs ==
  /\ incarnation # MaxIncarnation
  /\ incarnation' = NextIncarnation
  /\ \E g \in 0..MaxGeneration, set \in SUBSET Vocabulary :
       /\ Cardinality(set) <= FactCapacity /\ (g = 0 => set = {})
       /\ known' = [read |-> TRUE, live |-> set,
                    base |-> [incarnation |-> NextIncarnation, generation |-> g]]
  /\ UNCHANGED <<leaseVars, busy, explanationVars, inputs, frame, depth, backendVars>>

InputsFree ==
  /\ inputs.attached /\ ~busy /\ ~active
  /\ inputs' = NoInputs
  /\ UNCHANGED <<leaseVars, busy, explanationVars, incarnation, known, frame, depth,
                 backendVars>>

\* Faulty: a deferred candidate is delivered without its removals.
Delivery_NoRemovals(snapshot, deferred, fresh, removed, candidate) ==
  LET next == NextGeneration(inputs.base.generation)
  IN  IF ~TransactionSolve THEN Snapshot(candidate, next)
      ELSE IF deferred THEN Delta(candidate \ inputs.live, {}, next)
           ELSE IF snapshot THEN Snapshot(candidate, next)
                            ELSE Delta(fresh, removed, next)

\* Faulty: a fact that is live is not sent again, although the call removes it.
Delivery_SkipsLive(snapshot, deferred, fresh, removed, candidate) ==
  LET next == NextGeneration(inputs.base.generation)
  IN  IF ~TransactionSolve THEN Snapshot(candidate, next)
      ELSE IF deferred
           THEN Delta(candidate \ inputs.live, inputs.live \ candidate, next)
           ELSE IF snapshot THEN Snapshot(candidate, next)
                            ELSE Delta(fresh \ inputs.live, removed, next)

\* What retained_deliver and session_solve_materialized hand to the backend: the
\* whole set to one without transactions; to one with them the lots of the call,
\* or, for a deferred candidate, the difference from this session's live set.
Delivery(snapshot, deferred, fresh, removed, candidate) ==
  LET next == NextGeneration(inputs.base.generation)
  IN  IF ~TransactionSolve THEN Snapshot(candidate, next)
      ELSE IF deferred
           THEN Delta(candidate \ inputs.live, inputs.live \ candidate, next)
           ELSE IF snapshot THEN Snapshot(candidate, next)
                            ELSE Delta(fresh, removed, next)

\* retained_convert refuses an addition with a symbol the dictionary lacks.
Convertible(added) == added \subseteq Vocabulary

\* retained_compose counts the fresh facts against the room the kept ones leave.
Composable(kept, fresh) == Cardinality(fresh) <= FactCapacity - Cardinality(kept)

\* Faulty: the incarnation is not compared.
BaseCurrent_AnyAttachment(base) ==
  base.generation = inputs.base.generation /\ inputs.base.generation # MaxGeneration

\* The base a transaction names is the present one, and can be stepped.
BaseCurrent(base) == base = inputs.base /\ inputs.base.generation # MaxGeneration

\* retained_run: convert the lots (an unknown symbol is refused in an addition,
\* and names an absent fact in a removal), compose, materialize, solve.
RetainedRun(snapshot, deferred, base, added, removed) ==
  /\ inputs.attached /\ ~busy /\ ~active /\ ~inputs.pending
  /\ BaseCurrent(base)
  /\ Cardinality(added) <= IF snapshot THEN FactCapacity ELSE AdditionCapacity
  /\ Cardinality(removed) <= RemovalCapacity
  /\ Convertible(added)
  /\ LET gone == removed \cap Vocabulary
         kept == IF snapshot THEN {} ELSE inputs.live \ gone
         fresh == added \ kept
         candidate == kept \cup fresh
     IN  /\ Composable(kept, fresh)
         /\ inputs' = [inputs EXCEPT !.candidate = candidate, !.pending = TRUE]
         /\ SolveMaterialized("retained", base,
              Delivery(snapshot, deferred, fresh, gone, candidate))
  /\ pending_commit' = deferred
  /\ UNCHANGED <<life, active, generation, explanationVars, incarnation, known,
                 backendVars>>

InputsReplace(base, facts) == RetainedRun(TRUE, FALSE, base, facts, {})
InputsApply(base, added, removed) == RetainedRun(FALSE, FALSE, base, added, removed)

\* session_solve_candidate of a session with retained inputs.
RetainedCandidate(facts) ==
  /\ inputs.attached
  /\ RetainedRun(TRUE, TRUE, inputs.base, facts, {})

-----------------------------------------------------------------------------
(* Explanations: a handle lives in caller storage and is linked to the result. *)

\* Faulty: an unpublished candidate can be explained.
ExplanationAvailable_Candidate == life = "live" /\ ~busy /\ active

ExplanationAvailable == life = "live" /\ ~busy /\ ~pending_commit /\ active
Linked(slot) == handles[slot] # NoHandle

\* prepare_explanation up to the sizing callback.  `then' is what the caller does
\* with the handle: keep it, cache it, or write one text and release it.
PrepareExplanation(slot, q, then) ==
  Enter([op |-> "sizing", slot |-> slot, query |-> q, then |-> then])

\* result_prepare_explanation.
ResultPrepareExplanation(slot, q) ==
  /\ ExplanationAvailable
  /\ PrepareExplanation(slot, q, "keep")
  /\ UNCHANGED <<leaseVars, explanationVars, inputVars, backendVars>>

\* result_explain_text_in, and result_explain_text of a session that reserved
\* no workspace (its storage is a fresh block: a slot nobody else holds).
ResultExplainTextIn(slot, q) ==
  /\ ExplanationAvailable
  /\ PrepareExplanation(slot, q, "once")
  /\ UNCHANGED <<leaseVars, explanationVars, inputVars, backendVars>>

\* Faulty: the query is not compared.
CacheHit_AnyQuery(q) == cache /\ cacheKey.generation = generation

\* The cached handle answers the same query of the same result.
CacheHit(q) == cache /\ cacheKey = KeyFor(q)

\* cached_explain_text: a hit writes at once, a miss clears the cache first.
CachedExplainText(q) ==
  /\ Workspace \in Slots
  /\ ExplanationAvailable
  /\ IF CacheHit(q)
     THEN /\ Enter([op |-> "write", slot |-> Workspace, query |-> q, then |-> "cache"])
          /\ UNCHANGED explanationVars
     ELSE /\ PrepareExplanation(Workspace, q, "cache")
          /\ handles' = IF cache THEN [handles EXCEPT ![Workspace] = NoHandle]
                                 ELSE handles
          /\ cache' = FALSE
          /\ UNCHANGED cacheKey
  /\ UNCHANGED <<leaseVars, inputVars, backendVars>>

\* The region is refused when it overlaps a linked handle.
SizingReturns ==
  /\ frame.op = "sizing"
  /\ \/ /\ ~Linked(frame.slot)
        /\ Chain([frame EXCEPT !.op = "prepare"])
     \/ Leave
  /\ UNCHANGED <<leaseVars, explanationVars, inputVars, backendVars>>

PrepareReturnsOk ==
  /\ frame.op = "prepare"
  /\ \/ /\ Chain([frame EXCEPT !.op = "write"])
        /\ frame.then # "keep"
        /\ handles' = [handles EXCEPT ![frame.slot] = KeyFor(frame.query)]
     \/ \* keep the handle, or a size query, or too small a text buffer
        /\ Leave
        /\ handles' = IF frame.then = "once" THEN handles
                      ELSE [handles EXCEPT ![frame.slot] = KeyFor(frame.query)]
  /\ IF frame.then = "cache"
     THEN cache' = TRUE /\ cacheKey' = KeyFor(frame.query)
     ELSE UNCHANGED <<cache, cacheKey>>
  /\ UNCHANGED <<leaseVars, inputVars, backendVars>>

PrepareReturnsError ==
  /\ frame.op = "prepare"
  /\ Leave
  /\ UNCHANGED <<leaseVars, explanationVars, inputVars, backendVars>>

\* prepared_explanation_write_text on a handle its caller still holds.
WriteText(slot) ==
  /\ ExplanationAvailable /\ Linked(slot) /\ ~(cache /\ slot = Workspace)
  /\ Enter([op |-> "write", slot |-> slot, query |-> handles[slot].query,
            then |-> "keep"])
  /\ UNCHANGED <<leaseVars, explanationVars, inputVars, backendVars>>

WriteReturns ==
  /\ frame.op = "write"
  /\ handles' = IF frame.then = "once"
                THEN [handles EXCEPT ![frame.slot] = NoHandle] ELSE handles
  /\ Leave
  /\ UNCHANGED <<leaseVars, cache, cacheKey, inputVars, backendVars>>

ReleaseExplanation(slot) ==
  /\ ExplanationAvailable /\ Linked(slot) /\ ~(cache /\ slot = Workspace)
  /\ handles' = [handles EXCEPT ![slot] = NoHandle]
  /\ UNCHANGED <<leaseVars, busy, cache, cacheKey, inputVars, frame, depth, backendVars>>

-----------------------------------------------------------------------------
(* Releasing the result and the session. *)

\* Faulty: runs from inside a callback.
ResultFree_Reentrant ==
  /\ life = "live" /\ active
  /\ \A slot \in Slots : Linked(slot) => cache /\ slot = Workspace
  /\ handles' = IF cache THEN [handles EXCEPT ![Workspace] = NoHandle] ELSE handles
  /\ cache' = FALSE
  /\ Enter([op |-> "destroy_result"])
  /\ UNCHANGED <<leaseVars, cacheKey, inputVars, backendVars>>

\* Faulty: the cache pointer survives its handle.
ResultFree_KeepsCache ==
  /\ life = "live" /\ ~busy /\ active
  /\ \A slot \in Slots : Linked(slot) => cache /\ slot = Workspace
  /\ handles' = IF cache THEN [handles EXCEPT ![Workspace] = NoHandle] ELSE handles
  /\ Enter([op |-> "destroy_result"])
  /\ UNCHANGED <<leaseVars, cache, cacheKey, inputVars, backendVars>>

\* Refused while a caller's handle is linked; the cache's own handle is dropped.
ResultFree ==
  /\ life = "live" /\ ~busy /\ active
  /\ \A slot \in Slots : Linked(slot) => cache /\ slot = Workspace
  /\ handles' = IF cache THEN [handles EXCEPT ![Workspace] = NoHandle] ELSE handles
  /\ cache' = FALSE
  /\ Enter([op |-> "destroy_result"])
  /\ UNCHANGED <<leaseVars, cacheKey, inputVars, backendVars>>

DestroyResultReturns ==
  /\ frame.op = "destroy_result"
  /\ state' = NoState
  /\ inputs' = IF pending_commit THEN RetainedAbort(inputs) ELSE inputs
  /\ active' = FALSE
  /\ pending_commit' = FALSE
  /\ handles' = NoHandles
  /\ Leave
  /\ UNCHANGED <<life, generation, cache, cacheKey, incarnation, known, mirror>>

SessionFree ==
  /\ life = "live" /\ ~active /\ ~busy /\ ~inputs.attached
  /\ Enter([op |-> "destroy"])
  /\ UNCHANGED <<leaseVars, explanationVars, inputVars, backendVars>>

DestroyReturns ==
  /\ frame.op = "destroy"
  /\ life' = "freed"
  /\ frame' = NoFrame
  /\ depth' = depth - 1
  /\ UNCHANGED <<busy, active, pending_commit, generation, explanationVars,
                 inputVars, backendVars>>

-----------------------------------------------------------------------------

Init ==
  /\ life = "live"
  /\ busy = FALSE
  /\ active = FALSE
  /\ pending_commit = FALSE
  /\ generation = 0
  /\ handles = NoHandles
  /\ cache = FALSE
  /\ cacheKey = NoKey
  /\ inputs = NoInputs
  /\ incarnation = 0
  /\ known = NoBase
  /\ frame = NoFrame
  /\ depth = 0
  /\ mirror = [set |-> {}, generation |-> 0]
  /\ state = NoState

\* The calls a host program or a window adapter can make.
HostCall ==
  \/ \E batch \in SUBSET Facts : SessionSolve(batch) \/ SessionSolveCandidate(batch)
  \/ InputsInit \/ InputsBase \/ OtherInputs \/ InputsFree
  \/ \E base \in Bases, facts \in SUBSET Facts : InputsReplace(base, facts)
  \/ \E base \in Bases, added, removed \in SUBSET Facts :
        InputsApply(base, added, removed)
  \/ \E facts \in SUBSET Facts : RetainedCandidate(facts)
  \/ ResultCommit
  \/ ResultFree
  \/ SessionFree
  \/ \E slot \in Slots, q \in Queries :
        ResultPrepareExplanation(slot, q) \/ ResultExplainTextIn(slot, q)
  \/ \E q \in Queries : CachedExplainText(q)
  \/ \E slot \in Slots : WriteText(slot) \/ ReleaseExplanation(slot)

CallbackReturn ==
  \/ SolveReturnsOk \/ SolveReturnsError \/ DiscardReturns \/ CommitReturns
  \/ SizingReturns \/ PrepareReturnsOk \/ PrepareReturnsError \/ WriteReturns
  \/ DestroyResultReturns \/ DestroyReturns

Next == HostCall \/ CallbackReturn

\* A backend callback is a function call: it returns.
Spec == Init /\ [][Next]_vars /\ WF_vars(CallbackReturn)

-----------------------------------------------------------------------------
(* Properties. *)

\* `busy' is exactly "a backend callback is running" (and stays set in the memory
\* of a freed session), so callbacks of one session never nest: no call a backend
\* makes from inside a callback gets to another callback.
CallbacksNeverNest ==
  /\ depth = IF frame = NoFrame THEN 0 ELSE 1
  /\ busy <=> (frame # NoFrame \/ life = "freed")

\* A linked explanation handle belongs to the published result that is leased
\* now: none survives result_free, none is made from an unpublished candidate.
HandlesBelongToTheLease ==
  \A slot \in Slots : Linked(slot) =>
    active /\ ~pending_commit /\ handles[slot].generation = generation

\* A set cache pointer points at a linked handle in the session's own workspace,
\* for the query the cache key names.
CachePointsAtAHandle ==
  cache => Workspace \in Slots /\ handles[Workspace] = cacheKey

\* The text written, from the cache or from a caller's handle, explains the query
\* that was asked, on the result that is leased.
TextAnswersTheQuery ==
  frame.op = "write" => handles[frame.slot] = KeyFor(frame.query)

\* The set the backend committed is the host's live set, with its generation,
\* at every moment outside a commit callback, whatever mix of replaced, applied,
\* deferred, failed and aborted transactions came before.
BackendInStep ==
  inputs.attached /\ frame.op # "commit" =>
    /\ mirror.set = inputs.live
    /\ mirror.generation = inputs.base.generation

\* The result a caller reads was computed over the set the host committed with
\* it, and an unpublished one over the candidate set.
ResultMatchesInputs ==
  inputs.attached /\ active =>
    state.solved /\ state.set = IF inputs.pending THEN inputs.candidate ELSE inputs.live

\* retained_run starts a transaction only on the set its base names: when a caller's
\* base is accepted, the committed set is still the one that was committed when the
\* caller read the base, whatever was committed, attached or detached since, in this
\* session or in another.  No caller's transaction overwrites a set it never saw.
AppliesToTheSetItNames ==
  frame.op = "solve" /\ frame.via = "retained" /\ known # NoBase =>
    (frame.base = known.base => inputs.live = known.live)

\* A transaction that fails or is aborted leaves the committed state of host and
\* backend untouched: the lease can end without a commit only with both as they
\* were, and the candidate flag never outlives its lease.
AbortLeavesNoTrace ==
  [][ (pending_commit \/ frame.op = "discard") /\ frame' = NoFrame /\ ~active' /\ ~pending_commit'
      => mirror' = mirror /\ inputs'.attached = inputs.attached
         /\ (inputs.attached => inputs'.live = inputs.live /\ inputs'.base = inputs.base
                               /\ ~inputs'.pending) ]_vars

\* The session keeps the promise the window adapters build on (module Lease): one
\* lease at a time, published only by a commit that adopts exactly the set the
\* result was computed over, released only when no caller holds a handle.
Held == \E slot \in Slots : Linked(slot) /\ ~(cache /\ slot = Workspace)
LeaseState ==
  IF ~active THEN "none"
  ELSE IF pending_commit \/ frame.op = "commit" THEN "candidate" ELSE "published"
SL == INSTANCE SessionLease WITH
  Inputs <- SUBSET Facts,
  s <- [lease |-> LeaseState, over |-> IF state.solved THEN state.set ELSE {},
        committed |-> mirror.set, held |-> Held]
KeepsLease == SL!Spec

\* Every call that enters a callback comes back, and gives the session up for
\* other calls unless it freed it.
CallsReturn == (frame # NoFrame) ~> (frame = NoFrame /\ (~busy \/ life = "freed"))

=============================================================================

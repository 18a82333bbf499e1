------------------------------ MODULE Allocation ------------------------------
(***************************************************************************)
(* The elastic allocation service a session offers its backend             *)
(* (src/runtime/maelys_datalog_allocation.inc) under the phases the host   *)
(* sets around the backend's callbacks (maelys_datalog_runtime.c and       *)
(* maelys_datalog_resources.inc).                                          *)
(*                                                                         *)
(* Every block comes from the caller's allocator, is charged to the        *)
(* session's cap, and is provisional until the operation that acquired it  *)
(* commits.  The backend may use the service at any moment, also where the *)
(* phase forbids it and from inside the caller's allocator: misuse poisons *)
(* the operation with its first error.                                     *)
(***************************************************************************)
EXTENDS Integers, FiniteSets, FiniteSetsExt

CONSTANTS
  Addresses,   \* disjoint blocks the caller's allocator can hand out
  Charges,     \* charges of the requests: header, alignment slack and payload
  Cap,         \* execution_byte_cap
  Fixed        \* bytes of the fixed plan, charged from the start

ASSUME AllocationAssumption ==
  /\ IsFiniteSet(Addresses)
  /\ Charges \subseteq Nat \ {0}
  /\ Cap \in Nat /\ Fixed \in 0..Cap

VARIABLES
  host,      \* where the session is between the backend's callbacks
  phase,     \* allocation.phase
  blocks,    \* allocation.blocks: the linked addresses
  charge,    \* block.charge of a linked address
  provisional, \* linked addresses with block.provisional set
  current,   \* allocation.current
  peak,      \* allocation.peak
  error,     \* allocation.error, "OK" when the operation is not poisoned
  request,   \* charge of the acquisition inside the caller's allocator, 0 if none
  heap,      \* external: addresses the caller's allocator has handed out
  given      \* external: blocks whose payload the backend was handed

vars == <<host, phase, blocks, charge, provisional, current, peak, error, request,
          heap, given>>
listVars == <<blocks, charge, provisional, current, heap, given>>

calling == request # 0
ChargeOf(set) == MapThenSumSet(LAMBDA a : charge[a], set)

-----------------------------------------------------------------------------
(* The service. *)

\* allocation_fail: the first error of an operation sticks.
AllocationFail(status) == error' = IF error = "OK" THEN status ELSE error

\* Faulty: the charge is not given back.
AllocationDrop_KeepsCharge(set) ==
  /\ blocks' = blocks \ set
  /\ provisional' = provisional \ set
  /\ heap' = heap \ set
  /\ given' = given \ set
  /\ error' = error \/ (set # {} /\ AllocationFail("INVALID_STATE"))
  /\ UNCHANGED current

\* allocation_drop of a set of blocks.  The caller's release function runs with
\* `calling' set; if it uses the service it poisons the operation.
AllocationDrop(set) ==
  /\ blocks' = blocks \ set
  /\ provisional' = provisional \ set
  /\ current' = current - ChargeOf(set)
  /\ heap' = heap \ set
  /\ given' = given \ set
  /\ error' = error \/ (set # {} /\ AllocationFail("INVALID_STATE"))

\* Stands for a size and alignment that allocation_shape refuses.
BadShape == 0

\* allocation_acquire up to the caller's allocator.
AcquireRefused(n) ==
  IF calling \/ phase \notin {"PREPARE", "SOLVE"} THEN "INVALID_STATE"
  ELSE IF n = BadShape THEN "INVALID_ARGUMENT"
  ELSE IF n > Cap - current THEN "PAYLOAD_TOO_LARGE" ELSE "OK"

\* It is called with a malformed diagnostic or without a place for the block: that
\* poisons the operation in every phase, also from inside the caller's allocator.
AcquireMalformed ==
  /\ host # "gone"
  /\ AllocationFail("INVALID_ARGUMENT")
  /\ UNCHANGED <<host, phase, listVars, peak, request>>

Acquire(n) ==
  /\ host # "gone" /\ error = "OK"
  /\ IF AcquireRefused(n) # "OK"
     THEN AllocationFail(AcquireRefused(n)) /\ UNCHANGED request
     ELSE request' = n /\ UNCHANGED error
  /\ UNCHANGED <<host, phase, listVars, peak>>

\* The allocator answers with a block.  An operation poisoned meanwhile keeps the
\* block linked, and the backend does not get it.
AcquireReturns(a) ==
  /\ calling /\ a \notin heap
  /\ heap' = heap \cup {a}
  /\ given' = IF error = "OK" THEN given \cup {a} ELSE given
  /\ blocks' = blocks \cup {a}
  /\ charge' = [charge EXCEPT ![a] = request]
  /\ provisional' = provisional \cup {a}
  /\ current' = current + request
  /\ peak' = IF current + request > peak THEN current + request ELSE peak
  /\ request' = 0
  /\ UNCHANGED <<host, phase, error>>

\* It answers NULL, or a misaligned block that is given back at once, or one that
\* overlaps a live range and is left alone.
AcquireFails(status) ==
  /\ calling
  /\ AllocationFail(status)
  /\ request' = 0
  /\ UNCHANGED <<host, phase, listVars, peak>>

\* Faulty: an adopted block can be released while a solve runs.
ReleaseAllowed_Adopted(a) ==
  /\ ~calling /\ phase \in {"PREPARE", "SOLVE", "ABORT", "CLEANUP", "DESTROY"}
  /\ a \in blocks

\* What allocation_release tests, allocation_inspect_phase included.
ReleaseAllowed(a) ==
  /\ ~calling /\ phase \in {"PREPARE", "SOLVE", "ABORT", "CLEANUP", "DESTROY"}
  /\ a \in blocks
  /\ phase \in {"PREPARE", "SOLVE", "ABORT"} => a \in provisional

Release(a) ==
  /\ host # "gone"
  /\ IF ReleaseAllowed(a)
     THEN AllocationDrop({a}) /\ UNCHANGED charge
     ELSE AllocationFail("INVALID_STATE") /\ UNCHANGED listVars
  /\ UNCHANGED <<host, phase, peak, request>>

AllocationBegin(p) ==
  /\ phase' = p
  /\ peak' = current
  /\ error' = "OK"

AllocationAdopt ==
  /\ provisional' = {}
  /\ phase' = "IDLE"

\* Faulty: destroying a session sweeps only provisional blocks.
AllocationSweep_Provisional(all) ==
  /\ AllocationDrop(provisional)
  /\ phase' = "IDLE"

AllocationSweep(all) ==
  /\ AllocationDrop(IF all THEN blocks ELSE provisional)
  /\ phase' = "IDLE"

-----------------------------------------------------------------------------
(* The host: a callback returns only once its own calls have returned. *)

\* fixed_init calls prepare; session_solve_materialized calls solve.
Prepare ==
  /\ host = "new"
  /\ host' = "preparing"
  /\ AllocationBegin("PREPARE")
  /\ UNCHANGED <<listVars, request>>

PrepareReturns ==
  /\ host = "preparing" /\ ~calling
  /\ \/ error = "OK" /\ host' = "ready" /\ AllocationAdopt
     \/ host' = "destroying" /\ phase' = "DESTROY" /\ UNCHANGED provisional
  /\ UNCHANGED <<blocks, charge, current, peak, error, request, heap, given>>

Solve ==
  /\ host = "ready"
  /\ host' = "solving"
  /\ AllocationBegin("SOLVE")
  /\ UNCHANGED <<listVars, request>>

\* Any recorded error overrides the backend's own status.
SolveReturns ==
  /\ host = "solving" /\ ~calling
  /\ \/ error = "OK" /\ host' = "committing" /\ phase' = "COMMIT"
     \/ error = "OK" /\ host' = "candidate" /\ phase' = "IDLE"
     \/ host' = "aborting" /\ phase' = "ABORT"
  /\ UNCHANGED <<listVars, peak, error, request>>

\* result_commit of a deferred candidate.
ResultCommit ==
  /\ host = "candidate"
  /\ host' = "committing" /\ phase' = "COMMIT"
  /\ UNCHANGED <<listVars, peak, error, request>>

CommitReturns ==
  /\ host = "committing"
  /\ host' = "leased"
  /\ AllocationAdopt
  /\ UNCHANGED <<blocks, charge, current, peak, error, request, heap, given>>

\* result_free destroys an unpublished candidate or a published result.
ResultFree ==
  /\ \/ host = "candidate" /\ host' = "aborting" /\ phase' = "ABORT"
     \/ host = "leased" /\ host' = "cleaning" /\ phase' = "CLEANUP"
  /\ UNCHANGED <<listVars, peak, error, request>>

DestroyResultReturns ==
  /\ host \in {"aborting", "cleaning"}
  /\ host' = "ready"
  /\ AllocationSweep(FALSE)
  /\ UNCHANGED <<charge, peak, request>>

SessionFree ==
  /\ host = "ready"
  /\ host' = "destroying" /\ phase' = "DESTROY"
  /\ UNCHANGED <<listVars, peak, error, request>>

DestroyReturns ==
  /\ host = "destroying"
  /\ host' = "gone"
  /\ AllocationSweep(TRUE)
  /\ UNCHANGED <<charge, peak, request>>

-----------------------------------------------------------------------------

Init ==
  /\ host = "new"
  /\ phase = "IDLE"
  /\ blocks = {}
  /\ charge = [a \in Addresses |-> 0]
  /\ provisional = {}
  /\ current = Fixed
  /\ peak = Fixed
  /\ error = "OK"
  /\ request = 0
  /\ heap = {}
  /\ given = {}

Service ==
  \/ \E n \in Charges \cup {BadShape} : Acquire(n)
  \/ AcquireMalformed
  \/ \E a \in Addresses : AcquireReturns(a) \/ Release(a)
  \/ \E status \in {"STORAGE_TOO_SMALL", "INVALID_STATE"} : AcquireFails(status)

Host ==
  \/ Prepare \/ PrepareReturns \/ Solve \/ SolveReturns \/ ResultCommit
  \/ CommitReturns \/ ResultFree \/ DestroyResultReturns \/ SessionFree
  \/ DestroyReturns

Next == Service \/ Host

Spec == Init /\ [][Next]_vars

-----------------------------------------------------------------------------
(* Properties. *)

\* The running total is the fixed plan plus the charges of the linked blocks,
\* through every mix of releases, sweeps and refused acquisitions; it never
\* passes the cap, not even with the request inside the caller's allocator, and
\* the reported peak lies between the two.
AccountsExact ==
  /\ current = Fixed + ChargeOf(blocks)
  /\ current + request <= Cap
  /\ current <= peak /\ peak <= Cap

\* Every block the caller's allocator handed out is linked until it is given
\* back; a session that is gone, or whose prepare failed, owns none; provisional
\* blocks do not outlive their operation or their undecided candidate.
NothingLeaks ==
  /\ heap = blocks
  /\ host \in {"new", "gone"} => blocks = {}
  /\ host \in {"new", "ready", "leased", "gone"} => provisional = {}

\* An operation that fails or a candidate that is aborted takes no adopted block
\* with it: those leave only when a published result or the session is destroyed.
\* What becomes adopted was handed to the backend, never linked after a reentrant
\* call poisoned the operation.
AdoptedSurvives ==
  [][/\ \A a \in blocks \ provisional :
          phase \notin {"CLEANUP", "DESTROY"} =>
            a \in blocks' /\ a \notin provisional' /\ charge'[a] = charge[a]
     /\ blocks' \ provisional' \subseteq given']_vars

=============================================================================

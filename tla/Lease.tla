-------------------------------- MODULE Lease --------------------------------
(***************************************************************************)
(* What a session promises the adapters built on it, as a value and the    *)
(* ways it may change.  `lease' is the state of the one result a session   *)
(* can have, `over' the input set that result was computed over,           *)
(* `committed' the input set the backend last adopted and `held' tells     *)
(* whether a caller holds an explanation handle of the result.  Module     *)
(* SessionLease states it as a specification, which Session implements;    *)
(* Window moves two such values.                                           *)
(***************************************************************************)
EXTENDS FiniteSets

CONSTANT Inputs   \* the input sets sessions are solved over

IdleLease == [lease |-> "none", over |-> {}, committed |-> {}, held |-> FALSE]

\* A deferred solve succeeded: the result exists, nothing is adopted.
Candidate(s, set) == [s EXCEPT !.lease = "candidate", !.over = set]
CanSolve(s) == s.lease = "none"

\* The commit callback: from now on the result is public.
Published(s) == [s EXCEPT !.lease = "published", !.committed = s.over]
CanPublish(s) == s.lease = "candidate"

\* result_free, refused while a handle is held.
Released(s) == [s EXCEPT !.lease = "none", !.over = {}]
CanRelease(s) == s.lease # "none" /\ ~s.held

\* A caller prepares its first handle, or releases its last one.
Holding(s, h) == [s EXCEPT !.held = h]
CanHold(s) == s.lease = "published"
=============================================================================

----------------------------- MODULE SessionLease -----------------------------
(* The lease of one session as a specification: see Lease and Session. *)
EXTENDS Lease

VARIABLE s

Init == s = IdleLease

SolveCandidate == CanSolve(s) /\ \E set \in Inputs : s' = Candidate(s, set)
Publish == CanPublish(s) /\ s' = Published(s)
Release == CanRelease(s) /\ s' = Released(s)
Hold == CanHold(s) /\ \E h \in BOOLEAN : s' = Holding(s, h)

Next == SolveCandidate \/ Publish \/ Release \/ Hold

Spec == Init /\ [][Next]_s
=============================================================================

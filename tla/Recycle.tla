------------------------------- MODULE Recycle -------------------------------
(***************************************************************************)
(* The one idle allocation a loaded library keeps for the next session     *)
(* (src/runtime/maelys_datalog_recycle.inc).  Threads create and free      *)
(* sessions, purge the slot, and one of them runs the destructor that      *)
(* closes it.  A spin lock guards the slot; malloc and free are called     *)
(* outside of it.  What is read under the lock and what is written there   *)
(* are two steps, since only the lock makes them one.                      *)
(***************************************************************************)
EXTENDS Naturals, FiniteSets

CONSTANTS Threads,
          Blocks,      \* the addresses malloc hands out
          Sizes,       \* the sizes sessions ask for
          Bound,       \* maelys_datalog_session_recycle_bound
          NULL

VARIABLES recycle_lock, recycle_storage, recycle_bytes, recycle_closed,
          heap,        \* heap[b]: the size of an allocated block, or zero
          held,        \* blocks of live sessions
          frame        \* frame[t]: the call a thread is in

vars == <<recycle_lock, recycle_storage, recycle_bytes, recycle_closed, heap, held, frame>>
slotVars == <<recycle_storage, recycle_bytes, recycle_closed>>

(* p is the block acquired or released, old the one taken from the slot.   *)
Frame(op, pc, bytes, p) == [op |-> op, pc |-> pc, bytes |-> bytes, p |-> p, old |-> NULL]
Idle == Frame("none", "idle", 0, NULL)
At(t, pc) == frame[t].pc = pc
Goto(t, pc) == frame' = [frame EXCEPT ![t].pc = pc]

-----------------------------------------------------------------------------

SessionStorageAcquire(t, n) ==
  /\ At(t, "idle")
  /\ frame' = [frame EXCEPT ![t] = Frame("acquire", "lock", n, NULL)]
  /\ UNCHANGED <<recycle_lock, slotVars, heap, held>>

(* A block beyond the bound goes straight back to the heap.                *)
SessionStorageRelease(t, b) ==
  /\ At(t, "idle") /\ b \in held
  /\ held' = held \ {b}
  /\ frame' = [frame EXCEPT ![t] =
       Frame("release", IF heap[b] <= Bound THEN "lock" ELSE "return", heap[b], b)]
  /\ UNCHANGED <<recycle_lock, slotVars, heap>>

(* A purge, or the destructor, which runs once.                            *)
RecycleDrain(t, op) ==
  /\ At(t, "idle")
  /\ op = "shutdown" => ~recycle_closed /\ \A u \in Threads : frame[u].op # "shutdown"
  /\ frame' = [frame EXCEPT ![t] = Frame(op, "lock", 0, NULL)]
  /\ UNCHANGED <<recycle_lock, slotVars, heap, held>>

(* Faulty: the flag is set without a look at its old value. *)
LockRecycle_Unchecked(t) ==
  /\ At(t, "lock")
  /\ recycle_lock' = TRUE /\ Goto(t, "read")
  /\ UNCHANGED <<slotVars, heap, held>>

LockRecycle(t) ==
  /\ At(t, "lock") /\ ~recycle_lock
  /\ recycle_lock' = TRUE /\ Goto(t, "read")
  /\ UNCHANGED <<slotVars, heap, held>>

(* The slot serves an acquire of exactly its size and takes a release      *)
(* unless it is closed; a drain always empties it.                         *)
Read(t) ==
  /\ At(t, "read")
  /\ LET f == frame[t]
         hit == ~recycle_closed /\ recycle_storage # NULL /\ recycle_bytes = f.bytes
     IN  frame' = [frame EXCEPT ![t] =
           CASE f.op = "acquire" /\ hit -> [f EXCEPT !.pc = "write", !.p = recycle_storage]
             [] f.op = "acquire" /\ ~hit -> [f EXCEPT !.pc = "unlock"]
             [] f.op = "release" /\ recycle_closed -> [f EXCEPT !.pc = "unlock"]
             [] OTHER -> [f EXCEPT !.pc = "write", !.old = recycle_storage]]
  /\ UNCHANGED <<recycle_lock, slotVars, heap, held>>

Write(t) ==
  /\ At(t, "write")
  /\ LET f == frame[t]
         keeps == f.op = "release"
     IN  /\ recycle_storage' = IF keeps THEN f.p ELSE NULL
         /\ recycle_bytes' = IF keeps THEN f.bytes ELSE 0
         /\ recycle_closed' = (recycle_closed \/ f.op = "shutdown")
         /\ frame' = [frame EXCEPT ![t].pc = "unlock", ![t].p = IF keeps THEN NULL ELSE @]
  /\ UNCHANGED <<recycle_lock, heap, held>>

UnlockRecycle(t) ==
  /\ At(t, "unlock")
  /\ recycle_lock' = FALSE /\ Goto(t, "return")
  /\ UNCHANGED <<slotVars, heap, held>>

(* An acquire returns the block of the slot, or what malloc gives.         *)
AcquireReturns(t) ==
  /\ At(t, "return") /\ frame[t].op = "acquire"
  /\ \/ frame[t].p # NULL /\ held' = held \cup {frame[t].p} /\ UNCHANGED heap
     \/ /\ frame[t].p = NULL
        /\ \/ \E b \in Blocks : /\ heap[b] = 0
                                /\ heap' = [heap EXCEPT ![b] = frame[t].bytes]
                                /\ held' = held \cup {b}
           \/ UNCHANGED <<heap, held>>
  /\ frame' = [frame EXCEPT ![t] = Idle]
  /\ UNCHANGED <<recycle_lock, slotVars>>

(* A release or a drain frees what is left in its hands.                   *)
FreeAndReturn(t) ==
  /\ At(t, "return") /\ frame[t].op # "acquire"
  /\ heap' = [b \in Blocks |-> IF b \in {frame[t].p, frame[t].old} THEN 0 ELSE heap[b]]
  /\ frame' = [frame EXCEPT ![t] = Idle]
  /\ UNCHANGED <<recycle_lock, slotVars, held>>

-----------------------------------------------------------------------------

Init ==
  /\ recycle_lock = FALSE /\ recycle_storage = NULL /\ recycle_bytes = 0
  /\ recycle_closed = FALSE
  /\ heap = [b \in Blocks |-> 0] /\ held = {} /\ frame = [t \in Threads |-> Idle]

Step(t) ==
  \/ \E n \in Sizes : SessionStorageAcquire(t, n)
  \/ \E b \in Blocks : SessionStorageRelease(t, b)
  \/ \E op \in {"purge", "shutdown"} : RecycleDrain(t, op)
  \/ LockRecycle(t) \/ Read(t) \/ Write(t) \/ UnlockRecycle(t)
  \/ AcquireReturns(t) \/ FreeAndReturn(t)

Next == \E t \in Threads : Step(t)

Spec == Init /\ [][Next]_vars

-----------------------------------------------------------------------------
(* What a thread owns: before the write, a block it only read is still the *)
(* slot's.                                                                 *)
InHand(t) ==
  LET f == frame[t]
  IN  (IF f.pc = "write" THEN (IF f.op = "release" THEN {f.p} ELSE {})
                         ELSE {f.p, f.old}) \ {NULL}

(* The places a block can be in.                                           *)
Places(b) ==
  {t \in Threads : b \in InHand(t)}
    \cup (IF b \in held THEN {"session"} ELSE {})
    \cup (IF b = recycle_storage THEN {"slot"} ELSE {})

(* Every allocated block is in exactly one place, a live session, the slot *)
(* or the hands of one thread, and a freed one in none: nothing is handed  *)
(* to two sessions, freed twice or lost.  The slot knows the size of its   *)
(* block, keeps none beyond the bound, and none once it is closed.         *)
OneOwner ==
  /\ \A b \in Blocks : Cardinality(Places(b)) = IF heap[b] = 0 THEN 0 ELSE 1
  /\ recycle_storage # NULL =>
       recycle_bytes = heap[recycle_storage] /\ recycle_bytes <= Bound /\ ~recycle_closed

=============================================================================

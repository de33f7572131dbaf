-------------------------- MODULE LookaheadTimeout --------------------------
(***************************************************************************)
(* The lookahead timeout of the CaDiCaL solver handle and the timeout      *)
(* controller of the communicator that implements it.                      *)
(*                                                                         *)
(* Worker threads (one per CaDiCaLHandle, the set Handles) call            *)
(* CaDiCaLHandle::resplitCube, lookahead, fastLookahead and solve.  The    *)
(* first three arm a timeout through TimeoutController::setTimeout, run    *)
(* the lookahead (generate_cubes) and afterwards cancel the timeout.  The  *)
(* single reactor thread (boost::asio io_context) runs the timer completion *)
(* handler, which calls the expiry callback (it terminates the handle) and *)
(* then TimeoutController::cancel.  Timeout objects live in a pooled       *)
(* std::list: an erased object's memory is reused by the next             *)
(* setTimeout, so the model keeps a fixed set of memory slots (Slots) and  *)
(* a stale pointer to a slot reads whatever the slot holds now.            *)
(*                                                                         *)
(* Undefined behaviour the code can reach (erasing a list element twice,   *)
(* calling a null function pointer, dereferencing a null handle) is        *)
(* recorded in `fault`; a faulted process takes no further steps.          *)
(***************************************************************************)
EXTENDS Naturals

CONSTANTS
  Handles,     \* worker threads, each owning one CaDiCaLHandle
  Slots,       \* memory slots of the timeout pool allocator
  NULL,        \* the null pointer
  MaxPending,  \* bound on queued timer completions per slot (model bound)
  Calls        \* Calls[h]: the member functions h's owner calls on it

(* The calls of a CaDiCaLHandle that use the lookahead timeout, and the    *)
(* ones that only share its terminator: resplitOnce and solve.             *)
CallKinds == {"resplit", "lookahead", "fast", "once", "solve"}

ASSUME HandlesAssumption == Handles # {}
ASSUME SlotsAssumption == Slots # {}
ASSUME NullAssumption == NULL \notin Handles \cup Slots
ASSUME PendingAssumption == MaxPending \in Nat \ {0}
ASSUME CallsAssumption == Calls \in [Handles -> SUBSET CallKinds]

VARIABLES
  pc,        \* pc[h]: where worker h is in its current call
  op,        \* op[h]: which call that is (NULL before the first call)
  lt,        \* lt[h]: CaDiCaLHandle::m_lookaheadTimeout
  elem,      \* elem[h]: the timeout pointer the worker holds in a register
  term,      \* term[h]: the terminator's local flag (terminateLocally)
  ret,       \* ret[h]: status the current/last call returns
  slot,      \* slot[s]: the Internal::Timeout object in memory slot s
  pending,   \* pending[s]: completion handlers of slot s queued with success
  rpc,       \* where the reactor is in the completion handler
  rslot,     \* the slot the running completion handler captured (elem)
  rh,        \* the handle the running expiry callback loaded from userdata
  fault,     \* undefined behaviour reached, or "none"
  cur,       \* ghost: the slot armed by h's current resplitCube call
  extAbort   \* ghost: h was terminated from outside during its current call

vars == <<pc, op, lt, elem, term, ret, slot, pending, rpc, rslot, rh, fault,
          cur, extAbort>>

(* A finished call returns ABORTED or one of the statuses the engine       *)
(* produced (SPLITTED, SAT, UNSAT, NO_SPLITS_LEFT for the lookahead; SAT,   *)
(* UNSAT for solve).  Nothing after the engine's return depends on which,   *)
(* so they are one value, DONE.                                            *)
Statuses == {"DONE", "ABORTED"}
Faults == {"none", "double_erase", "null_call", "null_deref"}
WorkerPCs == {"idle", "r_check", "r_alloc", "r_arm", "r_assign", "f_local",
              "r_gen", "f_reset", "r_term", "r_cancel", "r_erase", "o_gen",
              "s_check", "s_run"}
(* The points of resplitCube where the worker holds a timeout pointer.     *)
HoldingPCs == {"r_arm", "r_assign", "f_local", "r_gen", "f_reset", "r_term",
               "r_cancel", "r_erase"}
Timeout == [inList: BOOLEAN, expired: BOOLEAN,
            userdata: Handles \cup {NULL}, armed: BOOLEAN]

TypeOK ==
  /\ pc \in [Handles -> WorkerPCs]
  /\ op \in [Handles -> CallKinds \cup {NULL}]
  /\ lt \in [Handles -> Slots \cup {NULL}]
  /\ elem \in [Handles -> Slots \cup {NULL}]
  /\ term \in [Handles -> BOOLEAN]
  /\ ret \in [Handles -> Statuses \cup {NULL}]
  /\ slot \in [Slots -> Timeout]
  /\ pending \in [Slots -> 0..MaxPending]
  /\ rpc \in {"idle", "check", "call", "terminate", "cancel"}
  /\ rslot \in Slots \cup {NULL}
  /\ fault \in Faults
  /\ \A h \in Handles : pc[h] \in HoldingPCs => elem[h] \in Slots
  /\ rpc # "idle" => rslot \in Slots
  /\ rh \in Handles \cup {NULL}
  /\ rpc = "terminate" => rh \in Handles
  /\ cur \in [Handles -> Slots \cup {NULL}]
  /\ extAbort \in [Handles -> BOOLEAN]

Init ==
  /\ pc = [h \in Handles |-> "idle"]
  /\ op = [h \in Handles |-> NULL]
  /\ lt = [h \in Handles |-> NULL]
  /\ elem = [h \in Handles |-> NULL]
  /\ term = [h \in Handles |-> FALSE]
  /\ ret = [h \in Handles |-> NULL]
  /\ slot = [s \in Slots |-> [inList |-> FALSE, expired |-> FALSE,
                              userdata |-> NULL, armed |-> FALSE]]
  /\ pending = [s \in Slots |-> 0]
  /\ rpc = "idle"
  /\ rslot = NULL
  /\ rh = NULL
  /\ fault = "none"
  /\ cur = [h \in Handles |-> NULL]
  /\ extAbort = [h \in Handles |-> FALSE]

(* A call of worker h returns status r.                                    *)
Return(h, r) ==
  /\ pc' = [pc EXCEPT ![h] = "idle"]
  /\ ret' = [ret EXCEPT ![h] = r]
  /\ elem' = [elem EXCEPT ![h] = NULL]
  /\ cur' = [cur EXCEPT ![h] = NULL]

ReactorIdle ==
  /\ rpc' = "idle"
  /\ rslot' = NULL
  /\ rh' = NULL

-----------------------------------------------------------------------------
(* Worker: CaDiCaLHandle::resplitCube, lookahead and fastLookahead.  All   *)
(* three arm a timeout with setTimeout, run generate_cubes and cancel the  *)
(* timeout through m_lookaheadTimeout; they differ in the terminator.      *)

(* resplitCube entry: terminateLocally(false), the cube as assumptions,    *)
(* then assert(!m_lookaheadTimeout).                                       *)
ResplitStart(h) ==
  /\ fault = "none"
  /\ pc[h] = "idle"
  /\ "resplit" \in Calls[h]
  /\ pc' = [pc EXCEPT ![h] = "r_check"]
  /\ op' = [op EXCEPT ![h] = "resplit"]
  /\ term' = [term EXCEPT ![h] = FALSE]
  /\ ret' = [ret EXCEPT ![h] = NULL]
  /\ extAbort' = [extAbort EXCEPT ![h] = FALSE]
  /\ UNCHANGED <<lt, elem, slot, pending, rpc, rslot, rh, fault, cur>>

(* lookahead(depth, min_depth) entry: clears the pregenerated cubes; the   *)
(* terminator is not reset.                                                *)
LookaheadStart(h) ==
  /\ fault = "none"
  /\ pc[h] = "idle"
  /\ "lookahead" \in Calls[h]
  /\ pc' = [pc EXCEPT ![h] = "r_alloc"]
  /\ op' = [op EXCEPT ![h] = "lookahead"]
  /\ ret' = [ret EXCEPT ![h] = NULL]
  /\ extAbort' = [extAbort EXCEPT ![h] = FALSE]
  /\ UNCHANGED <<lt, elem, term, slot, pending, rpc, rslot, rh, fault, cur>>

(* fastLookahead(depth) entry.                                             *)
FastLookaheadStart(h) ==
  /\ fault = "none"
  /\ pc[h] = "idle"
  /\ "fast" \in Calls[h]
  /\ pc' = [pc EXCEPT ![h] = "r_alloc"]
  /\ op' = [op EXCEPT ![h] = "fast"]
  /\ ret' = [ret EXCEPT ![h] = NULL]
  /\ extAbort' = [extAbort EXCEPT ![h] = FALSE]
  /\ UNCHANGED <<lt, elem, term, slot, pending, rpc, rslot, rh, fault, cur>>

(* resplitCube: stoppedGlobally() holds, return ABORTED before arming.     *)
ResplitStopped(h) ==
  /\ fault = "none"
  /\ pc[h] = "r_check"
  /\ term[h]
  /\ Return(h, "ABORTED")
  /\ UNCHANGED <<op, lt, term, slot, pending, rpc, rslot, rh, fault, extAbort>>

(* setTimeout (after resplitCube's stoppedGlobally() is false): emplace a  *)
(* Timeout into a free slot under the mutex.  The parac_timeout fields     *)
(* keep what the slot held before.                                         *)
SetTimeoutAlloc(h) ==
  /\ fault = "none"
  /\ \/ pc[h] = "r_alloc"
     \/ pc[h] = "r_check" /\ ~term[h]
  /\ \E s \in Slots :
       /\ ~slot[s].inList
       /\ slot' = [slot EXCEPT ![s].inList = TRUE, ![s].armed = FALSE]
       /\ elem' = [elem EXCEPT ![h] = s]
       /\ cur' = [cur EXCEPT ![h] = s]
  /\ pc' = [pc EXCEPT ![h] = "r_arm"]
  /\ UNCHANGED <<op, lt, term, ret, pending, rpc, rslot, rh, fault, extAbort>>

(* setTimeout: set userdata and callback, expires_from_now, async_wait.    *)
SetTimeoutArm(h) ==
  /\ fault = "none"
  /\ pc[h] = "r_arm"
  /\ slot' = [slot EXCEPT ![elem[h]].userdata = h, ![elem[h]].expired = TRUE,
                          ![elem[h]].armed = TRUE]
  /\ pc' = [pc EXCEPT ![h] = "r_assign"]
  /\ UNCHANGED <<op, lt, elem, term, ret, pending, rpc, rslot, rh, fault, cur,
                 extAbort>>

(* m_lookaheadTimeout = setTimeout(...): the returned pointer is stored.   *)
AssignTimeout(h) ==
  /\ fault = "none"
  /\ pc[h] = "r_assign"
  /\ lt' = [lt EXCEPT ![h] = elem[h]]
  /\ pc' = [pc EXCEPT ![h] = IF op[h] = "fast" THEN "f_local" ELSE "r_gen"]
  /\ UNCHANGED <<op, elem, term, ret, slot, pending, rpc, rslot, rh, fault, cur,
                 extAbort>>

(* fastLookahead: terminateLocally() before generate_cubes.               *)
FastTerminateLocally(h) ==
  /\ fault = "none"
  /\ pc[h] = "f_local"
  /\ term' = [term EXCEPT ![h] = TRUE]
  /\ pc' = [pc EXCEPT ![h] = "r_gen"]
  /\ UNCHANGED <<op, lt, elem, ret, slot, pending, rpc, rslot, rh, fault, cur,
                 extAbort>>

(* Where a call goes when generate_cubes has returned.                    *)
AfterGenerate(h) == IF op[h] = "fast" THEN "f_reset" ELSE "r_term"

(* generate_cubes runs to completion with some outcome.                    *)
GenerateCubes(h) ==
  /\ fault = "none"
  /\ pc[h] = "r_gen"
  /\ ret' = [ret EXCEPT ![h] = "DONE"]
  /\ pc' = [pc EXCEPT ![h] = AfterGenerate(h)]
  /\ UNCHANGED <<op, lt, elem, term, slot, pending, rpc, rslot, rh, fault, cur,
                 extAbort>>

(* generate_cubes notices the terminator and returns what it has.          *)
GenerateCubesInterrupted(h) ==
  /\ fault = "none"
  /\ pc[h] = "r_gen"
  /\ term[h]
  /\ ret' = [ret EXCEPT ![h] = "DONE"]
  /\ pc' = [pc EXCEPT ![h] = AfterGenerate(h)]
  /\ UNCHANGED <<op, lt, elem, term, slot, pending, rpc, rslot, rh, fault, cur,
                 extAbort>>

(* fastLookahead: terminateLocally(false) after generate_cubes.           *)
FastResetLocal(h) ==
  /\ fault = "none"
  /\ pc[h] = "f_reset"
  /\ term' = [term EXCEPT ![h] = FALSE]
  /\ pc' = [pc EXCEPT ![h] = "r_term"]
  /\ UNCHANGED <<op, lt, elem, ret, slot, pending, rpc, rslot, rh, fault, cur,
                 extAbort>>

(* Mutant: the aborted path returns without m_lookaheadTimeout = nullptr. *)
LookaheadAbortedKeepsPointer(h) ==
  /\ fault = "none"
  /\ pc[h] = "r_term"
  /\ op[h] = "resplit"
  /\ term[h]
  /\ Return(h, "ABORTED")
  /\ UNCHANGED <<op, lt, term, slot, pending, rpc, rslot, rh, fault, extAbort>>

(* resplitCube: if(m_internal->terminator), forget the timeout (without    *)
(* cancelling it) and return ABORTED.                                      *)
LookaheadAborted(h) ==
  /\ fault = "none"
  /\ pc[h] = "r_term"
  /\ op[h] = "resplit"
  /\ term[h]
  /\ lt' = [lt EXCEPT ![h] = NULL]
  /\ Return(h, "ABORTED")
  /\ UNCHANGED <<op, term, slot, pending, rpc, rslot, rh, fault, extAbort>>

(* The terminator check of resplitCube is passed (the other two calls     *)
(* have none).                                                             *)
PastTerminatorCheck(h) == op[h] = "resplit" => ~term[h]

(* if(m_lookaheadTimeout) is false: return the lookahead's status.         *)
LookaheadFinish(h) ==
  /\ fault = "none"
  /\ pc[h] = "r_term"
  /\ PastTerminatorCheck(h)
  /\ lt[h] = NULL
  /\ Return(h, ret[h])
  /\ UNCHANGED <<op, lt, term, slot, pending, rpc, rslot, rh, fault, extAbort>>

(* if(m_lookaheadTimeout) is true: the pointer is loaded.                  *)
CancelTimeoutRead(h) ==
  /\ fault = "none"
  /\ pc[h] = "r_term"
  /\ PastTerminatorCheck(h)
  /\ lt[h] # NULL
  /\ elem' = [elem EXCEPT ![h] = lt[h]]
  /\ pc' = [pc EXCEPT ![h] = "r_cancel"]
  /\ UNCHANGED <<op, lt, term, ret, slot, pending, rpc, rslot, rh, fault, cur,
                 extAbort>>

(* m_lookaheadTimeout->cancel(m_lookaheadTimeout): the member is read      *)
(* again (or the loaded value reused); the cancel lambda clears            *)
(* expired_userdata and expired of the object the pointer designates.      *)
CancelLambda(h) ==
  /\ fault = "none"
  /\ pc[h] = "r_cancel"
  /\ \E p \in {elem[h], lt[h]} \ {NULL} :
       /\ slot' = [slot EXCEPT ![p].userdata = NULL, ![p].expired = FALSE]
       /\ elem' = [elem EXCEPT ![h] = p]
  /\ pc' = [pc EXCEPT ![h] = "r_erase"]
  /\ UNCHANGED <<op, lt, term, ret, pending, rpc, rslot, rh, fault, cur,
                 extAbort>>

(* The member was cleared by the callback and is read again: the call     *)
(* goes through a null pointer.                                            *)
CancelThroughNull(h) ==
  /\ fault = "none"
  /\ pc[h] = "r_cancel"
  /\ lt[h] = NULL
  /\ fault' = "null_deref"
  /\ UNCHANGED <<op, pc, lt, elem, term, ret, slot, pending, rpc, rslot, rh,
                 cur, extAbort>>

(* TimeoutController::cancel: erase under the mutex (the destructor        *)
(* cancels the asio timer).                                                *)
EraseTimeout(s) ==
  slot' = [slot EXCEPT ![s].inList = FALSE, ![s].armed = FALSE,
                       ![s].expired = FALSE]

(* Mutant: resplitCube does not reset the pointer after cancel.          *)
TimeoutEraseKeepsPointer(h) ==
  /\ fault = "none"
  /\ pc[h] = "r_erase"
  /\ op[h] = "resplit"
  /\ slot[elem[h]].inList
  /\ EraseTimeout(elem[h])
  /\ Return(h, ret[h])
  /\ UNCHANGED <<op, lt, term, pending, rpc, rslot, rh, fault, extAbort>>

(* resplitCube: cancel, then m_lookaheadTimeout = nullptr, then return.   *)
TimeoutErase(h) ==
  /\ fault = "none"
  /\ pc[h] = "r_erase"
  /\ op[h] = "resplit"
  /\ slot[elem[h]].inList
  /\ EraseTimeout(elem[h])
  /\ lt' = [lt EXCEPT ![h] = NULL]
  /\ Return(h, ret[h])
  /\ UNCHANGED <<op, term, pending, rpc, rslot, rh, fault, extAbort>>

(* lookahead and fastLookahead: cancel and return; m_lookaheadTimeout     *)
(* keeps pointing at the erased Timeout (m_interruptedLookahead = true is  *)
(* not modelled: nothing under src/ reads it).                             *)
LookaheadCancelErase(h) ==
  /\ fault = "none"
  /\ pc[h] = "r_erase"
  /\ op[h] \in {"lookahead", "fast"}
  /\ slot[elem[h]].inList
  /\ EraseTimeout(elem[h])
  /\ Return(h, ret[h])
  /\ UNCHANGED <<op, lt, term, pending, rpc, rslot, rh, fault, extAbort>>

(* TimeoutController::cancel on an object already erased: the list        *)
(* iterator is erased a second time.                                       *)
TimeoutDoubleErase(h) ==
  /\ fault = "none"
  /\ pc[h] = "r_erase"
  /\ ~slot[elem[h]].inList
  /\ fault' = "double_erase"
  /\ UNCHANGED <<op, pc, lt, elem, term, ret, slot, pending, rpc, rslot, rh,
                 cur, extAbort>>

-----------------------------------------------------------------------------
(* Worker: CaDiCaLHandle::resplitOnce, a one-step split without a timeout. *)

(* Entry: terminateLocally(false), then the cube as assumptions.           *)
ResplitOnceStart(h) ==
  /\ fault = "none"
  /\ pc[h] = "idle"
  /\ "once" \in Calls[h]
  /\ pc' = [pc EXCEPT ![h] = "o_gen"]
  /\ op' = [op EXCEPT ![h] = "once"]
  /\ term' = [term EXCEPT ![h] = FALSE]
  /\ ret' = [ret EXCEPT ![h] = NULL]
  /\ extAbort' = [extAbort EXCEPT ![h] = FALSE]
  /\ UNCHANGED <<lt, elem, slot, pending, rpc, rslot, rh, fault, cur>>

(* generate_cubes(1, 1) returns, finished or cut short by the terminator;  *)
(* resplitOnce returns SAT, UNSAT, NO_SPLITS_LEFT or SPLITTED from what it *)
(* found, without looking at the terminator.                               *)
ResplitOnceGenerate(h) ==
  /\ fault = "none"
  /\ pc[h] = "o_gen"
  /\ Return(h, "DONE")
  /\ UNCHANGED <<op, lt, term, slot, pending, rpc, rslot, rh, fault, extAbort>>

-----------------------------------------------------------------------------
(* Worker: CaDiCaLHandle::solve.                                           *)

(* Entry: terminateLocally(false).                                         *)
SolveStart(h) ==
  /\ fault = "none"
  /\ pc[h] = "idle"
  /\ "solve" \in Calls[h]
  /\ pc' = [pc EXCEPT ![h] = "s_check"]
  /\ op' = [op EXCEPT ![h] = "solve"]
  /\ term' = [term EXCEPT ![h] = FALSE]
  /\ ret' = [ret EXCEPT ![h] = NULL]
  /\ extAbort' = [extAbort EXCEPT ![h] = FALSE]
  /\ UNCHANGED <<lt, elem, slot, pending, rpc, rslot, rh, fault, cur>>

(* if(m_internal->terminator) return PARAC_ABORTED.                        *)
SolveStopped(h) ==
  /\ fault = "none"
  /\ pc[h] = "s_check"
  /\ term[h]
  /\ Return(h, "ABORTED")
  /\ UNCHANGED <<op, lt, term, slot, pending, rpc, rslot, rh, fault, extAbort>>

SolveRun(h) ==
  /\ fault = "none"
  /\ pc[h] = "s_check"
  /\ ~term[h]
  /\ pc' = [pc EXCEPT ![h] = "s_run"]
  /\ UNCHANGED <<op, lt, elem, term, ret, slot, pending, rpc, rslot, rh, fault,
                 cur, extAbort>>

(* solver.solve() returns 10 or 20.                                        *)
SolveFinish(h) ==
  /\ fault = "none"
  /\ pc[h] = "s_run"
  /\ Return(h, "DONE")
  /\ UNCHANGED <<op, lt, term, slot, pending, rpc, rslot, rh, fault, extAbort>>

(* solver.solve() returns 0 after the terminator fired.                    *)
SolveInterrupted(h) ==
  /\ fault = "none"
  /\ pc[h] = "s_run"
  /\ term[h]
  /\ Return(h, "ABORTED")
  /\ UNCHANGED <<op, lt, term, slot, pending, rpc, rslot, rh, fault, extAbort>>

(* CaDiCaLHandle::terminate from another thread (task abort).              *)
ExternalTerminate(h) ==
  /\ fault = "none"
  /\ pc[h] # "idle"
  /\ term' = [term EXCEPT ![h] = TRUE]
  /\ extAbort' = [extAbort EXCEPT ![h] = TRUE]
  /\ UNCHANGED <<op, pc, lt, elem, ret, slot, pending, rpc, rslot, rh, fault,
                 cur>>

-----------------------------------------------------------------------------
(* Reactor: the asio timer and the completion handler of setTimeout.       *)

(* The timer of slot s expires: its handler is queued with success.  A     *)
(* queued completion is no longer affected by timer.cancel().              *)
TimerExpire(s) ==
  /\ fault = "none"
  /\ slot[s].armed
  /\ pending[s] < MaxPending
  /\ slot' = [slot EXCEPT ![s].armed = FALSE]
  /\ pending' = [pending EXCEPT ![s] = @ + 1]
  /\ UNCHANGED <<op, pc, lt, elem, term, ret, rpc, rslot, rh, fault, cur, extAbort>>

(* Mutant: a handler is dispatched with no completion queued.             *)
HandlerStartUnqueued(s) ==
  /\ fault = "none"
  /\ rpc = "idle"
  /\ pending' = [pending EXCEPT ![s] = @ - 1]
  /\ rpc' = "check"
  /\ rslot' = s
  /\ UNCHANGED <<op, pc, lt, elem, term, ret, slot, rh, fault, cur, extAbort>>

HandlerStart(s) ==
  /\ fault = "none"
  /\ rpc = "idle"
  /\ pending[s] > 0
  /\ pending' = [pending EXCEPT ![s] = @ - 1]
  /\ rpc' = "check"
  /\ rslot' = s
  /\ UNCHANGED <<op, pc, lt, elem, term, ret, slot, rh, fault, cur, extAbort>>

(* if(elem->timeout.expired) is false.                                     *)
HandlerSkip ==
  /\ fault = "none"
  /\ rpc = "check"
  /\ ~slot[rslot].expired
  /\ ReactorIdle
  /\ UNCHANGED <<op, pc, lt, elem, term, ret, slot, pending, fault, cur,
                 extAbort>>

HandlerCheck ==
  /\ fault = "none"
  /\ rpc = "check"
  /\ slot[rslot].expired
  /\ rpc' = "call"
  /\ UNCHANGED <<op, pc, lt, elem, term, ret, slot, pending, rslot, rh, fault, cur,
                 extAbort>>

(* elem->timeout.expired(&elem->timeout): the callback loads the handle   *)
(* from expired_userdata and clears its m_lookaheadTimeout.  When expired  *)
(* was cleared since the check, the call may still use the loaded pointer. *)
HandlerCallback ==
  /\ fault = "none"
  /\ rpc = "call"
  /\ slot[rslot].userdata # NULL
  /\ rh' = slot[rslot].userdata
  /\ lt' = [lt EXCEPT ![slot[rslot].userdata] = NULL]
  /\ rpc' = "terminate"
  /\ UNCHANGED <<op, pc, elem, term, ret, slot, pending, rslot, fault, cur,
                 extAbort>>

(* The callback's handle->terminate(): terminateLocally() on the handle.   *)
HandlerTerminate ==
  /\ fault = "none"
  /\ rpc = "terminate"
  /\ term' = [term EXCEPT ![rh] = TRUE]
  /\ rpc' = "cancel"
  /\ UNCHANGED <<op, pc, lt, elem, ret, slot, pending, rslot, rh, fault, cur,
                 extAbort>>

(* expired was cleared since the check and is loaded again: null call.     *)
HandlerCallNull ==
  /\ fault = "none"
  /\ rpc = "call"
  /\ ~slot[rslot].expired
  /\ fault' = "null_call"
  /\ UNCHANGED <<op, pc, lt, elem, term, ret, slot, pending, rpc, rslot, rh, cur,
                 extAbort>>

(* The callback runs with expired_userdata already cleared.                *)
HandlerNullUserdata ==
  /\ fault = "none"
  /\ rpc = "call"
  /\ slot[rslot].userdata = NULL
  /\ fault' = "null_deref"
  /\ UNCHANGED <<op, pc, lt, elem, term, ret, slot, pending, rpc, rslot, rh, cur,
                 extAbort>>

(* Mutant: the completion handler calls the callback but not cancel.      *)
HandlerEraseOmitted ==
  /\ fault = "none"
  /\ rpc = "cancel"
  /\ ReactorIdle
  /\ UNCHANGED <<op, pc, lt, elem, term, ret, slot, pending, fault, cur,
                 extAbort>>

(* cancel(&elem->timeout) after the callback: erase under the mutex.       *)
HandlerErase ==
  /\ fault = "none"
  /\ rpc = "cancel"
  /\ slot[rslot].inList
  /\ EraseTimeout(rslot)
  /\ ReactorIdle
  /\ UNCHANGED <<op, pc, lt, elem, term, ret, pending, fault, cur, extAbort>>

HandlerDoubleErase ==
  /\ fault = "none"
  /\ rpc = "cancel"
  /\ ~slot[rslot].inList
  /\ fault' = "double_erase"
  /\ UNCHANGED <<op, pc, lt, elem, term, ret, slot, pending, rpc, rslot, rh, cur,
                 extAbort>>

-----------------------------------------------------------------------------
Worker(h) ==
  \/ ResplitStart(h) \/ LookaheadStart(h) \/ FastLookaheadStart(h)
  \/ ResplitStopped(h) \/ SetTimeoutAlloc(h) \/ SetTimeoutArm(h)
  \/ AssignTimeout(h) \/ FastTerminateLocally(h) \/ GenerateCubes(h)
  \/ GenerateCubesInterrupted(h) \/ FastResetLocal(h) \/ LookaheadAborted(h)
  \/ LookaheadFinish(h) \/ CancelTimeoutRead(h) \/ CancelLambda(h)
  \/ CancelThroughNull(h) \/ TimeoutErase(h) \/ LookaheadCancelErase(h)
  \/ TimeoutDoubleErase(h) \/ ResplitOnceStart(h) \/ ResplitOnceGenerate(h)
  \/ SolveStart(h) \/ SolveStopped(h) \/ SolveRun(h) \/ SolveFinish(h) \/ SolveInterrupted(h) \/ ExternalTerminate(h)

Reactor ==
  \/ \E s \in Slots : TimerExpire(s) \/ HandlerStart(s)
  \/ HandlerSkip \/ HandlerCheck \/ HandlerCallback \/ HandlerTerminate
  \/ HandlerCallNull \/ HandlerNullUserdata \/ HandlerErase \/ HandlerDoubleErase

Next == (\E h \in Handles : Worker(h)) \/ Reactor

(* The worker's own steps are fair, except the engine finishing on its own *)
(* (the lookahead may run forever) and the caller starting a call or       *)
(* aborting a task.  The reactor and the passing of time are fair; asio   *)
(* runs ready handlers in order, so a queued completion is not starved     *)
(* (strong fairness: the reactor is intermittently busy with others).      *)
Fairness ==
  /\ \A h \in Handles :
       /\ WF_vars(ResplitStopped(h) \/ SetTimeoutAlloc(h) \/ SetTimeoutArm(h)
                  \/ AssignTimeout(h) \/ FastTerminateLocally(h)
                  \/ GenerateCubesInterrupted(h) \/ FastResetLocal(h)
                  \/ LookaheadAborted(h) \/ LookaheadFinish(h)
                  \/ CancelTimeoutRead(h) \/ CancelLambda(h)
                  \/ CancelThroughNull(h) \/ TimeoutErase(h)
                  \/ LookaheadCancelErase(h) \/ TimeoutDoubleErase(h) \/ SolveStopped(h) \/ SolveRun(h)
                  \/ SolveInterrupted(h))
       /\ WF_vars(term[h] /\ ResplitOnceGenerate(h))
  /\ \A s \in Slots : WF_vars(TimerExpire(s)) /\ SF_vars(HandlerStart(s))
  /\ WF_vars(HandlerSkip \/ HandlerCheck \/ HandlerCallback \/ HandlerTerminate
             \/ HandlerCallNull \/ HandlerNullUserdata \/ HandlerErase
             \/ HandlerDoubleErase)

Spec == Init /\ [][Next]_vars /\ Fairness

-----------------------------------------------------------------------------
(* Properties.                                                             *)

(* The assert(!m_lookaheadTimeout) of resplitCube (cadical_handle.cpp:450) *)
(* holds at every entry of resplitCube: no earlier call, whichever way it  *)
(* returned (aborted, timed out before the pointer was stored,             *)
(* cancelled), left m_lookaheadTimeout set.                                *)
ResplitAssert ==
  \A h \in Handles : pc[h] = "r_check" => lt[h] = NULL

(* The positions of a handle outside the window in which a call has        *)
(* stored the pointer returned by setTimeout.                              *)
PointerFreePCs ==
  {"idle", "r_check", "r_alloc", "r_arm", "r_assign", "o_gen", "s_check",
   "s_run"}

(* Inductive form of ResplitAssert.  A running call is one the handle's    *)
(* owner makes, resplitCube is the call at r_check, and on a handle that   *)
(* never runs lookahead or fastLookahead m_lookaheadTimeout is null at     *)
(* every position outside that window: every return path of resplitCube   *)
(* resets it and the expiry callback only ever clears it.                  *)
ResplitInv ==
  \A h \in Handles :
    /\ pc[h] # "idle" => op[h] \in Calls[h]
    /\ pc[h] = "r_check" => op[h] = "resplit"
    /\ Calls[h] \cap {"lookahead", "fast"} = {} =>
         (pc[h] \in PointerFreePCs => lt[h] = NULL)

(* No handle's owner calls both resplitCube and one of the lookahead      *)
(* functions that leave m_lookaheadTimeout set.                            *)
ResplitOnlyCallers ==
  \A h \in Handles :
    "resplit" \in Calls[h] => Calls[h] \cap {"lookahead", "fast"} = {}

(* No undefined behaviour: the expiry handler on the reactor and the       *)
(* cancel at the end of resplitCube never both erase one timeout, call a   *)
(* cleared callback, or use a cleared handle pointer.                      *)
NoCrash == fault = "none"

(* A timeout callback only terminates the call that armed that timeout:   *)
(* it never hits a later solve or lookahead of the same handle, nor        *)
(* another handle's call.                                                  *)
StaleTimeoutHarmless ==
  rpc = "call" /\ slot[rslot].userdata # NULL
    => LET u == slot[rslot].userdata
       IN  pc[u] # "idle" => cur[u] = rslot

(* Spec 4.2: the lookahead honours the caller's timeout by returning       *)
(* NoSplitsLeft; ABORTED is only returned when the task was terminated.    *)
AbortedOnlyWhenStopped ==
  \A h \in Handles : pc[h] = "idle" /\ ret[h] = "ABORTED" => extAbort[h]

(* Every lookahead that has started returns (the armed timeout terminates  *)
(* it if the engine does not finish), unless the process crashed.          *)
LookaheadReturns ==
  \A h \in Handles : (pc[h] = "r_gen") ~> (pc[h] = "idle" \/ fault # "none")

(* Every Timeout placed in the controller's list is erased again: none is *)
(* leaked, including those left armed by an aborted resplitCube.           *)
TimeoutsReclaimed ==
  \A s \in Slots : slot[s].inList ~> (~slot[s].inList \/ fault # "none")

=============================================================================

----------------------- MODULE LookaheadTimeout_proofs -----------------------
(***************************************************************************)
(* Proofs about the lookahead timeout protocol, for every set of handles   *)
(* and slots, every assignment of calls to handles and every bound on      *)
(* queued completions.                                                     *)
(***************************************************************************)
EXTENDS LookaheadTimeout, TLAPS

(* Arming a timeout (setTimeout) keeps the slot table well typed.          *)
LEMMA ArmKeepsTimeout ==
  ASSUME NEW f \in [Slots -> Timeout], NEW x \in Slots, NEW u \in Handles
  PROVE  [f EXCEPT ![x].userdata = u, ![x].expired = TRUE, ![x].armed = TRUE]
           \in [Slots -> Timeout]
  BY DEF Timeout

(* Erasing a timeout (TimeoutController::cancel) keeps the slot table well *)
(* typed.                                                                  *)
LEMMA EraseKeepsTimeout ==
  ASSUME NEW f \in [Slots -> Timeout], NEW x \in Slots
  PROVE  [f EXCEPT ![x].inList = FALSE, ![x].armed = FALSE,
                   ![x].expired = FALSE] \in [Slots -> Timeout]
  BY DEF Timeout

(* Taking a free slot from the pool (setTimeout's allocation) keeps the   *)
(* slot table well typed.                                                  *)
LEMMA AllocKeepsTimeout ==
  ASSUME NEW f \in [Slots -> Timeout], NEW x \in Slots
  PROVE  [f EXCEPT ![x].inList = TRUE, ![x].armed = FALSE] \in [Slots -> Timeout]
  BY DEF Timeout

(* The cancel lambda clearing expired_userdata and expired keeps the slot  *)
(* table well typed.                                                       *)
LEMMA ClearKeepsTimeout ==
  ASSUME NEW f \in [Slots -> Timeout], NEW x \in Slots
  PROVE  [f EXCEPT ![x].userdata = NULL, ![x].expired = FALSE] \in [Slots -> Timeout]
  BY DEF Timeout

(* A timer expiring (the asio timer firing) keeps the slot table well     *)
(* typed.                                                                  *)
LEMMA ExpireKeepsTimeout ==
  ASSUME NEW f \in [Slots -> Timeout], NEW x \in Slots
  PROVE  [f EXCEPT ![x].armed = FALSE] \in [Slots -> Timeout]
  BY DEF Timeout

(* Type correctness: every variable keeps its type in every reachable      *)
(* state, whatever the interleaving of workers and reactor.  In           *)
(* particular a worker between setTimeout and the erase holds a slot, and  *)
(* a running completion handler (and its callback) designates a slot (and  *)
(* a handle).                                                              *)
THEOREM TypeCorrect == Spec => []TypeOK
<1> USE DEF WorkerPCs, HoldingPCs, Statuses, Faults, Timeout, CallKinds
<1>1. Init => TypeOK
  BY PendingAssumption DEF Init, TypeOK
<1>2. TypeOK /\ [Next]_vars => TypeOK'
  <2> SUFFICES ASSUME TypeOK, [Next]_vars PROVE TypeOK'
    OBVIOUS
  <2>1. ASSUME NEW h \in Handles, Worker(h) PROVE TypeOK'
    <3>1. CASE ResplitStart(h)
      BY <3>1 DEF ResplitStart, TypeOK
    <3>2. CASE LookaheadStart(h)
      BY <3>2 DEF LookaheadStart, TypeOK
    <3>3. CASE FastLookaheadStart(h)
      BY <3>3 DEF FastLookaheadStart, TypeOK
    <3>4. CASE ResplitStopped(h)
      BY <3>4 DEF ResplitStopped, Return, TypeOK
    <3>5. CASE SetTimeoutAlloc(h)
      <4>1. PICK s \in Slots :
                 /\ ~slot[s].inList
                 /\ slot' = [slot EXCEPT ![s].inList = TRUE, ![s].armed = FALSE]
                 /\ elem' = [elem EXCEPT ![h] = s]
                 /\ cur' = [cur EXCEPT ![h] = s]
        BY <3>5 DEF SetTimeoutAlloc
      <4>2. slot' \in [Slots -> Timeout]
        <5>1. slot \in [Slots -> Timeout]
          BY DEF TypeOK
        <5>2. QED
          BY <4>1, <5>1, AllocKeepsTimeout
      <4>3. QED
        BY <3>5, <4>1, <4>2 DEF SetTimeoutAlloc, TypeOK
    <3>6. CASE SetTimeoutArm(h)
      <4>0. elem[h] \in Slots
        BY <3>6 DEF SetTimeoutArm, TypeOK
      <4>1. slot' \in [Slots -> Timeout]
        BY <3>6, <4>0, ArmKeepsTimeout DEF SetTimeoutArm, TypeOK
      <4>2. QED
        BY <3>6, <4>1 DEF SetTimeoutArm, TypeOK
    <3>7. CASE AssignTimeout(h)
      BY <3>7 DEF AssignTimeout, TypeOK
    <3>8. CASE FastTerminateLocally(h)
      BY <3>8 DEF FastTerminateLocally, TypeOK
    <3>9. CASE GenerateCubes(h)
      BY <3>9 DEF GenerateCubes, AfterGenerate, TypeOK
    <3>10. CASE GenerateCubesInterrupted(h)
      BY <3>10 DEF GenerateCubesInterrupted, AfterGenerate, TypeOK
    <3>11. CASE FastResetLocal(h)
      BY <3>11 DEF FastResetLocal, TypeOK
    <3>12. CASE LookaheadAborted(h)
      BY <3>12 DEF LookaheadAborted, Return, TypeOK
    <3>13. CASE LookaheadFinish(h)
      BY <3>13 DEF LookaheadFinish, Return, PastTerminatorCheck, TypeOK
    <3>14. CASE CancelTimeoutRead(h)
      BY <3>14 DEF CancelTimeoutRead, PastTerminatorCheck, TypeOK
    <3>15. CASE CancelLambda(h)
      <4>1. PICK p \in {elem[h], lt[h]} \ {NULL} :
                 /\ slot' = [slot EXCEPT ![p].userdata = NULL,
                                         ![p].expired = FALSE]
                 /\ elem' = [elem EXCEPT ![h] = p]
        BY <3>15 DEF CancelLambda
      <4>2. slot' \in [Slots -> Timeout]
        <5>1. slot \in [Slots -> Timeout]
          BY DEF TypeOK
        <5>2. p \in Slots
          BY DEF TypeOK
        <5>3. QED
          BY <4>1, <5>1, <5>2, ClearKeepsTimeout
      <4>3. QED
        BY <3>15, <4>1, <4>2 DEF CancelLambda, TypeOK
    <3>16. CASE CancelThroughNull(h)
      BY <3>16 DEF CancelThroughNull, TypeOK
    <3>17. CASE TimeoutErase(h)
      <4>0. elem[h] \in Slots
        BY <3>17 DEF TimeoutErase, TypeOK
      <4>1. slot' \in [Slots -> Timeout]
        BY <3>17, <4>0, EraseKeepsTimeout DEF TimeoutErase, EraseTimeout, TypeOK
      <4>2. QED
        BY <3>17, <4>1 DEF TimeoutErase, Return, TypeOK
    <3>18. CASE LookaheadCancelErase(h)
      <4>0. elem[h] \in Slots
        BY <3>18 DEF LookaheadCancelErase, TypeOK
      <4>1. slot' \in [Slots -> Timeout]
        BY <3>18, <4>0, EraseKeepsTimeout DEF LookaheadCancelErase, EraseTimeout, TypeOK
      <4>2. QED
        BY <3>18, <4>1 DEF LookaheadCancelErase, Return, TypeOK
    <3>19. CASE TimeoutDoubleErase(h)
      BY <3>19 DEF TimeoutDoubleErase, TypeOK
    <3>20. CASE SolveStart(h)
      BY <3>20 DEF SolveStart, TypeOK
    <3>21. CASE SolveStopped(h)
      BY <3>21 DEF SolveStopped, Return, TypeOK
    <3>22. CASE SolveRun(h)
      BY <3>22 DEF SolveRun, TypeOK
    <3>23. CASE SolveFinish(h)
      BY <3>23 DEF SolveFinish, Return, TypeOK
    <3>24. CASE SolveInterrupted(h)
      BY <3>24 DEF SolveInterrupted, Return, TypeOK
    <3>25. CASE ExternalTerminate(h)
      BY <3>25 DEF ExternalTerminate, TypeOK
    <3>26. CASE ResplitOnceStart(h)
      BY <3>26 DEF ResplitOnceStart, TypeOK
    <3>27. CASE ResplitOnceGenerate(h)
      BY <3>27 DEF ResplitOnceGenerate, Return, TypeOK
    <3>28. QED
      BY <2>1, <3>1, <3>2, <3>3, <3>4, <3>5, <3>6, <3>7, <3>8, <3>9, <3>10,
         <3>11, <3>12, <3>13, <3>14, <3>15, <3>16, <3>17, <3>18, <3>19,
         <3>20, <3>21, <3>22, <3>23, <3>24, <3>25, <3>26, <3>27
         DEF Worker
  <2>2. ASSUME NEW s \in Slots, TimerExpire(s) PROVE TypeOK'
    <3>1. slot' \in [Slots -> Timeout]
      <4>1. slot \in [Slots -> Timeout]
        BY DEF TypeOK
      <4>2. QED
        BY <2>2, <4>1, ExpireKeepsTimeout DEF TimerExpire
    <3>2. QED
      BY <2>2, <3>1, PendingAssumption DEF TimerExpire, TypeOK
  <2>3. ASSUME NEW s \in Slots, HandlerStart(s) PROVE TypeOK'
    BY <2>3, PendingAssumption DEF HandlerStart, TypeOK
  <2>4. CASE HandlerSkip
    BY <2>4 DEF HandlerSkip, ReactorIdle, TypeOK
  <2>5. CASE HandlerCheck
    BY <2>5 DEF HandlerCheck, TypeOK
  <2>6. CASE HandlerCallback \/ HandlerTerminate
    <3>1. CASE HandlerCallback
      BY <3>1 DEF HandlerCallback, TypeOK
    <3>2. CASE HandlerTerminate
      BY <3>2 DEF HandlerTerminate, TypeOK
    <3>3. QED
      BY <2>6, <3>1, <3>2
  <2>7. CASE HandlerCallNull \/ HandlerNullUserdata \/ HandlerDoubleErase
    BY <2>7 DEF HandlerCallNull, HandlerNullUserdata, HandlerDoubleErase,
                TypeOK
  <2>8. CASE HandlerErase
    <3>0. rslot \in Slots
      BY <2>8 DEF HandlerErase, TypeOK
    <3>1. slot' \in [Slots -> Timeout]
      BY <2>8, <3>0, EraseKeepsTimeout DEF HandlerErase, EraseTimeout, TypeOK
    <3>2. QED
      BY <2>8, <3>1 DEF HandlerErase, ReactorIdle, TypeOK
  <2>9. CASE UNCHANGED vars
    BY <2>9 DEF vars, TypeOK
  <2>10. QED
    BY <2>1, <2>2, <2>3, <2>4, <2>5, <2>6, <2>7, <2>8, <2>9 DEF Next, Reactor
<1>3. QED
  BY <1>1, <1>2, PTL DEF Spec

(* For every set of handles, slots and calls: a running call is one the  *)
(* handle's owner makes, resplitCube is the call at r_check, and on a     *)
(* handle whose owner never calls lookahead or fastLookahead the pointer  *)
(* m_lookaheadTimeout is null outside the window from its assignment to   *)
(* its erase (cadical_handle.cpp:442-518): every return path of           *)
(* resplitCube resets it, and the expiry callback on the reactor only     *)
(* ever clears it, whichever worker step it interleaves with.             *)
THEOREM ResplitInvariant == Spec => []ResplitInv
<1> USE DEF WorkerPCs, HoldingPCs, CallKinds
<1>1. Init => ResplitInv
  BY DEF Init, ResplitInv
<1>2. TypeOK /\ ResplitInv /\ [Next]_vars => ResplitInv'
  <2> SUFFICES ASSUME TypeOK, ResplitInv, [Next]_vars PROVE ResplitInv'
    OBVIOUS
  <2>1. ASSUME NEW h \in Handles, Worker(h) PROVE ResplitInv'
    <3>1. CASE ResplitStart(h)
      BY <3>1 DEF ResplitStart, ResplitInv, PointerFreePCs, TypeOK
    <3>2. CASE LookaheadStart(h)
      BY <3>2 DEF LookaheadStart, ResplitInv, PointerFreePCs, TypeOK
    <3>3. CASE FastLookaheadStart(h)
      BY <3>3 DEF FastLookaheadStart, ResplitInv, PointerFreePCs, TypeOK
    <3>4. CASE ResplitStopped(h)
      BY <3>4 DEF ResplitStopped, Return, ResplitInv, PointerFreePCs, TypeOK
    <3>5. CASE SetTimeoutAlloc(h)
      <4>1. PICK s \in Slots : elem' = [elem EXCEPT ![h] = s]
        BY <3>5 DEF SetTimeoutAlloc
      <4>2. QED
        BY <3>5, <4>1 DEF SetTimeoutAlloc, ResplitInv, PointerFreePCs, TypeOK
    <3>6. CASE SetTimeoutArm(h)
      BY <3>6 DEF SetTimeoutArm, ResplitInv, PointerFreePCs, TypeOK
    <3>7. CASE AssignTimeout(h)
      BY <3>7 DEF AssignTimeout, ResplitInv, PointerFreePCs, TypeOK
    <3>8. CASE FastTerminateLocally(h)
      BY <3>8 DEF FastTerminateLocally, ResplitInv, PointerFreePCs, TypeOK
    <3>9. CASE GenerateCubes(h)
      BY <3>9 DEF GenerateCubes, AfterGenerate, ResplitInv, PointerFreePCs, TypeOK
    <3>10. CASE GenerateCubesInterrupted(h)
      BY <3>10 DEF GenerateCubesInterrupted, AfterGenerate, ResplitInv, PointerFreePCs, TypeOK
    <3>11. CASE FastResetLocal(h)
      BY <3>11 DEF FastResetLocal, ResplitInv, PointerFreePCs, TypeOK
    <3>12. CASE LookaheadAborted(h)
      BY <3>12 DEF LookaheadAborted, Return, ResplitInv, PointerFreePCs, TypeOK
    <3>13. CASE LookaheadFinish(h)
      BY <3>13 DEF LookaheadFinish, Return, PastTerminatorCheck, ResplitInv, PointerFreePCs, TypeOK
    <3>14. CASE CancelTimeoutRead(h)
      BY <3>14 DEF CancelTimeoutRead, PastTerminatorCheck, ResplitInv, PointerFreePCs, TypeOK
    <3>15. CASE CancelLambda(h)
      BY <3>15 DEF CancelLambda, ResplitInv, PointerFreePCs, TypeOK
    <3>16. CASE CancelThroughNull(h)
      BY <3>16 DEF CancelThroughNull, ResplitInv, PointerFreePCs, TypeOK
    <3>17. CASE TimeoutErase(h)
      BY <3>17 DEF TimeoutErase, Return, ResplitInv, PointerFreePCs, TypeOK
    <3>18. CASE LookaheadCancelErase(h)
      BY <3>18 DEF LookaheadCancelErase, Return, ResplitInv, PointerFreePCs, TypeOK
    <3>19. CASE TimeoutDoubleErase(h)
      BY <3>19 DEF TimeoutDoubleErase, ResplitInv, PointerFreePCs, TypeOK
    <3>20. CASE SolveStart(h)
      BY <3>20 DEF SolveStart, ResplitInv, PointerFreePCs, TypeOK
    <3>21. CASE SolveStopped(h)
      BY <3>21 DEF SolveStopped, Return, ResplitInv, PointerFreePCs, TypeOK
    <3>22. CASE SolveRun(h)
      BY <3>22 DEF SolveRun, ResplitInv, PointerFreePCs, TypeOK
    <3>23. CASE SolveFinish(h)
      BY <3>23 DEF SolveFinish, Return, ResplitInv, PointerFreePCs, TypeOK
    <3>24. CASE SolveInterrupted(h)
      BY <3>24 DEF SolveInterrupted, Return, ResplitInv, PointerFreePCs, TypeOK
    <3>25. CASE ExternalTerminate(h)
      BY <3>25 DEF ExternalTerminate, ResplitInv, PointerFreePCs, TypeOK
    <3>26. CASE ResplitOnceStart(h)
      BY <3>26 DEF ResplitOnceStart, ResplitInv, PointerFreePCs, TypeOK
    <3>27. CASE ResplitOnceGenerate(h)
      BY <3>27 DEF ResplitOnceGenerate, Return, ResplitInv, PointerFreePCs, TypeOK
    <3>28. QED
      BY <2>1, <3>1, <3>2, <3>3, <3>4, <3>5, <3>6, <3>7, <3>8, <3>9, <3>10,
         <3>11, <3>12, <3>13, <3>14, <3>15, <3>16, <3>17, <3>18, <3>19,
         <3>20, <3>21, <3>22, <3>23, <3>24, <3>25, <3>26, <3>27
         DEF Worker
  <2>2. CASE Reactor
    <3>1. ASSUME NEW s \in Slots, TimerExpire(s) \/ HandlerStart(s)
          PROVE ResplitInv'
      BY <3>1 DEF TimerExpire, HandlerStart, ResplitInv
    <3>2. CASE HandlerCallback
      BY <3>2 DEF HandlerCallback, ResplitInv, PointerFreePCs, TypeOK
    <3>3. CASE HandlerTerminate \/ HandlerSkip \/ HandlerCheck
               \/ HandlerCallNull \/ HandlerNullUserdata \/ HandlerErase
               \/ HandlerDoubleErase
      BY <3>3 DEF HandlerTerminate, HandlerSkip, HandlerCheck, HandlerCallNull,
                  HandlerNullUserdata, HandlerErase, HandlerDoubleErase,
                  ReactorIdle, ResplitInv
    <3>4. QED
      BY <2>2, <3>1, <3>2, <3>3 DEF Reactor
  <2>3. CASE UNCHANGED vars
    BY <2>3 DEF vars, ResplitInv
  <2>4. QED
    BY <2>1, <2>2, <2>3 DEF Next
<1>3. QED
  BY <1>1, <1>2, TypeCorrect, PTL DEF Spec

(* The assert(!m_lookaheadTimeout) at the entry of resplitCube            *)
(* (cadical_handle.cpp:450) never fails, for any number of handles and    *)
(* slots, provided no handle's owner also calls lookahead or             *)
(* fastLookahead on it (those cancel without resetting the pointer): every *)
(* way resplitCube returns clears the pointer, and a timeout callback     *)
(* only ever clears it.  Proved through the inductive ResplitInv.         *)
THEOREM ResplitAssertHolds ==
  ASSUME ResplitOnlyCallers
  PROVE  Spec => []ResplitAssert
<1>1. ResplitInv => ResplitAssert
  BY DEF ResplitInv, ResplitAssert, ResplitOnlyCallers, PointerFreePCs
<1>2. QED
  BY <1>1, ResplitInvariant, PTL
=============================================================================

------------------------ MODULE ThreadRegistry_proofs ------------------------
(***************************************************************************)
(* Proofs about the thread registry, for every number of create calls.     *)
(***************************************************************************)
EXTENDS ThreadRegistry, TLAPS

(* Type correctness: the stop and join loops only ever mark entries of the *)
(* list, and every field keeps its type.                                   *)
THEOREM TypeCorrect == Spec => []TypeOK
<1> USE DEF ThreadStates, InList, Entries
<1>1. Init => TypeOK
  BY MaxThreadsAssumption DEF Init, TypeOK
<1>2. TypeOK /\ [Next]_vars => TypeOK'
  <2> SUFFICES ASSUME TypeOK, [Next]_vars PROVE TypeOK'
    OBVIOUS
  <2>1. CASE Create
    BY <2>1, MaxThreadsAssumption DEF Create, TypeOK
  <2>2. CASE BeginShutdown \/ StopDone \/ JoinDone
    BY <2>2 DEF BeginShutdown, StopDone, JoinDone, TypeOK
  <2>3. CASE StopOne
    BY <2>3 DEF StopOne, TypeOK
  <2>4. CASE JoinOne \/ JoinUninitialised
    BY <2>4 DEF JoinOne, JoinUninitialised, TypeOK
  <2>5. ASSUME NEW i \in Entries, RunStart(i) \/ RunEnd(i) PROVE TypeOK'
    BY <2>5 DEF RunStart, RunEnd, TypeOK
  <2>6. CASE UNCHANGED vars
    BY <2>6 DEF vars, TypeOK
  <2>7. QED
    BY <2>1, <2>2, <2>3, <2>4, <2>5, <2>6 DEF Next
<1>3. QED
  BY <1>1, <1>2, PTL DEF Spec

(* Inductive strengthening of AllExitedWhenDone: entries past the end of   *)
(* the list are untouched, an exited thread has cleared `running`, every   *)
(* joined thread has exited, and the join loop has joined the whole list   *)
(* once wait_for_exit has returned.                                        *)
DoneInv ==
  /\ \A i \in Entries \ InList : thread[i] = "none"
  /\ \A i \in Entries : thread[i] = "exited" => ~running[i]
  /\ \A i \in joined : thread[i] = "exited"
  /\ mpc = "done" => joined = InList

(* When parac_thread_registry_wait_for_exit returns, every thread of the  *)
(* registry has exited its start function and cleared `running`.           *)
THEOREM ExitedWhenDone == Spec => []AllExitedWhenDone
<1> USE DEF InList, Entries
<1>1. Init => DoneInv
  BY DEF Init, DoneInv
<1>2. TypeOK /\ DoneInv /\ [Next]_vars => DoneInv'
  <2> SUFFICES ASSUME TypeOK, DoneInv, [Next]_vars PROVE DoneInv'
    OBVIOUS
  <2>1. CASE Create
    BY <2>1, MaxThreadsAssumption DEF Create, DoneInv, TypeOK
  <2>2. CASE BeginShutdown \/ StopOne \/ StopDone
    BY <2>2 DEF BeginShutdown, StopOne, StopDone, DoneInv
  <2>3. CASE JoinOne
    BY <2>3 DEF JoinOne, DoneInv
  <2>4. CASE JoinUninitialised \/ JoinDone
    BY <2>4 DEF JoinUninitialised, JoinDone, DoneInv
  <2>5. ASSUME NEW i \in Entries, RunStart(i) PROVE DoneInv'
    BY <2>5 DEF RunStart, DoneInv, TypeOK
  <2>6. ASSUME NEW i \in Entries, RunEnd(i) PROVE DoneInv'
    BY <2>6 DEF RunEnd, DoneInv, TypeOK
  <2>7. CASE UNCHANGED vars
    BY <2>7 DEF vars, DoneInv
  <2>8. QED
    BY <2>1, <2>2, <2>3, <2>4, <2>5, <2>6, <2>7 DEF Next
<1>3. TypeOK /\ DoneInv => AllExitedWhenDone
  <2> SUFFICES ASSUME TypeOK, DoneInv, mpc = "done", NEW i \in InList
               PROVE  thread[i] = "exited" /\ ~running[i]
    BY DEF AllExitedWhenDone
  <2>1. i \in joined /\ i \in Entries
    BY MaxThreadsAssumption DEF DoneInv, TypeOK
  <2>2. QED
    BY <2>1 DEF DoneInv
<1>4. QED
  BY <1>1, <1>2, <1>3, TypeCorrect, PTL DEF Spec
=============================================================================

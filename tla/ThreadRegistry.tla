--------------------------- MODULE ThreadRegistry ---------------------------
(***************************************************************************)
(* The process-wide thread registry (modules/commonc/thread_registry.c).  *)
(*                                                                         *)
(* The main thread creates module threads with                             *)
(* parac_thread_registry_create, and at shutdown calls                     *)
(* parac_thread_registry_stop and parac_thread_registry_wait_for_exit.     *)
(* Each created thread runs run_wrapper: it sets `running`, runs the       *)
(* module's start function (which loops until it sees its `stop` flag, or  *)
(* returns by itself), and clears `running`.                               *)
(*                                                                         *)
(* A list entry is allocated before thrd_create and stays in the list     *)
(* when thrd_create fails; wait_for_exit joins every entry of the list.    *)
(***************************************************************************)
EXTENDS Naturals

CONSTANTS
  MaxThreads   \* number of parac_thread_registry_create calls (model bound)

ASSUME MaxThreadsAssumption == MaxThreads \in Nat

Entries == 1..MaxThreads

VARIABLES
  mpc,       \* the main thread: "create", "stopping", "joining", "done"
  size,      \* registry->threads->size: entries allocated so far
  thread,    \* thread[i]: "none", "failed" (thrd_create failed), "started",
             \* "body" (start_func running), "exited"
  stop,      \* stop[i]: registry_handle.stop
  running,   \* running[i]: registry_handle.running
  stopped,   \* entries whose stop flag the stop loop has already set
  joined,    \* entries wait_for_exit has joined
  fault      \* undefined behaviour reached, or "none"

vars == <<mpc, size, thread, stop, running, stopped, joined, fault>>

ThreadStates == {"none", "failed", "started", "body", "exited"}

(* The entries in the list.                                                *)
InList == 1..size

TypeOK ==
  /\ mpc \in {"create", "stopping", "joining", "done"}
  /\ size \in 0..MaxThreads
  /\ thread \in [Entries -> ThreadStates]
  /\ stop \in [Entries -> BOOLEAN]
  /\ running \in [Entries -> BOOLEAN]
  /\ stopped \subseteq InList
  /\ joined \subseteq InList
  /\ fault \in {"none", "join_uninitialised"}

(* parac_thread_registry_init: both lists are empty.                       *)
Init ==
  /\ mpc = "create"
  /\ size = 0
  /\ thread = [i \in Entries |-> "none"]
  /\ stop = [i \in Entries |-> FALSE]
  /\ running = [i \in Entries |-> FALSE]
  /\ stopped = {}
  /\ joined = {}
  /\ fault = "none"

-----------------------------------------------------------------------------
(* Main thread.                                                            *)

(* parac_thread_registry_create: alloc_new appends an entry, its fields    *)
(* are set, the new-thread callbacks run, and thrd_create either starts   *)
(* run_wrapper or fails (thrd_nomem or thrd_error) with the entry left in *)
(* the list.  thread_id and the starter are data no step depends on; an   *)
(* alloc_new that returns NULL (PARAC_OUT_OF_MEMORY) changes nothing.      *)
Create ==
  /\ fault = "none"
  /\ mpc = "create"
  /\ size < MaxThreads
  /\ LET i == size + 1 IN
       /\ size' = i
       /\ stop' = [stop EXCEPT ![i] = FALSE]
       /\ running' = [running EXCEPT ![i] = FALSE]
       /\ \E outcome \in {"started", "failed"} :
            thread' = [thread EXCEPT ![i] = outcome]
  /\ UNCHANGED <<mpc, stopped, joined, fault>>

(* The main thread decides to shut down.                                   *)
BeginShutdown ==
  /\ fault = "none"
  /\ mpc = "create"
  /\ mpc' = "stopping"
  /\ UNCHANGED <<size, thread, stop, running, stopped, joined, fault>>

(* Mutant: the stop loop runs past the last entry of the list.         *)
StopOnePastEnd ==
  /\ fault = "none"
  /\ mpc = "stopping"
  /\ \E i \in Entries \ stopped :
       /\ stop' = [stop EXCEPT ![i] = TRUE]
       /\ stopped' = stopped \cup {i}
  /\ UNCHANGED <<mpc, size, thread, running, joined, fault>>

(* Mutant: the stop loop skips the entry instead of setting its flag.    *)
StopOneSkipped ==
  /\ fault = "none"
  /\ mpc = "stopping"
  /\ \E i \in InList \ stopped : stopped' = stopped \cup {i}
  /\ UNCHANGED <<mpc, size, thread, stop, running, joined, fault>>

(* parac_thread_registry_stop, one iteration: stop = true for the next     *)
(* entry of the list.                                                      *)
StopOne ==
  /\ fault = "none"
  /\ mpc = "stopping"
  /\ \E i \in InList \ stopped :
       /\ stop' = [stop EXCEPT ![i] = TRUE]
       /\ stopped' = stopped \cup {i}
  /\ UNCHANGED <<mpc, size, thread, running, joined, fault>>

StopDone ==
  /\ fault = "none"
  /\ mpc = "stopping"
  /\ stopped = InList
  /\ mpc' = "joining"
  /\ UNCHANGED <<size, thread, stop, running, stopped, joined, fault>>

(* Mutant: the join does not wait for the thread to exit.               *)
JoinOneNoWait ==
  /\ fault = "none"
  /\ mpc = "joining"
  /\ \E i \in InList \ joined :
       /\ \A j \in InList \ joined : i <= j
       /\ thread[i] # "failed"
       /\ joined' = joined \cup {i}
  /\ UNCHANGED <<mpc, size, thread, stop, running, stopped, fault>>

(* parac_thread_registry_wait_for_exit, one iteration: thrd_join on the    *)
(* next entry returns once that thread has exited.                         *)
JoinOne ==
  /\ fault = "none"
  /\ mpc = "joining"
  /\ \E i \in InList \ joined :
       /\ \A j \in InList \ joined : i <= j
       /\ thread[i] = "exited"
       /\ joined' = joined \cup {i}
  /\ UNCHANGED <<mpc, size, thread, stop, running, stopped, fault>>

(* thrd_join on an entry whose thrd_create failed: the thrd_t was never    *)
(* initialised.                                                            *)
JoinUninitialised ==
  /\ fault = "none"
  /\ mpc = "joining"
  /\ \E i \in InList \ joined :
       /\ \A j \in InList \ joined : i <= j
       /\ thread[i] = "failed"
  /\ fault' = "join_uninitialised"
  /\ UNCHANGED <<mpc, size, thread, stop, running, stopped, joined>>

JoinDone ==
  /\ fault = "none"
  /\ mpc = "joining"
  /\ joined = InList
  /\ mpc' = "done"
  /\ UNCHANGED <<size, thread, stop, running, stopped, joined, fault>>

-----------------------------------------------------------------------------
(* Created threads: run_wrapper.                                           *)

(* handle->running = true; start_func begins.                              *)
RunStart(i) ==
  /\ fault = "none"
  /\ thread[i] = "started"
  /\ thread' = [thread EXCEPT ![i] = "body"]
  /\ running' = [running EXCEPT ![i] = TRUE]
  /\ UNCHANGED <<mpc, size, stop, stopped, joined, fault>>

(* start_func returns after seeing stop, or by itself; then                *)
(* handle->running = false and the thread exits.                           *)
RunEnd(i) ==
  /\ fault = "none"
  /\ thread[i] = "body"
  /\ thread' = [thread EXCEPT ![i] = "exited"]
  /\ running' = [running EXCEPT ![i] = FALSE]
  /\ UNCHANGED <<mpc, size, stop, stopped, joined, fault>>

-----------------------------------------------------------------------------
(* A step of the main thread or of a created thread; after undefined     *)
(* behaviour (fault) the process takes no step.                          *)
Next ==
  \/ Create \/ BeginShutdown \/ StopOne \/ StopDone
  \/ JoinOne \/ JoinUninitialised \/ JoinDone
  \/ \E i \in Entries : RunStart(i) \/ RunEnd(i)

(* The main thread and the scheduler are fair; a start function returns    *)
(* once it has seen its stop flag (the module threads poll it).            *)
Fairness ==
  /\ WF_vars(StopOne \/ StopDone \/ JoinOne \/ JoinUninitialised \/ JoinDone)
  /\ \A i \in Entries : WF_vars(RunStart(i)) /\ WF_vars(stop[i] /\ RunEnd(i))

Spec == Init /\ [][Next]_vars /\ Fairness

-----------------------------------------------------------------------------
(* Properties.                                                             *)

(* When parac_thread_registry_wait_for_exit returns, every thread the      *)
(* registry started has left its start function and cleared `running`:    *)
(* the caller may free what the threads use.                               *)
AllExitedWhenDone ==
  mpc = "done" =>
    \A i \in InList : thread[i] = "exited" /\ ~running[i]

(* Shutdown (stop, then wait_for_exit) completes: every module thread sees *)
(* its stop flag and is joined, unless the process crashed.               *)
ShutdownCompletes ==
  (mpc = "stopping") ~> (mpc = "done" \/ fault # "none")

(* wait_for_exit only joins threads that thrd_create started.              *)
JoinsOnlyStarted == fault = "none"
=============================================================================

# Formal models of Paracooba's solver handle, timeouts, thread registry, cube table and message send queue

This directory holds:
- TLA+ models of parts of Paracooba, the distributed cube-and-conquer SAT solver under `src/`;
- the TLC configurations that check them on small instances;
- TLAPS proofs of their main safety properties.

`PROJECT.json` lists every component, run, mutant, finding, hazard and theorem. It also maps each definition to the source lines it models.

## 1. The system and its parts

| Part (spec id) | Code under `src/` | State here |
|---|---|---|
| C2 SAT engine adapter: `CaDiCaLHandle` | `modules/solver/cadical_handle.cpp` | **modelled**: resplitCube, lookahead, fastLookahead, resplitOnce, solve, terminate and the expiry callback (`LookaheadTimeout`); the pregenerated cube table (`CubeJumplist`, `FloatLog2`, `CubePathLength`). Not modelled: DIMACS parsing itself, copying, the QuAPI portfolio |
| Timeout controller of the communicator | `modules/communicator/timeout_controller.cpp` | **modelled** (`LookaheadTimeout`) |
| Thread registry | `modules/commonc/thread_registry.c` | **modelled** (`ThreadRegistry`) |
| C7 message send queue | `modules/communicator/message_send_queue.hpp` (header only) | **modelled** from the header's documentation and spec §4.7 (`MessageSendQueue`), with the abstract `ReliableTransfer` it refines |
| C5 compute-node registry | `modules/broker/broker_compute_node.hpp` (header only) | not modelled |
| C4 runner pool | `paracuber/.../runner.hpp`, `task.hpp` (declarations only) | not modelled |
| C1 paths, C3 task store, C6 offload, C8 reactor, C9 broker | none under `src/` | not modelled |
| Config, module loader, tracealyzer, test mocks | `config.cpp`, `ModuleLoader.cpp`, `tracealyzer_main.cpp`, `mocks.hpp` | not modelled: sequential option parsing, `dlopen` and a trace viewer, with no concurrency to check |

### How the modelled parts interact

**Calls on a handle.** Each `CaDiCaLHandle` is driven by one worker thread. `resplitCube`, `lookahead` and `fastLookahead` all follow the same pattern:
1. call `TimeoutController::setTimeout`;
2. store the returned `parac_timeout*` in `m_lookaheadTimeout`;
3. run `generate_cubes`;
4. cancel the timeout through `m_lookaheadTimeout->cancel`.

They differ in a few ways:
- `resplitCube` (`cadical_handle.cpp:442-518`) first resets the terminator and asserts that the pointer is null. When the terminator is set it returns ABORTED and only forgets the pointer. On its normal path it resets the pointer after cancelling.
- `lookahead` (520-584) and `fastLookahead` (586-619) cancel but never reset the pointer. `fastLookahead` sets the terminator around `generate_cubes`.
- `resplitOnce` (380-427) and `solve` use no timeout. They share the handle's terminator.

**The timer's completion handler.** `setTimeout` puts a `Timeout` into a pooled `std::list` under a mutex and arms an asio timer. The single asio reactor thread runs the completion handler. If `expired` is set, the handler:
1. calls the expiry callback, which nulls the handle's `m_lookaheadTimeout` and calls `terminate()`;
2. calls `cancel`, which erases the list element (`timeout_controller.cpp:80-103`).

Nothing synchronises the worker's cancel with the reactor's handler. A freed list node is handed to the next `setTimeout`, so a stale pointer reads the current occupant.

**The cube table.** `lookahead` also refills the handle's pregenerated cube table and calls `generateJumplist` (285-314). That records each cube's start in a flat literal vector and sets the uniform path length `ceil(log2f(count))`. `getCubeFromPath` (264-274) maps a path of that length to a cube. `parseFile` builds the same table from cubes in the input file.

**The thread registry** (`thread_registry.c`) starts the module threads. At shutdown it sets each thread's `stop` flag and joins every thread in its list.

**The message send queue** (`message_send_queue.hpp`) holds the messages to one remote node:
- `send` numbers an entry with `m_messageNumber` and appends it to `m_queued`.
- The transport reactor takes `front()`, writes it, and calls `popFromQueued()` when the write completes. That moves the entry to `m_waitingForACK`, a `std::map` ordered by number.
- `empty()` re-queues entries older than half their timeout, so they are sent again.
- `handleACK` erases the acknowledged entry from `m_waitingForACK`.
- On a new connection (`registerTCPConnection`) the entries still awaiting an ACK are sent again.

## 2. Modules

### `MessageSendQueue.tla` and `ReliableTransfer.tla`: the send queue

The implementation file is not under `src/`. The actions therefore follow the header's documentation (lines 82-112) and spec §4.7. The peer and the transport are modelled from spec §4.7-4.8.

**State:**
- `nextSeq` is `m_messageNumber`.
- `queued` is `m_queued` as a sequence of numbers.
- `waiting` is the key set of `m_waitingForACK`; `old` is the subset past half their timeout.
- `writing` is the entry whose write is in progress.
- `conn` is whether a connection is registered.
- `wire` and `ackWire` are the frames in flight in each direction.
- `received` is the peer's set of numbers.
- `acked` is a ghost: the entries `handleACK` erased.

**Actions:** `Send`, `RegisterConnection`, `WriteFront` (`front()` and the write), `PopFromQueued`, `Empty`, `HandleACK`, `Age(s)` (time passing), `Disconnect`, `Receive` (the peer answers every frame with an ACK) and `DropFrame` (one frame lost).
- `Empty` puts the old entries back in front of `m_queued` in number order, as iterating the ordered map gives them.
- `Disconnect` puts every awaiting entry back in front of `m_queued` in number order.

**`ReliableTransfer`** is what the queue promises. Entries are numbered in order. Copies of an entry travel to the peer over a lossy FIFO `channel`. `Transmit(s)` may put a copy on the channel, the first time or again, only while `s` is pending. The peer may get a copy more than once (`Deliver` takes the oldest copy). An entry is released by the sender only after the peer has it, and once released it is never transmitted again. The mapping `Transfer` takes:
- `next` to `nextSeq`;
- `pending` to the numbers sent and not acknowledged;
- `delivered` to `received`;
- `channel` to `wire`.

Every retransmission and every duplicate delivery is therefore a visible abstract step, not a stutter.

**Spec and header differ.** Spec §4.7 says `empty()` returns true only when both containers are empty. The header documents a check of the send queue alone. The model follows the header: the reactor stops writing when `m_queued` is empty.


### `LookaheadTimeout.tla`: the worker threads and the reactor

**Constants:**
- `Handles`: the worker threads, one per handle.
- `Slots`: the memory slots of the pool allocator.
- `NULL`.
- `MaxPending`: the bound on queued completions per slot.
- `Calls`: for each handle, which of `resplit`, `lookahead`, `fast`, `once` and `solve` its owner calls.

**State:**
- `pc[h]`: the worker's position.
- `op[h]`: the current call.
- `lt[h]`: `m_lookaheadTimeout`.
- `elem[h]`: the pointer the worker holds in a register.
- `term[h]`: the terminator's local flag.
- `ret[h]`: the status returned.
- `slot[s]`: the `Timeout` object in slot `s`. Its fields are `inList`, the `expired` callback as a Boolean, `userdata` and `armed` (the asio wait is outstanding).
- `pending[s]`: completions queued with success.
- The reactor's state:
  - `rpc`, its position in the handler;
  - `rslot`, the `elem` the handler captured;
  - `rh`, the handle the callback loaded.
- `fault`: undefined behaviour reached.
- Two ghosts:
  - `cur[h]`, the slot armed by the current call;
  - `extAbort[h]`, set when the handle is terminated from outside.

Each action is one atomic step of the code:

| Action | Code |
|---|---|
| `ResplitStart`, `LookaheadStart`, `FastLookaheadStart`, `ResplitStopped` | entries of the three calls, `stoppedGlobally` check |
| `SetTimeoutAlloc`, `SetTimeoutArm`, `AssignTimeout` | `setTimeout`: `emplace_front` (slot reuse), fields and `async_wait`, the assignment |
| `FastTerminateLocally`, `FastResetLocal` | `terminateLocally()` around fastLookahead's `generate_cubes` |
| `GenerateCubes`, `GenerateCubesInterrupted` | `generate_cubes` |
| `LookaheadAborted` | `if(m_internal->terminator) { m_lookaheadTimeout = nullptr; return ABORTED; }` |
| `LookaheadFinish`, `CancelTimeoutRead`, `CancelLambda`, `CancelThroughNull`, `TimeoutErase`, `TimeoutDoubleErase` | `if(m_lookaheadTimeout) m_lookaheadTimeout->cancel(...)` and `TimeoutController::cancel` |
| `LookaheadCancelErase` | lookahead's and fastLookahead's cancel, without the reset |
| `ResplitOnceStart`, `ResplitOnceGenerate` | `resplitOnce` |
| `SolveStart` … `SolveInterrupted` | `CaDiCaLHandle::solve` and `Internal::solve` |
| `ExternalTerminate` | `terminate()` from a task abort |
| `TimerExpire`, `HandlerStart` … `HandlerDoubleErase` | the asio completion handler: check `expired`, run the callback (`HandlerCallback` nulls the pointer, `HandlerTerminate` terminates), cancel |

**Data races.** Two values are re-read by racing code:
- `m_lookaheadTimeout`, around the `->cancel` call;
- `expired`, between the handler's check and its call.

Each re-read is a nondeterministic choice between the value already held and the current one.

**Undefined behaviour** sets `fault`, and `Next` stops there. The cases are:
- a double erase;
- a call through a null function pointer;
- a null handle dereference.

**Abstractions.**
- The engine's statuses are one value, `DONE`.
- Timer durations are left out.
- `timer.cancel()` in `~Timeout` retracts only a completion that is not yet queued. This is asio's documented behaviour.

### `ThreadRegistry.tla`: `thread_registry.c`

**State:**
- `mpc`: the main thread's phase (create, stopping, joining, done).
- `size`: the list length.
- `thread[i]`: one of none, failed, started, body or exited.
- `stop[i]`, `running[i]`: the handle fields.
- `stopped`, `joined`: the entries the two shutdown loops have visited.

**Actions:**
- `Create`: the entry is allocated before `thrd_create`, and `thrd_create` either starts the thread or fails, leaving the entry in the list.
- `StopOne`, `StopDone`: `parac_thread_registry_stop`.
- `JoinOne`, `JoinUninitialised`, `JoinDone`: `wait_for_exit`. `JoinUninitialised` joins a failed entry's never-initialised `thrd_t`.
- `RunStart`, `RunEnd`: `run_wrapper`.

The linked list's implementation is not under `src/`. The model visits entries in creation order; the properties do not depend on the order.

### `CubeJumplist.tla`, `FloatLog2.tla`, `CubePathLength.tla`: the cube table

**`FloatLog2`** translates lines 306-307 in integer arithmetic:
- the `size_t → float` conversion, which rounds to 24 significant bits with ties to even;
- the rounding of `log2f`'s result near an integer.

Where the exact logarithm is within 0.4% of the rounding boundary, both neighbours are allowed. On counts `2^k .. 2^k+299` for `k = 1..28`, the operator was compared with glibc's `ceilf(log2f(n))` from a compiled C program. It agreed on every count, with no ambiguous case.

**`CubeJumplist`**:
- State: the flat vector `cubes`, `jumplist`, `count`, `normalizedPathLength`, `hasFormula`, and the ghost `ref` (the cubes as a sequence).
- `FlatPrefix(t)` is the copy loop of lookahead (and the `a <lit>* 0` lines parseFile reads) as a recursive function over the cubes: entry `k` is the vector after `k` cubes, each followed by its 0. `Flatten(t)` is its last entry.
- `ScanSteps(flat)` is the scan loop of `generateJumplist` as a recursive function over the literals; `Scan` is its last state. `GenerateJumplist` appends `lastStart` and takes the count and the path length from it.
- Both are recursive *functions*, not `RECURSIVE` operators, so TLAPS can reason about them (section 4).
- `GetCubeFromId` and `GetCubeFromPath` translate the lookups.
- `ParseFile`, `LookaheadDecided` (SAT/UNSAT after the clearing) and `LookaheadSplitted` translate the callers.

**`CubePathLength`** keeps only the count, for tables with millions of cubes.

## 3. Runs

| Run | cfg | Expect | What it shows |
|---|---|---|---|
| lt_safety | `LookaheadTimeout_safety.cfg` | pass | `TypeOK`, `ResplitInv` and `ResplitAssert` (`assert(!m_lookaheadTimeout)` holds for handles used with resplitCube and solve) with 2 handles and 2 slots |
| lt_reclaim | `LookaheadTimeout_live.cfg` | pass | `TimeoutsReclaimed`: every listed `Timeout` is erased again unless the process crashed (all five calls) |
| lt_crash | `LookaheadTimeout_crash.cfg` | violation | `NoCrash`: the handler and the cancel race, giving a double erase, a null callback call or a null handle dereference |
| lt_lost_timeout | `LookaheadTimeout_lost_timeout.cfg` | violation | `LookaheadReturns`: a late handler erases the next lookahead's timeout in the reused slot |
| lt_stale | `LookaheadTimeout_stale.cfg` | violation | `StaleTimeoutHarmless`: the timeout left armed by an aborted resplitCube terminates a later call |
| lt_aborted | `LookaheadTimeout_aborted.cfg` | violation | `AbortedOnlyWhenStopped`: an expired lookahead returns ABORTED, where spec §4.2 says NoSplitsLeft |
| lt_mixed | `LookaheadTimeout_mixed.cfg` | violation | `ResplitAssert`: after lookahead or fastLookahead, the next resplitCube finds the pointer set |
| tr_shutdown | `ThreadRegistry.cfg` | pass | `TypeOK`, `AllExitedWhenDone`, `ShutdownCompletes` with up to 3 threads |
| tr_failed_create | `ThreadRegistry_failed_create.cfg` | violation | `JoinsOnlyStarted`: a failed create's entry is joined |
| cj_table | `CubeJumplist.cfg` | pass | `TypeOK`, `CubeTableMatches`, `CubeTableAddressable` and the inductive invariant `CubeInv` for every table of up to 3 cubes of up to 2 literals |
| msq_delivery | `MessageSendQueue.cfg` | pass | `TypeOK`, `SeqsUnique`, `NoEntryLost`, `QueueInv`, `EventuallyReceived`, `TransferSpec` (the queue implements `ReliableTransfer`) and the action property `NoResurrection` (no step brings back an erased entry) with 3 messages, one lost frame and one disconnection |
| cj_large_table | `CubePathLength_large.cfg` | violation | `AllCubesAddressable`: with `2^21+1` cubes the path length is 21, so the last cube has no path |

Every violation is a defect of the code, described under `findings` in `PROJECT.json`.

**An ACK can overtake its write.** The peer's ACK may arrive before `popFromQueued` has moved the entry to `m_waitingForACK`, or after `empty()` has re-queued it. `handleACK` then drops it, as spec §4.7 prescribes for unknown numbers. With that timing on every round, an entry is sent again and again and never erased. TLC finds such a lasso for "every entry is eventually acknowledged". The spec promises no such property, so no run states it. What the code does guarantee, that the peer eventually has every entry, is `EventuallyReceived`.

**Bounds.**
- **Two slots** are the least that lets a stale handler meet a newer timeout in a reused slot.
- **Two handles** let one handle's stale handler hit the other's timeout.
- **`MaxPending = 1`.** A second queued completion of one slot needs another full reuse cycle, which the model still reaches.
- **Symmetry** over handles and over slots is sound: no definition names one of them.
- **Liveness runs use one handle.** Symmetry is unsound for liveness, and a second handle adds no new way to leak a timeout.
- **`MaxThreads = 3`.** Three threads give a failed create between two started ones, and a stop that overtakes a thread still starting.
- **Cube tables of up to 3 cubes** cover path lengths 0, 1 and 2, and one path of length 2 that addresses no cube. The two literals `{1, -2}` suffice, because the scan only tests for 0.
- **Send queue: `MaxMsgs = 3`, `MaxWire = 2`, `MaxDrops = 1`, `MaxDisconnects = 1`.**
  - Three messages let a retransmitted entry sit between a newer queued one and an older awaited one.
  - Two frames per direction let an ACK be in flight while the frame is sent again.
  - One loss and one disconnection exercise both recovery paths (the half-time retransmission and the reconnect).
  - The run reaches about 100,000 distinct states.
- **`Counts = {2^20+1, 2^21+1}`** is one count computed correctly and the smallest count that is not.

**Deadlock checking** is off:
- in the LookaheadTimeout and ThreadRegistry runs, because fault states are crashes and the system may be idle or done;
- in `CubePathLength`, because it stops after one step;
- in the send-queue runs, because the queue stops once everything is acknowledged.

**Fairness.** Fairness is assumed only where the code makes progress by itself:
- Worker steps are weakly fair. The exceptions are the engine finishing on its own, the start of a call, and external aborts.
- An engine whose terminator is set returns (weak fairness).
- An armed timer expires (weak fairness).
- The reactor's handler steps are weakly fair.
- `HandlerStart(s)` is strongly fair, because asio dispatches ready handlers in order.
- In ThreadRegistry:
  - the main thread's loops are weakly fair;
  - a started thread runs (weak fairness);
  - a thread whose stop flag is set leaves its start function, because module threads poll it.

- In MessageSendQueue, these steps are weakly fair: the reactor's `WriteFront`, `PopFromQueued` and `Empty`; `HandleACK`; the peer's `Receive`; reconnection; and `Age(s)`, since time passes. `Send`, losses and disconnections are not fair: they are the application and the faults.

**Mutants.** Each property of a passing run has a mutant in `PROJECT.json`: a plausible slip in the code, under which TLC finds the property violated.

| Property | Mutant | The slip |
|---|---|---|
| `TypeOK` (lt) | `HandlerStartUnqueued` | a handler dispatched with nothing queued |
| `ResplitInv` | `TimeoutEraseKeepsPointer` | the pointer not reset after cancel |
| `ResplitAssert` | `LookaheadAbortedKeepsPointer` | the abort path does not reset the pointer |
| `TimeoutsReclaimed` | `HandlerEraseOmitted` | the handler does not call `cancel` |
| `TypeOK` (tr) | `StopOnePastEnd` | the stop loop runs past the list |
| `AllExitedWhenDone` | `JoinOneNoWait` | the join does not wait |
| `ShutdownCompletes` | `StopOneSkipped` | an entry's stop flag is not set |
| `TypeOK` (cj) | `ScanPastStart` | `lastStart = i + 2` |
| `CubeTableMatches` | `GenerateJumplistCountAfterPush` | the count taken after the sentinel push |
| `CubeInv` | `GenerateJumplistCountAfterPush` | the count taken after the sentinel push |
| `CubeTableAddressable` | `TruncatedLog2f` | `std::ceil` omitted |
| `TypeOK` (msq) | `HandleACKKeepsAge` | `handleACK` leaves the entry in the old set |
| `SeqsUnique` | `EmptyCopies` | `empty()` copies old entries instead of moving them |
| `NoEntryLost` | `DisconnectDropsWaiting` | awaiting entries are dropped on disconnect |
| `QueueInv` | `PopFromQueuedKeepsWriting` | the write-in-progress mark is not cleared |
| `EventuallyReceived` | `EmptyWithoutRetransmit` | `empty()` never re-queues |
| `TransferSpec` | `EmptyCopies` | the retransmission copies aged entries and leaves them awaiting an ACK, so an entry acknowledged later is written again |
| `NoResurrection` | `HandleACKKeepsAge` | `handleACK` leaves the entry in the old set, so `empty()` re-queues it |

## 4. Proofs

**`LookaheadTimeout_proofs.tla`.**
- **`TypeCorrect`**: `Spec => []TypeOK`, for all sets of handles and slots.
  - `TypeOK` is inductive because it states that a worker between `setTimeout` and the erase holds a slot, and that a running handler designates one.
  - Five lemmas prove once that each record update of a timeout slot keeps the slot table well typed:
    `AllocKeepsTimeout` (setTimeout taking a slot from the pool), `ArmKeepsTimeout` (arming the timer),
    `ExpireKeepsTimeout` (the timer firing), `ClearKeepsTimeout` (the cancel lambda) and
    `EraseKeepsTimeout` (erasing a timeout). The `TypeCorrect` step of each action cites its lemma,
    which keeps every obligation small.
- **`ResplitAssertHolds`**: `ResplitOnlyCallers => (Spec => []ResplitAssert)`.
  - `ResplitOnlyCallers` says no handle is used with both resplitCube and lookahead/fastLookahead. Run lt_mixed shows the assertion fails without it.
  - The proof goes through the inductive `ResplitInv`:
    - a running call is one the owner makes;
    - at `r_check` the call is resplitCube;
    - on such handles the pointer is null at every position outside the window from the pointer's assignment to its erase. Every return path of resplitCube resets it, and the callback only clears it.
  - TLC checks `ResplitInv` in lt_safety. **`ResplitInvariant`** (`Spec => []ResplitInv`) states it as a theorem of its own.

**`ThreadRegistry_proofs.tla`.**
- **`TypeCorrect`**: `Spec => []TypeOK` for every `MaxThreads`.
- **`ExitedWhenDone`**: `Spec => []AllExitedWhenDone`, through the inductive `DoneInv`. Its parts:
  - entries past the list are untouched;
  - an exited thread is not running;
  - a joined entry has exited;
  - when done, every entry is joined.

**`MessageSendQueue_proofs.tla`.**
- **`QueueInvariant`**: `Spec => []QueueInv`, for every value of the bounds. `QueueInv` strengthens `TypeOK`, `SeqsUnique` and `NoEntryLost` with four facts:
  - a write in progress is the head of `m_queued`;
  - no acknowledged number is queued or awaited;
  - every number the peer holds or acknowledged has been sent;
  - every ACK in flight is for a number the peer received.

  Without these, `PopFromQueued` and `HandleACK` could not be shown to keep the numbers unique and no entry lost.
- **`TypeCorrect`**, **`NumbersUnique`** and **`EntriesKept`** state `[]TypeOK`, `[]SeqsUnique` and `[]NoEntryLost` separately, each as a corollary of `QueueInvariant`.
- **`NoResurrectionHolds`**: `Spec => NoResurrection`, one case per action under `QueueInv`:
  - `Send` adds only the number it takes;
  - `PopFromQueued` moves the head it wrote;
  - `Empty` re-queues only old entries of `m_waitingForACK`;
  - a disconnect moves all of `m_waitingForACK` back;
  - `HandleACK` only removes.
- The lemmas `AppendElems`, `TailElems`, `RemoveAtElems`, `ConcatElems` and `AscendingElems` state, once each, what the sequence operations do to the set of elements and to distinctness.
- **`Refinement`**: `Spec => TransferSpec`.
  - `Send` maps to `SendEntry`.
  - `WriteFront` maps to `Transmit` of the head of `m_queued`. Its guard, that the entry is not acknowledged, comes from `QueueInv` (`acked` is disjoint from `m_queued`).
  - Every `Receive`, a duplicate included, maps to `Deliver`.
  - `HandleACK` of an awaited entry maps to `Release`.
  - A frame dropped towards the peer maps to `LoseOne`, and a `Disconnect` maps to `LoseAll`.
  - Every other step is a stutter.
  - The other abstract guards also come from `QueueInv`.

**`CubeJumplist_proofs.tla`.** For every number of cubes `MaxCubes` and every cube length `MaxCubeLen`:
- **`CubeInvariant`**: `Spec => []CubeInv`. `CubeInv` is the layout the table keeps between calls:
  - the flat vector is `Flatten(ref)`;
  - the count is `Len(ref)`;
  - before parseFile nothing is stored;
  - once there is a cube, `jumplist[i]` is the length of the vector after `i - 1` cubes.

  `CubeTableMatches` alone is not inductive. parseFile keeps the old count and jumplist when the file has no cubes, and lookahead keeps them when the vector is already empty. Both are right only because nothing was stored, which is what `CubeInv` records.
- **`CubeTableMatchesHolds`**: `Spec => []CubeTableMatches`, from `CubeInv` and `CubeLookup`. `CubeLookup` says the slice `getCubeFromId` takes between two jumplist entries is the cube.
- The argument about the data is made with recursive *functions*:
  - `FlatPrefixDef` and `ScanStepsDef` unfold their definitions with `FiniteNatInductiveDef` from `NaturalsInduction`.
  - `FlatLayout` shows that the vector lengths of the copy loop are a terminator layout (`IsLayout`): increasing offsets, a 0 at each, no 0 between two.
  - `ScanAll` shows that after the `k`-th terminator the scan has recorded exactly the first `k` offsets.
  - `GenerateCorrect` combines the two: `generateJumplist` on a flattened table counts its cubes and stores the offsets.
- Induction over cubes and literals is by least counterexample (`LeastElement`, from `WFMin` on the naturals). Each induction step is a lemma of its own (`PrefixKeptStep`, `ScanGapStep`, `ScanStep`).
- `SubSeq` is reasoned about through `SubSeqProperties` and `SeqEqual` from `SequenceTheorems`.

**Assumptions.**
- `PendingAssumption`: `MaxPending` is a positive natural.
- `MaxThreadsAssumption`: `MaxThreads` is a natural.
- No finiteness of `Handles` or `Slots` is needed.
- `LitsAssumption`: literals are nonzero integers. `BoundsAssumption`: the cube bounds are naturals.
- `MsqAssumption`: the send-queue bounds are naturals, `MaxWire` is positive, and `NONE` is not a number.

**Left to TLC:**
- Liveness (`TimeoutsReclaimed`, `LookaheadReturns`, `ShutdownCompletes`, `EventuallyReceived`), and anything involving `ENABLED`.
- `CubeTableAddressable`, `AllCubesAddressable` and CubeJumplist's `TypeOK`. They rest on `FloatLog2`, whose `BitLen` is a `CHOOSE` over `1..30`: it is undetermined from 2^30 on, and the bounds it compares against are powers of two of a variable exponent, which the provers do not reason about. `AllCubesAddressable` is moreover false in general (run cj_large_table).

## 5. Not modelled

- **The compute-node registry.** Only its header is under `src/`.
- **The send queue's locking and number wrap-around.** The implementation file is not under `src/`, so each move between `m_queued` and `m_waitingForACK` is one atomic step, as spec §4.7 requires. The `uint32_t` wrap of `m_messageNumber` is not modelled: a collision would need one entry to stay unacknowledged across 2^32 messages.
- **Concurrent thread creation.** `parac_thread_registry_create` updates the list without a lock, but nothing under `src/` calls it and the registry's only user, the test mock, creates threads from one thread. The model creates threads from the main thread, before shutdown.
- **The path algebra, task store, reactor and broker.** They have no code here.
- **Configuration, module loading and the tracealyzer.** These are sequential I/O.
- **Copied handles.** A copied `CaDiCaLHandle` shares the cube vector and jumplist with its original but keeps its own count (hazard in `PROJECT.json`). The modules model one handle, because whether lookahead runs after a copy exists is decided by callers that are not under `src/`.

## 6. Plan

1. **A refinement** of the timeout controller by an abstract "one pending timeout per call" specification.
2. **The runner pool (C4)**, from spec §4.4 and its declarations.

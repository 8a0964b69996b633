# Verification of JSC.js: the garbage collector, its threads and its embedding

JSC.js is JavaScriptCore built for WebAssembly: the parser, the LLInt/CLoop interpreter,
the runtime library and the Riptide garbage collector, on top of the WTF threading
library, behind a small embedding API (`JSCJS/jscjs.cpp`). Most of it is sequential
language implementation. What is concurrent, and hard to test, is the collector with what
it stands on: the locks, the parking lot, the threads that start and stop by themselves,
the API lock, the run-loop timers, the marking that races with the mutator, the mark bits
that are valid only in a version. This directory holds TLA+ models of those parts, TLC
configurations that check them on small instances, and TLAPS proofs.

Paths below are relative to `src/Source/JavaScriptCore/` (or `src/Source/WTF/wtf/` where
they begin with `wtf/`). `PROJECT.json` maps every definition that models code to its
lines.

## Inventory

| Part | Source | State | Operations | Module |
|---|---|---|---|---|
| GC conductor protocol | `heap/Heap.cpp`, `Heap.h`, `HeapInlines.h`, `CollectorPhase`, `GCConductor` | `m_worldState` bits, `m_currentPhase`/`m_nextPhase`, `m_worldIsStopped`, tickets and `m_requests` | acquire/release access, stopIfNecessary, collectAsync/Sync, requestCollection, the six phases, stop/resume, finalize, waitForCollector, preventCollection, lastChanceToFinalize | `HeapConductor`; what it promises: `CollectionService` |
| GC requests | `heap/GCRequest.*` | scope, callback | `subsumedBy` | `GCRequest` |
| Mutator schedulers | `heap/*MutatorScheduler.cpp` | Normal/Stopped/Resumed | beginCollection, didStop, willResume, timeToStop | in `HeapConductor` (time is the flag `timeToStop`) |
| Stopping and resuming the visitors | `heap/Heap.cpp`, `SlotVisitor.cpp` | `m_mutatorIsStopped`, `m_rightToRun` | stopThePeriphery, resumeThePeriphery, drain, safepoint | `Periphery` |
| Marking and write barrier | `heap/Heap.cpp`, `SlotVisitor.cpp`, `MarkingConstraint*` | cell states, marks, mark stacks | writeBarrier, addToRememberedSet, visitChildren, the constraint fixpoint | `Marking` |
| Parallel draining | `heap/SlotVisitor.cpp`, `Heap.cpp` | shared stacks, active and waiting markers | drain, donate, steal, drainFromShared, runTaskInParallel | `ParallelMarking` |
| Object layout and its scan | `runtime/JSObject.cpp`, `JSObjectInlines.h`, `Structure.cpp` | structure ID with nuke bit, butterfly, last offset | transitions, removal, dictionaries, flattening, visitButterfly | `Butterfly` |
| MarkedSpace, blocks, allocators, sweeper | `heap/MarkedSpace.cpp`, `MarkedBlock*`, `BlockDirectory.cpp`, `LocalAllocator.cpp` | versions, mark and newly-allocated bits, free list, directory bits | allocate, stop/resumeAllocating, aboutToMark, sweep, steal, free | `MarkedBlock` (one block) |
| GC deferral | `heap/Heap.cpp`, `HeapInlines.h`, `DeferGC.h`, `GCDeferralContext*` | deferral depth, notes, mutator state | collectIfNecessaryOrDefer, the scopes' destructors | `GCDeferral` |
| JSLock | `runtime/JSLock.cpp` | owner, count, drop depth | lock, unlock, willReleaseLock, dropAllLocks, grabAllLocks | `JSLock` |
| Run-loop timers | `runtime/JSRunLoopTimer.cpp`, `heap/StopIfNecessaryTimer.cpp` | per-VM vector, one armed timer | scheduleTimer, cancelTimer, timerDidFire, unregisterVM | `JSRunLoopTimer`; the stop timer also in `HeapConductor` |
| Lock, CountingLock | `wtf/LockAlgorithm*`, `CountingLock.*` | held and parked bits, count | lock, tryLock, unlock, unlockFairly, doOptimizedRead | `LockAlgorithm`, `CountingLock`; what they promise: `Mutex` |
| WordLock | `wtf/WordLock.*` | one word, queue on the waiters' stacks | lock, unlock | `WordLock`, implements `Mutex` |
| ParkingLot | `wtf/ParkingLot.*` | hashtable of buckets | parkConditionally, unparkOne, unparkAll, forEach, growing | `ParkingLot`; what it promises: `ParkingQueues` |
| Condition, ReadWriteLock | `wtf/Condition.h`, `ReadWriteLock.cpp` | the waiters flag; the counters | wait, notifyOne, notifyAll; read/write lock and unlock | `Condition`, `ReadWriteLock` |
| AutomaticThread, WorkerPool | `wtf/AutomaticThread.*`, `WorkerPool.*` | running / waiting / no underlying thread; tasks | notifyOne, notifyAll, poll, work, time-out, stop, destructor | `AutomaticThread`, `WorkerPool` |
| ParallelHelperPool | `wtf/ParallelHelperPool.cpp` | tasks, clients, helpers | setTask, finish, doSomeHelping, ensureThreads, destructors | `ParallelHelperPool` |
| Embedding API | `JSCJS/jscjs.cpp` | result buffers | jsc_eval, jsc_compile, jsc_eval_bytecode | `JSCJS` |
| Platform stubs of JSC.js | `wtf/JSC.js/*` | none | constants | the constant `ThreadsAvailable` |
| Parser, bytecode, interpreter, runtime | `parser/`, `bytecompiler/`, `interpreter/`, `runtime/` | the language | | not modelled |
| JIT tiers | `jit/`, `dfg/`, `ftl/` | | | not modelled |
| ICU | `icu/` | | | not modelled |

## How the parts interact

A collection is a run through the phases NotRunning, Begin, Fixpoint, (Concurrent,
Reloop, Fixpoint)*, End. Either thread may run it; whoever has the *conn*
(`mutatorHasConnBit`) does. The collector thread stops the world by setting `stoppedBit`
if the mutator is out of the heap (`hasAccessBit` clear); if the mutator has access, it
gives the mutator the conn instead, so that the mutator conducts and thereby stops
itself. The mutator gives the conn back when it releases access or waits. A request is a
ticket: `m_lastGrantedTicket` counts requests, `m_lastServedTicket` finished collections,
`m_requests` holds what is between. Finalizers of a finished collection
(`needFinalizeBit`) are run by the mutator before the next collection begins; a run-loop
timer brings back a mutator that has left the heap.

Around this protocol the other parts sit in layers, and each module takes the layer below
it as what that layer's own module shows it to be:

* `WordLock` and `ParkingLot` are at the bottom. `LockAlgorithm` and `Condition` use the
  parking lot as the FIFO queues of `ParkingQueues`, which `ParkingLot` implements.
* Everything else uses locks as the `Mutex` that `LockAlgorithm`, `CountingLock` and
  `WordLock` implement: one critical section is one step. Where a module assumes that a
  thread that keeps asking for a lock gets it, that is `LockReturns` of `LockAlgorithm`.
* `AutomaticThread` is extended by its clients `WorkerPool` and `ParallelHelperPool`; the
  collector thread of `HeapConductor` is a third client, of one thread.
* `HeapConductor` says who runs the phases and when the world is stopped. `Periphery` is
  how the visitors learn of that; `Marking` is what they do to the object graph, with a
  phase change as one step; `ParallelMarking` is how several of them share that work and
  find its end; `Butterfly` is the scan of one object against a mutator that changes its
  shape; `MarkedBlock` is the bits they set. `GCDeferral` is when the mutator's own thread
  may start a collection at all.
* `JSLock` is what gives a thread access to the heap, and `JSRunLoopTimer` takes it to run
  the timers' work.

## Modules

A module that has `Mutant:` definitions keeps, before an operator, the form a plausible
mistake would give it; they serve to show that each property can fail.
`MC*.tla` modules hold values for constants and put components side by side for one run:
`Init` chooses the component that runs (`part`), and the variables of the others keep their
values. Their properties name those of the components. Some of their components come with an MC
module of their own, so that the proofs about them see no others: `MCWaiting` (`Condition`,
`ReadWriteLock`, `WordLock`) and `MCPools` in `MCSynchronization`, `MCBlock` in `MCMarking`,
`MCMarkers`, `MCDeferral` and `MCObject` in `MCVisitors`, `MCJSCJS` in `MCEmbedding`.
`*Proofs.tla` and `HeapConductorAsserts` hold the theorems and their proofs, and add invariants but
no steps.

### State and actions of HeapConductor

`worldState` is `m_worldState` as the set of its bits (`gcDidJITBit` is left out: the JIT
is off). `currentPhase`, `nextPhase`, `worldIsStopped`, `collectionScope`,
`currentRequest`, `requests`, `served`, `granted`, `threadShouldStop`,
`shouldStopContinuous` are the fields of the same names. `pc` says where each thread is,
`ret` and `finRet` where `finishChangingPhase` and `handleNeedFinalize` return to, `job`
which call the mutator is executing; `done`, `oldState`, `goal` are locals that live
across steps. `prevented` is the mutator's hold on `m_collectContinuouslyLock`.

One step is one access to `m_worldState`, one critical section of `m_threadLock`, or one
write to a plain field the other thread may read. A load followed by a
`compareExchangeWeak` of the loaded value is a single step, since a failed exchange only
repeats the load. Two things are split further: `requestCollection` holds the lock over
two steps, because the conn is stolen before the request is appended and the other thread
may look at `m_worldState` without the lock; and `waitForCollector` keeps the word it
loaded in `oldState`, because it parks on it after it may have relinquished the conn.
`ParkingLot::compareAndPark` and `unparkAll` are atomic, as that library promises.
`setNeedFinalize`, `stopTheMutator`, `resumeTheMutator` and `runEndPhase` change the word
first and unpark (or schedule the timer) in later steps.

Every RELEASE_ASSERT on this state is a condition that is evaluated by the step it stands
before (`AssertsHold`); when one fails the process ends (`crashed`).

`collectInMutatorThread` leaves and re-enters `runCurrentPhase` once to capture the thread's
stack (`NeedCurrentThreadState`); that repeats `checkConn` and changes nothing, and is left
out. Marking is abstracted: Fixpoint either converges or, at most `MaxReloops` times in a
collection, resumes the mutator; which of the two is a free choice. A request without a
scope becomes an eden or a full collection, freely chosen (the heap's size decides in the
code).

### State and actions of the other modules

**LockAlgorithm, CountingLock.** `word` is the lock's byte (or the counting lock's 32-bit
word) as a record of the held bit, the parked bit and the count; `queue` is the parking
lot's queue for its address, `fairTime` whether the bucket's `nextFairTime` has passed.
`lockFast`, `tryLock`, `lockSlow` (spin, set the parked bit, park, and what the token says
on waking), `Unlock`, `unlockSlow`, `unparkOne` (dequeue and callback, which decides
between barging and direct hand-off) and `signal` (clear the sleeper's address) are the
steps. With `Collisions`, `unparkOne` may be told that more threads are queued when they
are another address's. `CountingLock` adds `tryOptimisticRead`, `func`, `validate`; the
count wraps at `CountModulus`, and `unlockSlow` keeps the word in a byte that holds
`ByteModulus` counts.

**WordLock.** The word holds two bits and the head of a queue whose nodes are `ThreadData`
objects on the stacks of waiting threads: `alive` says which are in scope. Each
compare-and-swap and each critical section of a node's mutex is a step. A weak CAS may
fail for no reason.

**ParkingLot.** `tables` is every hashtable ever installed (the code leaks them on
purpose), with buckets that are allocated lazily and carried over when the table grows.
An operation finds its bucket in the table it loaded, locks it, and starts again if the
table has been replaced meanwhile. `lockHashtable` takes the buckets one by one, in
address order. Timeouts take the thread out of its queue themselves, under the bucket's
lock.

**Condition.** `hasWaiters`, the queue, and the user's lock and predicate (`items`), since
the class is meaningful only with them. The flag is set under the bucket's lock in
`beforeSleep`'s park, read without it by notify, and cleared without it by `notifyAll`.

**ReadWriteLock.** The three counters; every method is a critical section, cut at `wait`.

**AutomaticThread, WorkerPool, ParallelHelperPool.** The four flags of each thread and
where its underlying thread is. Notify, poll, start, time-out, sleep and permanent stop
are operators on them, which the clients combine with their own `poll()` and `work()` in
one step where the code holds the lock over both. A time-out is noticed outside the lock.
The pools' destructors (`join`) are actions, and the posting thread or the clients' threads
are modelled.

**JSLock.** Each thread has a stack of scopes: lock holders (with or without a reference to
the VM), `DropAllLocks`, and the microtask drain that runs before the outermost unlock and
may itself lock and drop. The reads in `currentThreadIsHoldingLock` and the stores around
acquiring and releasing are separate steps, in program order. `deref` lets the embedder
drop its last reference, so that the VM dies inside `willReleaseLock`.

**JSRunLoopTimer.** The Manager's vector for one VM, the time for which the run loop's timer
is armed, and the loop's thread between taking due timers off, checking `m_isScheduled`,
waiting for the API lock and `doWork`. `doWork` may set or cancel its own timer, as
`IncrementalSweeper` and `GCActivityCallback` do. A timer is also set and cancelled from other
threads, without the API lock: a collector thread that conducts sets the stop timer
(`scheduleSoon`) and the sweeper's (`startSweeping`), and sets and cancels those of the activity
callbacks (`didAllocate`, `willCollect`). It does so while the VM is registered with the Manager.

**Marking.** An object graph (`field`, `roots`), cell states, marks, the three mark stacks,
and the mutator's barrier cut at its reads, stores and fences: store, load the cell state
against the threshold, fence, load again, compare-and-swap to white or grey, append. A
visitor pops a cell, blackens it, and reads its fields one at a time. The fixpoint repeats
the conservative scan and the merging of the mutator's stacks until nothing is new. Eden
collections keep marks and cell states; full ones clear them; a sweep frees what is not
marked. A visitor that finds its cell changing under it puts it onto the race mark stack
(`didRace`), whatever of it has been scanned so far.

**ParallelMarking.** Stacks are sizes; the collector, the helpers and the mutator's
incremental drain take, donate and steal under `m_markingMutex` with the two counters,
time out, and run the parallel constraint task as a bonus. In the Concurrent phase the collector
either waits passively or, when the mutator is out of the heap for the moment, drains with the
helpers; the mutator may come back and do increments in both cases, and the world is stopped
between two increments. `m_numberOfWaitingParallelMarkers`
only divides what a visitor steals from the shared stacks; as in the code, it is not
decremented when a drain returns.

**Butterfly.** The mutator's operations are programs of single stores (nuke, store the
butterfly, set the last offset, store the structure ID, store the value), taken from the
code; the visitor reads structure ID, structure, last offset, butterfly, and then the first
two again. The object has no inline slots and no indexed elements. The fences of the
fenced build (or x86) are assumed.

**Periphery.** One flag and one lock per visitor; reading `worldIsStopped()` and writing the
flag are two steps, since the variables are plain. `resumeThePeriphery` ends by waiting for the
locks of the visitors left over one at a time, so only one visitor's `safepoint` finds somebody
parked.

**MarkedBlock.** One block's bits and versions, its directory's bits, and the local allocator
that may have it as its current block. `cell` and `held` are the objects that exist and
that the mutator holds. A collection is: stop allocating, begin marking (which advances the
version and may wrap, `LastVersion` standing for the last one), `aboutToMark` and marks by
visitors while the mutator allocates, end marking (retire, update the directory's bits),
sweep or steal or free. `needsDestruction` (whether the cells have destructors) and `forgets`
(whether retiring may miss the block) are chosen by `Init`; a steal moves an empty block to a
directory that may have other attributes, so it chooses `needsDestruction` again.

**GCDeferral.** The C++ stack of scopes with the mutator's state each of them saved, the
deferral depth, and the notes that a collection is due. An allocation is a scope of its own
(`AllocatingScope`) in which blocks may be swept and a collection may be looked for; its
RELEASE_ASSERTs on the mutator's state are conjuncts of what is checked and proved
(`AllocatingScopeAsserts`). Finalizers, which sweep too, run where `stopIfNecessarySlow` runs them;
that some are due is a free choice here, since the bit that says so is a part of `HeapConductor`.

**JSCJS.** A heap of reusable addresses, the static `CString` of each function, and what
the embedder kept. A text is what it says; bytecode is a sequence of signed chars and its
hexadecimal form is computed the way `bytecodeToStr` and `strToBytecode` do.

**Mutex, ParkingQueues, CollectionService** are specifications of what the code promises
and model no lines of their own.

## Refinements

| Detailed | Abstract | Mapping |
|---|---|---|
| `LockAlgorithm`, `CountingLock` | `Mutex` | the owner is the thread that wrote the held bit, or the sleeping thread to which `unlockSlow` handed the lock; the waiting threads are those inside `lockSlow` |
| `WordLock` | `Mutex` | the owner is past its CAS of the locked bit and before the store that clears it |
| `ParkingLot` | `ParkingQueues` | the queue of an address is the subsequence of its bucket's queue, in the current table |
| `HeapConductor` | `CollectionService` | requests and tickets as they are; the stage is read off `m_worldIsStopped`, the scope and the phase; finalizers are due from `needFinalizeBit` until `finalize()` has returned |

`LocksExclude` (`Lock`, `CountingLock` with its reads, `WordLock`), `ImplementsQueues` and
`ImplementsService` check that every step is an abstract step or a
stutter; `LockIsMutex`, `WordLockIsMutex` and `ConductorServes` prove it of `LockAlgorithm`, in both
its forms, of `WordLock` and of `HeapConductor` (Proofs).
`WaitersProceed` also checks the abstract fairness: a lock
does not stay free while somebody waits for it.

## Runs

Distinct states in brackets.

| Run | Module | Configuration | What it shows |
|---|---|---|---|
| `conductor` (1,773,202) | `MCHeapConductor` | `MCHeapConductor.cfg` | The whole protocol with a concurrent collector, the `collectContinuously` thread, its shutdown and two tickets: exclusion, stop-the-world, finalization order, tickets, wake-ups, no deadlock, and that all this implements `CollectionService`. |
| `liveness` (84,122) | `MCLiveness` | `MCLiveness.cfg` | That collections come to an end. In the single-threaded wasm build the mutator alone carries each one through before the call that asked for it returns; with a concurrent collector, under fair scheduling, tickets are served, waits, `preventCollection` and shutdown end, and finalizers run. |
| `parking_lot` (682,350) | `MCParkingLot` | `MCParkingLot.cfg` | The hashtable grows and is rehashed under parks, time-outs and unparks, of two addresses that collide and of three parkers of one address: first in first out, nobody stranded in an old table, no deadlock among bucket locks. |
| `synchronization` (715,375) | `MCSynchronization` | `MCSynchronization.cfg` | Safety of `CountingLock` and `LockAlgorithm`, `WordLock`, `Condition`, `ReadWriteLock`, `WorkerPool` and `ParallelHelperPool` (with `AutomaticThread`). |
| `progress` (33,777) | `MCProgress` | `MCProgress.cfg` | Liveness of the same components and of `JSLock` and `JSRunLoopTimer`, on smaller instances. |
| `embedding` (524,304) | `MCEmbedding` | `MCEmbedding.cfg` | Safety of `JSLock`, `JSRunLoopTimer` and `JSCJS`. |
| `marking` (2,961,352) | `MCMarking` | `MCMarking.cfg` | Safety of `Marking` and of `MarkedBlock`, the latter with destructors, and without them and with a racy mark count. |
| `visitors` (322,749) | `MCVisitors` | `MCVisitors.cfg` | Safety and liveness of `ParallelMarking`, `Butterfly` (without and with flattening) and `Periphery` (without and with its option), safety of `GCDeferral`. |

The runs `stolen_conn`, `prevented`, `torn_scan` and `jscjs_error` end with a counterexample to
what a comment or a caller says; see Findings. `synchronization`, `progress`, `visitors` and
`torn_scan` do not check for deadlock, since the threads of these instances may stop: a pool that
is destroyed, marking that is over.

What the properties say is in the comment before each of them. Those of the conductor:

* `CrashOnlyByRace`: no RELEASE_ASSERT of the protocol fails, except after the race
  described under Findings.
* `OneConductor`: the two threads never both conduct, and each conducts only with the
  conn on its side.
* `WorldStopIsReal`: while `m_worldIsStopped`, the mutator has no access unless it
  conducts.
* `FinalizedBeforeNextCycle`: no collection begins before the finalizers of the last one
  have returned. (`waitWhileNeedFinalize` alone does not ensure this: the bit is cleared
  before `finalize()` runs.)
* `ServesItsRequest`: tickets and queue agree, and a collection serves the request it
  began with.
* `ParkedMutatorIsExpected`: a mutator parked in `waitForCollector` has its waiting bit
  set, or the unpark is on its way.
* `CollectsAlone`: the single-threaded build. The collector thread is never needed, and a
  collection is over when the call that asked for it returns.
  `collectAsync` on its own is not among the calls there: it returns with the ticket open,
  and the next `stopIfNecessary` serves it.
* `TicketsAreServed`, `CallersReturn`, `FinalizersComeToRun`: liveness, of the build with a
  concurrent collector (`EveryTicketIsServed`, `WaitersReturn`, `FinalizersRun` of the component).

The safety properties are conditional on `~raced`, a history variable that becomes true
when `requestCollection` takes the conn while the collector thread is inside
`runCurrentPhase`: after that step the code's own assumption is broken.

The MC module of a run with several components states one property per question and builds it
from the components' own: `BlockIsSound`, for instance, is the conjunction of `MarkedBlock`'s
`ReachableIsLive`, `LiveIsSound`, `FreeListIsDead`, `EmptyIsEmpty` and `AssertsHold`, and each
component's type invariant is a conjunct of one of them. Four of these parts hold only under a
restriction, which is part of how they are stated:

* `ReachableIsLive` is checked where every block that is full of marks is retired. The code says
  of retiring that the algorithm "is racy and may forget to do it sometimes"; a full block that
  was forgotten is swept to a free list and given back at once (`tryAllocateIn`,
  `unsweepWithNoNewlyAllocated`), its newly-allocated bits are gone, and during concurrent
  marking with them the liveness of the cells not marked yet. The other properties of the block,
  its assertions included, hold for a forgotten block too.
* `LiveIsSound` is checked up to the last version before the wrap (`Wraps = FALSE`). After it, a
  block in which the wrapping collection marks nothing keeps its marks under the null version,
  and a later full collection takes them for marks of the last one. It takes about 2^32 full
  collections.
* `NoTornScan` is checked without flattening (`flattens`, which `Init` chooses). While a
  dictionary is flattened, double collect can pair a last offset with a butterfly of another
  capacity: run `torn_scan`, see Findings. `ScannedOrPending`, that the object is scanned again
  afterwards, holds with flattening too, but does not undo a torn scan.
* `BelieversAreRight` is checked with the default options (`optimizeParallel`, which `Init`
  chooses, is the option `optimizeParallelSlotVisitorsForStoppedMutator`). With that option a
  helper that has read `worldIsStopped()` and not yet written its flag is passed over by
  `resumeThePeriphery`.

The properties of the other modules that carry the most, by the names they have there:

* `NoLiveCellIsFreed` with `RememberedSetIsComplete`: whatever the mutator stores while
  visitors scan, no reachable cell is swept, and between collections every old cell that
  points to a young one is remembered. `FullCollectionIsComplete` is the converse: the
  barrier does not keep garbage of the last cycle alive.
* `TerminationIsReal`: the collector decides from its own stack and the shared ones, with
  the world stopped, that marking is over, and no helper holds a cell then.
* `ScannedOrPending`: a scan that raced with a change of shape is repeated.
* `ReachableIsLive`, `LiveIsSound`, `FreeListIsDead`: the two sets of bits of a block,
  with their versions, never hide a held object from the conservative scan, never show a
  dead one, and never hand out a cell twice.
* `UnparkIsExact` and `ImplementsQueues`: growing the hashtable loses no thread.
* `NoUseAfterScope`: `WordLock` touches a node on another thread's stack only while it is
  in scope.
* `RegrabIsLIFO` and `GrabReturns`: `DropAllLocks` of several threads are undone in reverse
  order, and each of them is undone.
* `DeferredWorkIsRemembered`: a collection that was put off is not forgotten.

### Bounds

* `HeapConductor`: `MaxTickets` bounds the requests of a behaviour: two let one be granted while
  another is being collected, and let one subsume another; the wasm part of `liveness` has three.
  `MaxReloops` bounds Concurrent phases in one collection: with one, both ways out of Fixpoint and
  the return through Reloop occur. The two requests of `MCHeapConductor` subsume one another in
  one direction. The other part of that run has one ticket, which is enough for the mutator and the
  collector to hand the conn over in both directions during a collection.
* Locks: three threads (an owner, a sleeper and one that barges), four for `WordLock` (so
  that a node is in the middle of the queue), `SpinLimit` 1. `CountModulus` 3 and
  `ByteModulus` 2 stand for 2^30 and the counts that fit in a byte: the count wraps and is
  truncated within a run. `LockReturns` needs two threads, the one that waits and the one
  that relocks at once.
* `ParkingLot`: two addresses that collide in tables of one and two slots and not in
  three, so that both a shared bucket and a split by rehashing occur; in the second
  instance one address with three parkers, for the order. `MaxBuckets` 3 bounds the growth
  to the tables of 1, 2 and 3 threads.
* `Condition`: two consumers, one with time-outs, two producers, two items.
  `ReadWriteLock`: three readers and two writers. `WorkerPool`: three threads and five tasks.
  `ParallelHelperPool`: two threads, two clients with two tasks each. In `progress`: a producer
  less, a reader less, two pool threads, three tasks and one task for each client.
* `JSLock`: two threads open up to three scopes each, enough for a drop inside a lock
  inside a drop; two in `progress`. `JSRunLoopTimer`: three timers (the loop over the vector
  swaps and removes) and times 0 to 2; two timers in `progress`.
* `Marking`: two cells, one field, two visitors, with symmetry; a chain, a cycle, a store
  into a scanned cell and a race of two visitors for a cell all occur. `ParallelMarking`: two
  helpers, three cells, two time-outs.
* `Butterfly`: objects of 0, 4 and 5 slots (nothing, a full butterfly, the first growth),
  three operations (a property is removed, the dictionary that results is flattened, and another
  property is added), at most nine slots (the second growth).
* `Periphery`: two helpers, two stops. `MarkedBlock`: three cells (two for the racy count) and
  versions up to 5, which lets the versions advance three times. `GCDeferral`: five frames.
  `JSCJS`: four addresses, programs that end well, throw and do not parse, and bytecode
  with chars of both signs.

### Fairness

`HeapConductor`. Weak fairness on a begun call of the mutator, on the collector thread, on
the continuous thread and on time: a thread that is not parked keeps running. On the timer:
the run loop fires a scheduled timer when the mutator is out of the heap. On polling
(`PollProgress`): running JavaScript calls `stopIfNecessary` on its allocation slow
paths, and nothing makes a mutator that never allocates give way, which the code relies
on too. No fairness is assumed for requests, releasing access, or shutdown.

`EveryTicketIsServed` and `WaitersReturn` assume that the conn does not bounce back
forever (`Bounced`): `waitForCollector` may relinquish a conn it was given to stop the
world, before it has done so. The comment in `runCurrentPhase` describes this and accepts
it: "A mischevious mutator could repeatedly relinquish the conn back to us. We try to
avoid doing this, but it's probably not the end of the world if it did happen."

Everywhere else (`MCProgress`, `MCVisitors`) a thread inside a call keeps running (weak
fairness), critical sections end, and nothing makes a thread begin a call. Strong fairness is
used in three places (`Gets` of `MCProgress`):

* `WordLock`: a weak compare-and-swap on a free lock does not fail for no reason forever.
* `LockAlgorithm`: the window between setting the parked bit and enqueueing is not lost to the
  owner every time, and time passes `nextFairTime` (weak fairness of the clock). The former is
  what a thread on another core gets in practice, and `Lock.h` promises only "eventual
  stochastic fairness".
* `Condition`, `JSLock`, `JSRunLoopTimer`: a thread that keeps asking for a lock gets it, which
  is `LockReturns`. For the timer also: whoever holds the API lock gives it back.

Since only one component runs in a behaviour of these two modules, the steps of a thread number
are fair as one action, whichever component the thread belongs to.

## Findings

* `stolen_conn`. `requestCollection` takes the conn when every ticket is served and the
  current phase is NotRunning; its comment says "That only works if the collector is
  definitely not running right now." At the end of a collection the collector thread has
  served the ticket, resumed the mutator and stored NotRunning, but is still in its loop
  and will call `runCurrentPhase` again. If the mutator requests a collection then, the
  collector thread's `checkConn` assertion fails. It needs a collector thread, so the
  single-threaded build is not affected (`CollectsAlone`, checked and proved for it).
* `prevented`. The `collectContinuously` thread appends its request under `m_threadLock`
  and takes `m_collectContinuouslyLock` only afterwards. `preventCollection`, which holds
  the latter, can return and then see one more request.
* `torn_scan`. The comment of `visitButterflyImpl` requires of the mutator that it nukes the
  structure ID, stores the butterfly, then the last offset, then the new ID, and concludes that "the
  collector will never see any torn structure/butterfly mix." `flattenDictionaryStructure` stores
  the last offset before the butterfly, and puts the same ID back. A visitor that reads the ID
  before the nuke, then the new last offset and the old butterfly, and makes its late checks after
  the flattening is over, accepts the old butterfly at the new capacity. It marks an auxiliary cell
  computed from the wrong base; that the barrier at the end has the object scanned again does not
  repair that. It takes a concurrent collector and a dictionary whose capacity shrinks, so the
  single-threaded build is not affected.
* `jscjs_error`. On a syntax error `jsc_eval` and `jsc_compile` return a pointer into a
  temporary string that is destroyed with the return statement.

## Proofs

A theorem holds for every value of the constants that satisfies the assumption named with it:
any number of threads, helpers, cells or requests, any bound on the tickets or versions.

| Module | Theorem | States | Assumptions and hypotheses |
|---|---|---|---|
| `HeapConductorProofs` | `TypeCorrect` | `TypeOK` | `ConductorAssumption` (types of the constants) |
| | `ConnIsExclusive` | `OneConductor` | as above |
| | `StopTheWorld` | `WorldStopIsReal` | as above |
| | `TicketsInOrder` | `ServesItsRequest` | as above |
| | `FinalizersFirst` | `FinalizedBeforeNextCycle` | as above |
| `HeapConductorAsserts` | `WakeUpsArrive` | `ParkedMutatorIsExpected` | as above |
| | `AssertsFailOnlyByRace` | `CrashOnlyByRace` | threads can be created; `preventCollection` is not called while a `collectContinuously` thread runs |
| | `MutatorCollectsAlone` | `CollectsAlone` | `SingleThreaded`: no concurrent collector, no `collectContinuously`, no `collectAsync` on its own |
| | `ConductorServes` | `ImplementsService` | `ConductorAssumption` |
| `LockProofs` | `NoWakeUpIsLost`, `ReadersLoseNoWakeUp` | `NoLostWakeUp` | `LockAssumption` (types of the constants) |
| | `LockIsMutex` | `ImplementsMutex` | as above |
| | `ValidatedReads` | `ValidatedReadIsClean` | as above |
| | `LockAssertions` | `AssertionsHold` | as above |
| `WaitingProofs` | `WaitersNotified` | `WaitersAreNotified` (`Condition`, `ReadWriteLock`) | `WaitingAssumption` (each caller has one role, the readers and writers are finitely many, the bounds are numbers) |
| | `WordQueueSound` | `WordLockQueueIsSound` | as above |
| | `WordLockIsMutex` | `ImplementsMutex` of `WordLock`, a part of `LocksExclude` | as above |
| `PoolProofs` | `PoolsQuiet` | `PoolsAreQuiet` (`WorkerPool`, `ParallelHelperPool`) | `PoolsAssumption` (there is a thread, the clients are finitely many, the bounds are numbers, no task is the null task) |
| `MarkingProofs` | `LiveCellsSurvive` | `NoLiveCellIsFreed` | `MarkingAssumption` (the null pointer is no cell) |
| | `RememberedSetComplete` | `RememberedSetIsComplete` | as above |
| | `MarkingAsserts` | `AssertsHold` | as above |
| | `FullCollectionComplete` | `FullCollectionIsComplete` | as above |
| | `BlocksAreSound` | `BlockIsSound` | `BlockAssumption` (types of the constants); up to the last version before the wrap |
| `VisitorProofs` | `TerminationHolds` | `TerminationIsReal` | `MarkersAssumption` (the visitors are distinct, the helpers finitely many, the bounds numbers) |
| | `StealsFindWork` | `StealFindsWork`, a part of `VisitorsReturn` | as above |
| | `ResumedIsBelieved` | `BelieversAreRight` | as above |
| | `DeferralHolds` | `DeferralIsKept` | `DeferralAssumption` (the bound on the frames is a number) |
| `RuntimeProofs` | `ObjectScanned` | `ObjectIsScanned` | `ObjectAssumption` (types of the constants; a positive size has a positive capacity) |
| | `ReadableResults` | `ResultsStayReadable` | `JSCJSAssumption` (types of the constants), `BadStringsAssumption` (the strings that are not bytecode do not decode to some program's) |
| | `BytecodeRuns` | `BytecodeRunsItsProgram` | as above |
| | `RoundTrip` | `strToBytecode(bytecodeToStr(b))` is `b` | none: bytecode of any length |

The hypotheses of the theorems about assertions are not technical. Where threads cannot be
created, a collector thread that is needed cannot be started; and `preventCollection` holds off
the `collectContinuously` thread only after that thread may have made its request (Findings,
`prevented`), so that the assertion behind it depends on the two not being used together.

### The inductive invariants

**HeapConductor.** `WorldStopIsReal` is not inductive: it says nothing of the moment before
`m_worldIsStopped` is set. `StopInv` adds that the stopped bit excludes access, that it is
set when the collector reaches `stopThePeriphery` and stays set while the collector
conducts a stopped world, that `m_worldIsStopped` holds only in phases for which the world
should be suspended (so that a mutator that leaves `collectInMutatorThread`, which it does
in NotRunning or Concurrent, leaves a running world), and which of the two phases is which
while `finishChangingPhase` is under way. `ServesInv` adds that the queue is popped only
when no collection is under way.

`FinalizedBeforeNextCycle` needs more (`FinalizeInv`): the order of the phases (`PhaseInv`),
that finalizers run only with heap access (`AccessInv`), and, from `StopInv`, that the collector
thread enters Begin only without the mutator having access. Together they show that
finalizers are left to run only between `setNeedFinalize` and the next suspension, which
either waits for them or finds the mutator out of the heap.

The assertions need four more: that a collection has its scope, scheduler and request from
Begin to End (`CycleInv`); that the world stays stopped for a phase that needs it, and the conn
is given only to a mutator with access (`WorldInv`); that the waiting bit is set only inside
`waitForCollector` (`WaitInv`); and the order in which `lastChanceToFinalize` ends the threads
(`ShutdownInv`). `AloneInv` is what remains of all this when the mutator collects alone.
The refinement adds that the finalizers are due before the world resumes after the last phase
(`DueInv`) and that `waitForCollection` returns only when its ticket is served (`ReturnInv`);
every action is then shown to be a step of `CollectionService` or a stutter.

**Locks.** The invariants of the lock need one another: the parked bit covers the queue because
only the owner clears it, there is one owner because a sleeper that was handed the lock is not
woken for anything else, and that is because whoever dequeued it is the only one to signal it.
`ReadInv` follows the count during an optimistic read, up to its modulus: `ValidatedReadIsClean`
itself excepts the read during which the count came round.

**WordLock.** `WordQueue` says that what the head reaches is the set of the sleeping threads that
nobody is waking, and that the head's `queueTail` is its end. Following the pointers is an
induction; `IsQueue` avoids it by saying that the set is the least one that holds the head and is
closed under `nextInQueue`, and that no two of its threads have the same successor. `WordTargets`
is about the thread that is being woken: it is out of the queue and cannot leave its scope before
the last access to its `ThreadData`.

**Condition, ReadWriteLock.** `COwed` relates what a notify still has to wake to the queue; the rest
of `Condition` is inductive with it. The counters of `ReadWriteLock` are cardinalities (`Counts`),
and if somebody sleeps while nobody is in, a writer has been woken (`WriterWoken`).

**Pools.** `Backlog` says that the tasks posted first have been taken, that the queue holds the
others in order and then one null task for each worker that still runs; `Assigned` that a task is
done or in one worker's hands. For the helper pool `HelpersInv` counts who runs a client's task, and
`TasksInv` says that only the last task of a client that has not returned from `finish()` is run.

**Marking.** The invariant is the wavefront: a grey cell is on a stack or in a visitor's hands
(`GreyIsPending`), and a pointer from a black cell to a white one is in a visitor's hands, or its
store has yet to run the barrier (`WhiteIsExpected`). That needs where the barrier may be when
the world stops (`Barrier`) and what a visitor holds (`Scans`). `Garbage` says that what a full
collection found unreachable at its beginning is not marked.

**MarkedBlock.** Which of the two sets of bits describes the block depends on versions, phase
and allocator, and changes when nobody touches the block. `Sound` says that every set of bits
that may still be consulted holds objects only, `Complete` that the one consulted now holds all
of them, `Versioned` that an outdated version is an older one (which is where bound on the
versions is used).

**ParallelMarking.** The collector sees two counters and the shared stacks; that no helper holds a
cell then follows from `Counted` (the first counter is the number of active visitors, the second
at least that of the waiting ones), `Held` (a helper holds cells only while active, the mutator
only in an increment), `World` (increments are done only while the world runs) and `Tasks` (the
constraint task does not run in a drained heap without having the fixpoint repeated).
`StealsFindWork` is an action property: a visitor that leaves its wait to scan has stolen a cell,
which rests on the second counter never being too small.

**Periphery.** While `stopThePeriphery` and `resumeThePeriphery` go through the visitors the
conducting thread does not drain, so the flag and the value its visitor is about to write agree
with `m_worldIsStopped` otherwise (`PeripheryInv`).

**GCDeferral.** `StackInv` relates each scope to the whole stack: the state it saved is that of the
scope below, the deferral depth is the number of deferring scopes, nothing is deferred below a
collection, and only deferring scopes and calls that return at once are above one. An allocation
begins only where the mutator's state is Running, and what is above it leaves its state as it was.
`Kept` says where a collection that was put off is noted.

**Butterfly.** `OrderInv` is the order of the stores an operation still has to do: the barrier is
last, and what un-nukes the structure comes after everything it publishes. `FitInv` says what the
object will be when they are done, and that the storage fits the structure then. Where nothing is
flattened, a butterfly is replaced only under a nuked structure, and before that structure is
un-nuked it changes or its last offset grows (`GrowthInv`). Hence `SnapshotInv`: if structure and
last offset are still what the visitor read, so is the butterfly, or one of the two is about to
change. `ColorInv` follows what the visit has read of an object that no operation touches.

**JSCJS.** The three static buffers are different live blocks (`BuffersAreApart`), and what the page
keeps is jsc_compile's buffer with the bytecode of a program in it (`KeptIsBytecode`).

The invariants were also checked with TLC, on the instances of the runs, before they were proved.

### Only model-checked

* Liveness (the properties of `liveness` but for `CollectsAlone`, the properties of `progress`,
  `VisitorsReturn` but for its step property): fairness and ENABLED are beyond the prover.
* `ParkingLot` (`UnparkIsExact`, `ResizeIsSafe`, `ImplementsQueues`): rehashing folds over the
  buckets, and what a fold computes is an induction over data. `StacksAreBounded` of
  `ParallelMarking` bounds a sum over the visitors, for the same reason.
* `JSRunLoopTimer` (`TimersAreSound`): its loop over the timers is a recursive operator.
* `JSLock` (`InsideMeansReady`): not proved so far.
* That the capacity of a positive size is positive (`ButterflyAssumption`): the code doubles a
  capacity until it is large enough, and that it ends is an induction over the sizes. TLC evaluates
  it for the sizes of the run.

## Not modelled

* The JavaScript language: parser, bytecode generator, interpreter, runtime library. It is
  sequential, its inputs are programs, and a bounded model says little that a conformance test
  does not. The JIT tiers are compiled out of this build (`ENABLE_JIT` is off), ICU is a
  third-party library of tables, and the platform stubs have no state.
* Of the heap: the arithmetic of `updateAllocationLimits` and of the space-time scheduler (the
  choices they make are free in the models), large allocations, weak sets and their
  constraints, code-block and outgrowth constraints, the barriers on executing code blocks,
  and the choice among several blocks of a directory. `gcDidJITBit` is left out with the JIT.
* Of the object layout: indexed storage with its cell lock, and the unfenced build on weakly
  ordered machines; memory is sequentially consistent in every module, and where the code has
  fences instead of stronger accesses each fenced access is a step of its own.
* Of the timers: the CoreFoundation and GLib variants, which this build does not use.
* The composition of `HeapConductor` with `Marking` or `MarkedBlock` in one module: each takes
  the other's effect as a step (the world is stopped; marking is over), and the product of
  their states is beyond TLC.

----------------------------- MODULE MCProgress -----------------------------
(***************************************************************************)
(* Liveness of the locks, the pools, the API lock and the run-loop timers. *)
(* Each has a small instance of its own whose threads are numbers; Init    *)
(* chooses the instance that runs, and the variables of the others keep    *)
(* their values.  Fairness is per thread, whatever instance the thread     *)
(* belongs to.                                                             *)
(***************************************************************************)
EXTENDS Naturals

VARIABLES
    part,
    lWord, lQueue, lFairTime, lAddress, lToken, lPc, lSpinCount, lExpected, lFairness,
    lRelock, lUnparked,
    wWord, wNode, wAlive, wParkingLock, wPc, wSpinCount, wOldHead,
    cHasWaiters, cQueue, cOwner, cItems, cPc, cOwed,
    rIsWriteLocked, rNumReaders, rNumWaitingWriters, rPc,
    oCreated, oIsRunning, oIsWaiting, oHasUnderlyingThread, oAt, oTasks, oTask,
    oNumberOfActiveWorkers, oSleptBefore, oOwner, oPosted, oDone,
    hCreated, hIsRunning, hIsWaiting, hHasUnderlyingThread, hAt, hClients, hNumThreads,
    hIsDying, hClientTask, hNumActive, hPc, hTasksSet, hHelping, hPoolState,
    jMutex, jOwnerThread, jHasOwnerThread, jLockCount, jLockDropDepth, jVm, jEmbedderRef,
    jStackPointer, jHeapAccess, jShouldRelease, jTable, jEntryTable, jSaved, jStack, jOpens,
    jPc,
    tNow, tTimers, tArmed, tRegistered, tVm, tIsScheduled, tApiLock, tToFire, tPc

lVars == <<lWord, lQueue, lFairTime, lAddress, lToken, lPc, lSpinCount, lExpected,
           lFairness, lRelock, lUnparked>>
wVars == <<wWord, wNode, wAlive, wParkingLock, wPc, wSpinCount, wOldHead>>
cVars == <<cHasWaiters, cQueue, cOwner, cItems, cPc, cOwed>>
rVars == <<rIsWriteLocked, rNumReaders, rNumWaitingWriters, rPc>>
oVars == <<oCreated, oIsRunning, oIsWaiting, oHasUnderlyingThread, oAt, oTasks, oTask,
           oNumberOfActiveWorkers, oSleptBefore, oOwner, oPosted, oDone>>
hVars == <<hCreated, hIsRunning, hIsWaiting, hHasUnderlyingThread, hAt, hClients,
           hNumThreads, hIsDying, hClientTask, hNumActive, hPc, hTasksSet, hHelping,
           hPoolState>>
jVars == <<jMutex, jOwnerThread, jHasOwnerThread, jLockCount, jLockDropDepth, jVm,
           jEmbedderRef, jStackPointer, jHeapAccess, jShouldRelease, jTable, jEntryTable,
           jSaved, jStack, jOpens, jPc>>
tVars == <<tNow, tTimers, tArmed, tRegistered, tVm, tIsScheduled, tApiLock, tToFire, tPc>>
mcVars == <<part, lVars, wVars, cVars, rVars, oVars, hVars, jVars, tVars>>

L == INSTANCE LockAlgorithm WITH
       Threads <- 1 .. 2, NoThread <- 0, SpinLimit <- 1, AssumingZero <- TRUE,
       CountModulus <- 1, ByteModulus <- 64, Collisions <- FALSE,
       word <- lWord, queue <- lQueue, fairTime <- lFairTime, address <- lAddress,
       token <- lToken, pc <- lPc, spinCount <- lSpinCount, expected <- lExpected,
       fairness <- lFairness, relock <- lRelock, unparked <- lUnparked
W == INSTANCE WordLock WITH
       Threads <- 1 .. 3, NoThread <- 0, SpinLimit <- 1,
       word <- wWord, node <- wNode, alive <- wAlive, parkingLock <- wParkingLock,
       pc <- wPc, spinCount <- wSpinCount, oldHead <- wOldHead
C == INSTANCE Condition WITH
       Consumers <- 1 .. 2, Producers <- {3}, NoThread <- 0, Timeouts <- {1},
       Notifies <- {"notifyOne", "notifyAll"}, Collisions <- TRUE, MaxItems <- 1,
       hasWaiters <- cHasWaiters, queue <- cQueue, owner <- cOwner, items <- cItems,
       pc <- cPc, owed <- cOwed
R == INSTANCE ReadWriteLock WITH
       Readers <- 1 .. 2, Writers <- 3 .. 4,
       isWriteLocked <- rIsWriteLocked, numReaders <- rNumReaders,
       numWaitingWriters <- rNumWaitingWriters, pc <- rPc
O == INSTANCE WorkerPool WITH
       MaxThreads <- 2, CanTimeOut <- TRUE, Tasks <- 3, Null <- 0,
       created <- oCreated, isRunning <- oIsRunning, isWaiting <- oIsWaiting,
       hasUnderlyingThread <- oHasUnderlyingThread, at <- oAt, tasks <- oTasks,
       task <- oTask, numberOfActiveWorkers <- oNumberOfActiveWorkers,
       sleptBefore <- oSleptBefore, owner <- oOwner, posted <- oPosted, done <- oDone
H == INSTANCE ParallelHelperPool WITH
       MaxThreads <- 2, CanTimeOut <- TRUE, Clients <- 3 .. 4, NoClient <- 0, MaxTasks <- 1,
       created <- hCreated, isRunning <- hIsRunning, isWaiting <- hIsWaiting,
       hasUnderlyingThread <- hHasUnderlyingThread, at <- hAt, clients <- hClients,
       numThreads <- hNumThreads, isDying <- hIsDying, clientTask <- hClientTask,
       numActive <- hNumActive, pc <- hPc, tasksSet <- hTasksSet, helping <- hHelping,
       poolState <- hPoolState
J == INSTANCE JSLock WITH
       Threads <- 1 .. 2, NoThread <- 0, MaxOpens <- 2,
       mutex <- jMutex, ownerThread <- jOwnerThread, hasOwnerThread <- jHasOwnerThread,
       lockCount <- jLockCount, lockDropDepth <- jLockDropDepth, vm <- jVm,
       embedderRef <- jEmbedderRef, stackPointer <- jStackPointer,
       heapAccess <- jHeapAccess, shouldRelease <- jShouldRelease, table <- jTable,
       entryTable <- jEntryTable, saved <- jSaved, stack <- jStack, opens <- jOpens,
       pc <- jPc
T == INSTANCE JSRunLoopTimer WITH
       Timers <- 1 .. 2, MaxTime <- 2,
       now <- tNow, timers <- tTimers, armed <- tArmed, registered <- tRegistered,
       vm <- tVm, isScheduled <- tIsScheduled, apiLock <- tApiLock, toFire <- tToFire,
       pc <- tPc

ASSUME InstanceAssumptions ==
    /\ W!WordLockAssumption /\ C!ConditionAssumption /\ R!ReadWriteLockAssumption
    /\ O!WorkerPoolAssumption /\ H!HelperPoolAssumption
    /\ J!JSLockAssumption /\ T!TimerAssumption

MCInit ==
    /\ part \in {"Lock", "WordLock", "Condition", "ReadWriteLock", "WorkerPool", "HelperPool", "JSLock", "Timer"}
    /\ L!Init /\ W!Init /\ C!Init /\ R!Init /\ O!Init /\ H!Init /\ J!Init /\ T!Init
    /\ part = "JSLock" \/ jHeapAccess

\* A step of the instance that runs.
OnLock(A) ==
    part = "Lock" /\ A /\ UNCHANGED <<part, wVars, cVars, rVars, oVars, hVars, jVars, tVars>>
OnWordLock(A) ==
    part = "WordLock" /\ A /\ UNCHANGED <<part, lVars, cVars, rVars, oVars, hVars, jVars, tVars>>
OnCondition(A) ==
    part = "Condition" /\ A /\ UNCHANGED <<part, lVars, wVars, rVars, oVars, hVars, jVars, tVars>>
OnReadWriteLock(A) ==
    part = "ReadWriteLock" /\ A /\ UNCHANGED <<part, lVars, wVars, cVars, oVars, hVars, jVars, tVars>>
OnWorkerPool(A) ==
    part = "WorkerPool" /\ A /\ UNCHANGED <<part, lVars, wVars, cVars, rVars, hVars, jVars, tVars>>
OnHelperPool(A) ==
    part = "HelperPool" /\ A /\ UNCHANGED <<part, lVars, wVars, cVars, rVars, oVars, jVars, tVars>>
OnJSLock(A) ==
    part = "JSLock" /\ A /\ UNCHANGED <<part, lVars, wVars, cVars, rVars, oVars, hVars, tVars>>
OnTimer(A) ==
    part = "Timer" /\ A /\ UNCHANGED <<part, lVars, wVars, cVars, rVars, oVars, hVars, jVars>>

MCNext ==
    \/ OnLock(L!Next)
    \/ OnWordLock(W!Next)
    \/ OnCondition(C!Next)
    \/ OnReadWriteLock(R!Next)
    \/ OnWorkerPool(O!Next)
    \/ OnHelperPool(H!Next)
    \/ OnJSLock(J!Next)
    \/ OnTimer(T!Next)

\* A thread that is inside a call keeps running, critical sections end, and the
\* underlying threads of AutomaticThreads are scheduled.  Nothing makes a thread
\* call.  Thread 3 of Lock is the clock that brings nextFairTime; those of the
\* run loop are the loop, the clock and the mutator in ~VM.
Runs(i) ==
    \/ OnLock(i \in 1 .. 2 /\ (L!Progress(i) \/ L!Unlock(i)))
    \/ OnLock(i = 3 /\ L!tick)
    \/ OnWordLock(i \in 1 .. 3 /\ (W!Progress(i) \/ W!unlock(i)))
    \/ OnCondition(i \in 1 .. 3 /\ C!Step(i))
    \/ OnReadWriteLock(i \in 1 .. 4 /\ rPc[i] = "woken" /\ (R!readLock(i) \/ R!writeLock(i)))
    \/ OnReadWriteLock(i \in 1 .. 4 /\ (R!readUnlock(i) \/ R!writeUnlock(i)))
    \/ OnWorkerPool(i \in 1 .. 2 /\ O!Worker(i))
    \/ OnWorkerPool(i = 5 /\ O!join)
    \/ OnHelperPool(i \in 1 .. 2 /\ H!Worker(i))
    \/ OnHelperPool(i \in 3 .. 4 /\ (H!helped(i) \/ H!finished(i)))
    \/ OnHelperPool(i = 5 /\ H!join)
    \/ OnJSLock(i \in 1 .. 2 /\ (J!Internal(i) \/ J!Return(i)))
    \/ OnTimer(i = 1 /\ T!Loop)
    \/ OnTimer(i = 2 /\ T!tick)
    \/ OnTimer(i = 3 /\ T!unregisterVM)

\* What a thread gets if it is there for the taking again and again: the window
\* between setting the parked bit and enqueueing is not lost to the owner every
\* time, a weak CAS does not fail for no reason forever, and a thread that keeps
\* asking for a Lock gets it (LockReturns).
Gets(i) ==
    \/ OnLock(i \in 1 .. 2 /\ L!park(i) /\ lWord = lExpected[i])
    \/ OnWordLock(i \in 1 .. 3 /\ W!lockSlow(i) /\ ~wWord.locked /\ wWord'.locked)
    \/ OnCondition(i \in 1 .. 3 /\ C!lock(i))
    \/ OnJSLock(i \in 1 .. 2 /\ J!Acquire(i))
    \/ OnTimer(i = 1 /\ T!lockForWork)
    \/ OnTimer(i = 2 /\ T!unlockAPI)

MCSpec ==
    /\ MCInit /\ [][MCNext]_mcVars
    /\ \A i \in 1 .. 5 : WF_mcVars(Runs(i))
    /\ \A i \in 1 .. 3 : SF_mcVars(Gets(i))

----------------------------------------------------------------------------
(* Properties *)

\* Waiting ends.  A Lock or WordLock that is free while a thread is inside lock()
\* is acquired, whatever order parking and unparking happen in; an item and a
\* consumer that sleeps on the Condition do not stay as they are; the readers of a
\* ReadWriteLock do not keep the writers out.
WaitersProceed ==
    /\ L!ImplementsFairMutex /\ W!ImplementsFairMutex
    /\ C!ItemsAreConsumed /\ R!WriterGetsIn

\* Lock.h's eventual fairness: a thread that calls lock() gets the lock, even
\* when the other thread relocks at once.
LockReturns == \A i \in 1 .. 2 : lPc[i] = "lockSlow" ~> lPc[i] = "held"

\* The pools: every posted task runs, whatever threads time out meanwhile; a task
\* that is set is run even if its client never helps; finish() and both pools'
\* destructors return, although a worker may be timing out as they notify.
PoolsProgress ==
    /\ O!PostedTasksRun /\ O!DestructorReturns
    /\ H!PoolRunsTheTask /\ H!FinishReturns /\ H!DestructorReturns

\* JSLock and JSRunLoopTimer: every ~DropAllLocks returns, however many threads
\* wait for their turn, and a timer that is set leaves the Manager's vector, to
\* fire or by a cancel; Manager::timerDidFire takes off exactly what is due.
EmbeddingProgress == J!GrabReturns /\ T!TimersComeDue /\ T!FiresWhatIsDue
=============================================================================

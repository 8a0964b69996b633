---------------------------- MODULE MCEmbedding ----------------------------
(***************************************************************************)
(* What stands between the engine and the program that embeds it: the      *)
(* functions JSC.js exports, the API lock, and the run-loop timers of a    *)
(* VM.  Init chooses which of the three runs; the variables of the others  *)
(* keep their values.                                                      *)
(***************************************************************************)
EXTENDS MCJSCJS

CONSTANTS t1, t2, none, sweeper, collector, stopper

VARIABLES
    part,
    jMutex, jOwnerThread, jHasOwnerThread, jLockCount, jLockDropDepth, jVm, jEmbedderRef,
    jStackPointer, jHeapAccess, jShouldRelease, jTable, jEntryTable, jSaved, jStack, jOpens,
    jPc,
    tNow, tTimers, tArmed, tRegistered, tVm, tIsScheduled, tApiLock, tToFire, tPc

jVars == <<jMutex, jOwnerThread, jHasOwnerThread, jLockCount, jLockDropDepth, jVm,
           jEmbedderRef, jStackPointer, jHeapAccess, jShouldRelease, jTable, jEntryTable,
           jSaved, jStack, jOpens, jPc>>
tVars == <<tNow, tTimers, tArmed, tRegistered, tVm, tIsScheduled, tApiLock, tToFire, tPc>>
mcVars == <<part, vars, jVars, tVars>>

J == INSTANCE JSLock WITH
       Threads <- {t1, t2}, NoThread <- none, MaxOpens <- 3,
       mutex <- jMutex, ownerThread <- jOwnerThread, hasOwnerThread <- jHasOwnerThread,
       lockCount <- jLockCount, lockDropDepth <- jLockDropDepth, vm <- jVm,
       embedderRef <- jEmbedderRef, stackPointer <- jStackPointer,
       heapAccess <- jHeapAccess, shouldRelease <- jShouldRelease, table <- jTable,
       entryTable <- jEntryTable, saved <- jSaved, stack <- jStack, opens <- jOpens,
       pc <- jPc
T == INSTANCE JSRunLoopTimer WITH
       Timers <- {sweeper, collector, stopper}, MaxTime <- 2,
       now <- tNow, timers <- tTimers, armed <- tArmed, registered <- tRegistered,
       vm <- tVm, isScheduled <- tIsScheduled, apiLock <- tApiLock, toFire <- tToFire,
       pc <- tPc

ASSUME InstanceAssumptions == J!JSLockAssumption /\ T!TimerAssumption

MCInit == part \in {"JSCJS", "JSLock", "Timer"} /\ Init /\ J!Init /\ T!Init /\ (part = "JSLock" \/ jHeapAccess)

MCNext ==
    \/ part = "JSCJS" /\ Next /\ UNCHANGED <<part, jVars, tVars>>
    \/ part = "JSLock" /\ J!Next /\ UNCHANGED <<part, vars, tVars>>
    \/ part = "Timer" /\ T!Next /\ UNCHANGED <<part, vars, jVars>>

MCSpec == MCInit /\ [][MCNext]_mcVars

----------------------------------------------------------------------------
(* Properties *)

\* JSLock: a thread that runs inside its scopes has the lock exactly when they say
\* so, and then all that didAcquireLock() sets up; and the assertions of
\* didAcquireLock(), unlock() and grabAllLocks() hold.
InsideMeansReady == J!TypeOK /\ J!InsideMeansReady /\ J!AssertsHold

\* JSLock: locks are grabbed again in the reverse order of their dropping.
RegrabIsLIFO == J!RegrabIsLIFO

\* JSRunLoopTimer: between the Manager's critical sections the run loop's timer is
\* armed for the earliest entry, and no entry is lost or doubled; and doWork()
\* finds the VM alive, though ~VM may have run since the timer was picked to fire.
TimersAreSound == T!TypeOK /\ T!EarliestIsArmed /\ T!WorkFindsTheVM
=============================================================================

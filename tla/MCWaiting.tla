----------------------------- MODULE MCWaiting -----------------------------
(***************************************************************************)
(* The threads that wait for each other without an AutomaticThread: an     *)
(* instance each of WordLock, Condition and ReadWriteLock, with what the   *)
(* runs check of them.                                                     *)
(***************************************************************************)
CONSTANTS
    WordThreads, WordSpins, NoHolder,
    Consumers, Producers, Sleepers, Items,
    Readers, Writers

VARIABLES
    wWord, wNode, wAlive, wParkingLock, wPc, wSpinCount, wOldHead,
    cHasWaiters, cQueue, cOwner, cItems, cPc, cOwed,
    isWriteLocked, numReaders, numWaitingWriters, rwPc

wVars == <<wWord, wNode, wAlive, wParkingLock, wPc, wSpinCount, wOldHead>>
cVars == <<cHasWaiters, cQueue, cOwner, cItems, cPc, cOwed>>
rwVars == <<isWriteLocked, numReaders, numWaitingWriters, rwPc>>

W == INSTANCE WordLock WITH
       Threads <- WordThreads, NoThread <- NoHolder, SpinLimit <- WordSpins,
       word <- wWord, node <- wNode, alive <- wAlive, parkingLock <- wParkingLock,
       pc <- wPc, spinCount <- wSpinCount, oldHead <- wOldHead
C == INSTANCE Condition WITH
       NoThread <- NoHolder, Timeouts <- Sleepers,
       Notifies <- {"notifyOne", "notifyAll"}, Collisions <- TRUE, MaxItems <- Items,
       hasWaiters <- cHasWaiters, queue <- cQueue, owner <- cOwner,
       items <- cItems, pc <- cPc, owed <- cOwed
R == INSTANCE ReadWriteLock WITH pc <- rwPc

ASSUME WaitingAssumption ==
    W!WordLockAssumption /\ C!ConditionAssumption /\ R!ReadWriteLockAssumption

\* WordLock: whenever nobody works on the queue, it holds exactly the sleeping
\* threads that nobody is waking; unlockSlow, which works on a ThreadData on
\* another thread's stack after it has released the lock, is done with it before
\* the thread can leave the scope; and the asserts of lockSlow and unlockSlow hold.
WordLockQueueIsSound == W!QueueIsExact /\ W!NoUseAfterScope /\ W!AssertsHold

\* Condition and ReadWriteLock: m_hasWaiters is false with threads queued only
\* while a notifyAll is about to unpark them, a notify that returns has woken what
\* it owes, a sleeping reader or writer has somebody to wake it, and a writer is
\* alone.
WaitersAreNotified ==
    /\ C!FlagCoversWaiters /\ C!NotifyReachesWaiters
    /\ R!NoLostWakeUp /\ R!Exclusive
=============================================================================

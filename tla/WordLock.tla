------------------------------ MODULE WordLock ------------------------------
(***************************************************************************)
(* WordLock.h and WordLock.cpp: the lock below ParkingLot.  Its word holds *)
(* a locked bit, a bit that locks the queue, and a pointer to the first    *)
(* queued thread.  The queue's nodes are ThreadData objects on the stacks  *)
(* of the waiting threads.                                                 *)
(***************************************************************************)
EXTENDS Naturals

CONSTANTS Threads, NoThread, SpinLimit

\* What the constants have to satisfy.
WordLockAssumption == NoThread \notin Threads /\ SpinLimit \in Nat

VARIABLES
    word,           \* isLockedBit, isQueueLockedBit, the queue head
    node,           \* each thread's ThreadData
    alive,          \* threads whose ThreadData is in scope
    parkingLock,    \* the owner of each ThreadData's mutex
    pc, spinCount,
    oldHead         \* local queueHead of unlockSlow

vars == <<word, node, alive, parkingLock, pc, spinCount, oldHead>>

Ref == Threads \cup {NoThread}
Zero == [locked |-> FALSE, queueLocked |-> FALSE, head |-> NoThread]
Fresh == [shouldPark |-> FALSE, nextInQueue |-> NoThread, queueTail |-> NoThread]

TypeOK ==
    /\ word \in [locked : BOOLEAN, queueLocked : BOOLEAN, head : Ref]
    /\ node \in [Threads -> [shouldPark : BOOLEAN, nextInQueue : Ref, queueTail : Ref]]
    /\ alive \in SUBSET Threads
    /\ parkingLock \in [Threads -> Ref]
    /\ pc \in [Threads -> {"idle", "lockSlow", "lockQueue", "enqueue", "park", "held",
                           "unlockSlow", "dequeue", "unlink", "wake", "notify"}]
    /\ spinCount \in [Threads -> 0 .. SpinLimit]
    /\ oldHead \in [Threads -> Ref]

Init ==
    /\ word = Zero
    /\ node = [t \in Threads |-> Fresh]
    /\ alive = {}
    /\ parkingLock = [t \in Threads |-> NoThread]
    /\ pc = [t \in Threads |-> "idle"]
    /\ spinCount = [t \in Threads |-> 0]
    /\ oldHead = [t \in Threads |-> NoThread]

Goto(t, label) == pc' = [pc EXCEPT ![t] = label]

\* A weak CAS from zero; it may fail for no reason.
lock(t) ==
    /\ pc[t] = "idle"
    /\ \/ word = Zero /\ word' = [word EXCEPT !.locked = TRUE] /\ Goto(t, "held")
       \/ Goto(t, "lockSlow") /\ UNCHANGED word
    /\ UNCHANGED <<node, alive, parkingLock, spinCount, oldHead>>

\* One turn of lockSlow's loop: acquire, spin while there is no queue, or make
\* a ThreadData and go for the queue.
lockSlow(t) ==
    /\ pc[t] = "lockSlow"
    /\ \/ /\ ~word.locked
          /\ word' = [word EXCEPT !.locked = TRUE]
          /\ spinCount' = [spinCount EXCEPT ![t] = 0]
          /\ Goto(t, "held")
          /\ UNCHANGED <<node, alive>>
       \/ /\ word.head = NoThread /\ spinCount[t] < SpinLimit
          /\ spinCount' = [spinCount EXCEPT ![t] = @ + 1]
          /\ UNCHANGED <<word, node, alive, pc>>
       \/ /\ word.head # NoThread \/ spinCount[t] = SpinLimit
          /\ node' = [node EXCEPT ![t] = Fresh]
          /\ alive' = alive \cup {t}
          /\ Goto(t, "lockQueue")
          /\ UNCHANGED <<word, spinCount>>
    /\ UNCHANGED <<parkingLock, oldHead>>

\* Lock the queue, which is possible only while the WordLock is held; or start
\* the loop again.
lockQueue(t) ==
    /\ pc[t] = "lockQueue"
    /\ \/ /\ ~word.queueLocked /\ word.locked
          /\ word' = [word EXCEPT !.queueLocked = TRUE]
          /\ node' = [node EXCEPT ![t].shouldPark = TRUE]
          /\ Goto(t, "enqueue")
          /\ UNCHANGED alive
       \/ /\ alive' = alive \ {t}
          /\ Goto(t, "lockSlow")
          /\ UNCHANGED <<word, node>>
    /\ UNCHANGED <<parkingLock, spinCount, oldHead>>

\* Append to the queue or become its head, and unlock the queue.
enqueue(t) ==
    /\ pc[t] = "enqueue"
    /\ IF word.head # NoThread
         THEN LET tail == node[word.head].queueTail IN
              /\ node' = [[node EXCEPT ![tail].nextInQueue = t]
                               EXCEPT ![word.head].queueTail = t]
              /\ word' = [word EXCEPT !.queueLocked = FALSE]
         ELSE /\ node' = [node EXCEPT ![t].queueTail = t]
              /\ word' = [word EXCEPT !.head = t, !.queueLocked = FALSE]
    /\ Goto(t, "park")
    /\ UNCHANGED <<alive, parkingLock, spinCount, oldHead>>

\* Sleep until shouldPark is cleared; leaving the loop's body ends the
\* ThreadData's life.
park(t) ==
    /\ pc[t] = "park"
    /\ parkingLock[t] = NoThread /\ ~node[t].shouldPark
    /\ alive' = alive \ {t}
    /\ Goto(t, "lockSlow")
    /\ UNCHANGED <<word, node, parkingLock, spinCount, oldHead>>

\* A weak CAS from isLockedBit to zero.
unlock(t) ==
    /\ pc[t] = "held"
    /\ \/ /\ word = [Zero EXCEPT !.locked = TRUE]
          /\ word' = Zero
          /\ Goto(t, "idle")
       \/ Goto(t, "unlockSlow") /\ UNCHANGED word
    /\ UNCHANGED <<node, alive, parkingLock, spinCount, oldHead>>

\* Release the lock, or lock the queue once nobody else has.
unlockSlow(t) ==
    /\ pc[t] = "unlockSlow"
    /\ \/ /\ word = [Zero EXCEPT !.locked = TRUE]
          /\ word' = Zero
          /\ Goto(t, "idle")
       \/ /\ ~word.queueLocked /\ word.head # NoThread
          /\ word' = [word EXCEPT !.queueLocked = TRUE]
          /\ Goto(t, "dequeue")
    /\ UNCHANGED <<node, alive, parkingLock, spinCount, oldHead>>

(* Mutant: the rest of the queue is lost. *)
dequeueDropsQueue(t) ==
    /\ pc[t] = "dequeue"
    /\ LET head == word.head
           newHead == node[head].nextInQueue
       IN  /\ node' = IF newHead = NoThread THEN node
                      ELSE [node EXCEPT ![newHead].queueTail = node[head].queueTail]
           /\ word' = Zero
           /\ oldHead' = [oldHead EXCEPT ![t] = head]
    /\ Goto(t, "unlink")
    /\ UNCHANGED <<alive, parkingLock, spinCount>>

\* Make the second thread the head, and release both locks with one store.
dequeue(t) ==
    /\ pc[t] = "dequeue"
    /\ LET head == word.head
           newHead == node[head].nextInQueue
       IN  /\ node' = IF newHead = NoThread THEN node
                      ELSE [node EXCEPT ![newHead].queueTail = node[head].queueTail]
           /\ word' = [Zero EXCEPT !.head = newHead]
           /\ oldHead' = [oldHead EXCEPT ![t] = head]
    /\ Goto(t, "unlink")
    /\ UNCHANGED <<alive, parkingLock, spinCount>>

unlink(t) ==
    /\ pc[t] = "unlink"
    /\ node' = [node EXCEPT ![oldHead[t]].nextInQueue = NoThread,
                            ![oldHead[t]].queueTail = NoThread]
    /\ Goto(t, "wake")
    /\ UNCHANGED <<word, alive, parkingLock, spinCount, oldHead>>

(* Mutant: shouldPark is cleared without the mutex. *)
wakeUnlocked(t) ==
    /\ pc[t] = "wake" /\ parkingLock[oldHead[t]] = NoThread
    /\ parkingLock' = parkingLock
    /\ node' = [node EXCEPT ![oldHead[t]].shouldPark = FALSE]
    /\ Goto(t, "notify")
    /\ UNCHANGED <<word, alive, spinCount, oldHead>>

wake(t) ==
    /\ pc[t] = "wake" /\ parkingLock[oldHead[t]] = NoThread
    /\ parkingLock' = [parkingLock EXCEPT ![oldHead[t]] = t]
    /\ node' = [node EXCEPT ![oldHead[t]].shouldPark = FALSE]
    /\ Goto(t, "notify")
    /\ UNCHANGED <<word, alive, spinCount, oldHead>>

\* notify_one and the end of the critical section.
notify(t) ==
    /\ pc[t] = "notify"
    /\ parkingLock' = [parkingLock EXCEPT ![oldHead[t]] = NoThread]
    /\ oldHead' = [oldHead EXCEPT ![t] = NoThread]
    /\ Goto(t, "idle")
    /\ UNCHANGED <<word, node, alive, spinCount>>

Progress(t) ==
    \/ lockSlow(t) \/ lockQueue(t) \/ enqueue(t) \/ park(t)
    \/ unlockSlow(t) \/ dequeue(t) \/ unlink(t) \/ wake(t) \/ notify(t)

Next == \E t \in Threads :
    \/ lock(t) \/ lockSlow(t) \/ lockQueue(t) \/ enqueue(t) \/ park(t)
    \/ unlock(t) \/ unlockSlow(t) \/ dequeue(t) \/ unlink(t) \/ wake(t) \/ notify(t)

Spec == Init /\ [][Next]_vars

----------------------------------------------------------------------------
(* Properties *)

Owns(t) == pc[t] \in {"held", "unlockSlow", "dequeue"}

owner == IF \E t \in Threads : Owns(t)
         THEN CHOOSE t \in Threads : Owns(t) ELSE NoThread

M == INSTANCE Mutex
       WITH waiting <- {t \in Threads : pc[t] \in {"lockSlow", "lockQueue", "enqueue", "park"}}

\* WordLock implements a mutex.
ImplementsMutex == M!Spec

\* A WordLock that is free while a thread is inside lock() is acquired: nobody
\* sleeps in the queue of a free lock with all other threads gone.
ImplementsFairMutex == M!FairSpec

\* The queue: the least set with the head that follows nextInQueue.
Linked(S) == word.head \in S \cup {NoThread} /\ \A t \in S : node[t].nextInQueue \in S \cup {NoThread}
Chain == {t \in Threads : \A S \in SUBSET Threads : Linked(S) => t \in S}

\* Whenever nobody works on the queue, it holds exactly the sleeping threads
\* that nobody is waking, and the head's queueTail is the last of them.
QueueIsExact == ~word.queueLocked =>
    /\ Chain = {t \in Threads : pc[t] = "park" /\ node[t].shouldPark
                                  /\ \A u \in Threads : oldHead[u] # t}
    /\ word.head # NoThread =>
         LET tail == node[word.head].queueTail
         IN  tail \in Chain /\ node[tail].nextInQueue = NoThread

\* unlockSlow works on a ThreadData on another thread's stack after it has
\* released the lock: the thread cannot leave the scope before that is over.
NoUseAfterScope == \A t \in Threads :
    pc[t] \in {"unlink", "wake", "notify"} =>
        oldHead[t] \in alive /\ pc[oldHead[t]] = "park"

\* The asserts of lockSlow and unlockSlow: the queue is locked only while the
\* lock is held, its locker finds it held, and a woken thread is unlinked.
AssertsHold ==
    /\ word.queueLocked => word.locked
    /\ \A t \in Threads :
         /\ pc[t] = "enqueue" => word.queueLocked
         /\ pc[t] = "dequeue" => word.queueLocked /\ word.head # NoThread
         /\ pc[t] = "park" /\ ~node[t].shouldPark =>
              node[t].nextInQueue = NoThread /\ node[t].queueTail = NoThread
=============================================================================

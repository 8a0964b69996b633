---------------------------- MODULE CountingLock ----------------------------
(***************************************************************************)
(* CountingLock: LockAlgorithm with a count of acquisitions in the word,   *)
(* and doOptimizedRead: read without the lock, validate the count, and     *)
(* fall back on the lock.  The protected data is abstracted to the fact    *)
(* that the owner has modified it.  Memory is sequentially consistent, as  *)
(* the loads and fences of the non-fenceless calls make it.                *)
(***************************************************************************)
EXTENDS LockAlgorithm

VARIABLES
    reading,        \* where a thread is in doOptimizedRead
    count,          \* its Count, from tryOptimisticRead
    modified,       \* readers during whose func() the data was modified
    acquisitions    \* acquisitions since the reader's tryOptimisticRead, up to the modulus

readVars == <<reading, count, modified, acquisitions>>
allVars == <<vars, readVars>>

CountTypeOK ==
    /\ reading \in [Threads -> {"no", "func", "validated"}]
    /\ count \in [Threads -> 0 .. CountModulus - 1]
    /\ modified \in SUBSET Threads
    /\ acquisitions \in [Threads -> 0 .. CountModulus]

CountInit ==
    /\ Init
    /\ reading = [t \in Threads |-> "no"]
    /\ count = [t \in Threads |-> 0]
    /\ modified = {}
    /\ acquisitions = [t \in Threads |-> 0]

(* Mutant: the held bit is not looked at. *)
tryOptimisticReadHeld(t) ==
    /\ pc[t] = "idle" /\ reading[t] = "no"
    /\ IF FALSE
         THEN Goto(t, "relock") /\ UNCHANGED readVars
         ELSE /\ reading' = [reading EXCEPT ![t] = "func"]
              /\ count' = [count EXCEPT ![t] = word.count]
              /\ UNCHANGED <<pc, modified, acquisitions>>
    /\ UNCHANGED <<word, queue, fairTime, address, token, spinCount, expected,
                   fairness, relock, unparked>>

\* Count() or the count in the word; a failed attempt calls lock().
tryOptimisticRead(t) ==
    /\ pc[t] = "idle" /\ reading[t] = "no"
    /\ IF word.held
         THEN Goto(t, "relock") /\ UNCHANGED readVars
         ELSE /\ reading' = [reading EXCEPT ![t] = "func"]
              /\ count' = [count EXCEPT ![t] = word.count]
              /\ UNCHANGED <<pc, modified, acquisitions>>
    /\ UNCHANGED <<word, queue, fairTime, address, token, spinCount, expected,
                   fairness, relock, unparked>>

ReadEnds(t) ==
    /\ reading' = [reading EXCEPT ![t] = "no"]
    /\ count' = [count EXCEPT ![t] = 0]
    /\ modified' = modified \ {t}
    /\ acquisitions' = [acquisitions EXCEPT ![t] = 0]

\* validate() ignores the two low bits.
validate(t) ==
    /\ reading[t] = "func"
    /\ IF word.count = count[t]
         THEN /\ reading' = [reading EXCEPT ![t] = "validated"]
              /\ UNCHANGED <<pc, count, modified, acquisitions>>
         ELSE ReadEnds(t) /\ Goto(t, "relock")
    /\ UNCHANGED <<word, queue, fairTime, address, token, spinCount, expected,
                   fairness, relock, unparked>>

returnResult(t) ==
    /\ reading[t] = "validated"
    /\ ReadEnds(t)
    /\ UNCHANGED vars

\* The owner modifies the data that the lock protects.
modify(t) ==
    /\ pc[t] = "held"
    /\ modified' = modified \cup {r \in Threads : reading[r] = "func"}
    /\ UNCHANGED <<vars, reading, count, acquisitions>>

\* The acquisitions are counted for the readers.
Counted ==
    /\ acquisitions' = [t \in Threads |->
          IF reading[t] = "func" /\ word'.held /\ ~word.held /\ acquisitions[t] < CountModulus
          THEN acquisitions[t] + 1 ELSE acquisitions[t]]
    /\ UNCHANGED <<reading, count, modified>>

\* A step of the lock.
LockStep ==
    /\ tick \/ \E t \in Threads :
         \/ reading[t] = "no" /\ (lockFast(t) \/ tryLock(t))
         \/ Unlock(t) \/ lockSlow(t) \/ park(t) \/ wakeUp(t)
         \/ unlockSlow(t) \/ unparkOne(t) \/ signal(t)
    /\ Counted

CountNext ==
    \/ LockStep
    \/ \E t \in Threads :
         tryOptimisticRead(t) \/ validate(t) \/ returnResult(t) \/ modify(t)

CountSpec == CountInit /\ [][CountNext]_allVars

----------------------------------------------------------------------------
(* Properties *)

\* What CountingLock.h says of a validated read: nobody modified the data
\* while func() ran.  The count has 30 bits, so this is so unless the lock was
\* acquired a multiple of 2^30 times during the read.
ValidatedReadIsClean == \A t \in Threads :
    reading[t] = "validated" /\ acquisitions[t] < CountModulus => t \notin modified

\* unlockSlow keeps the word in a uint8_t and exchanges what it kept: it never
\* tries that on a word whose count does not fit, which would loop forever.
SlowReleaseFitsByte == \A t \in Threads :
    pc[t] = "unlockSlow" /\ ~word.parked => word.count < ByteModulus

\* The assertions of lockSlow and unlockSlow hold and, with CountingLock's fast paths,
\* the word fits the uint8_t that unlockSlow exchanges it by.
AssertionsHold == AssertsHold /\ (~AssumingZero => SlowReleaseFitsByte)
=============================================================================

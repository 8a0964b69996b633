--------------------------- MODULE LockAlgorithm ---------------------------
(***************************************************************************)
(* LockAlgorithm.h and LockAlgorithmInlines.h: the adaptive lock behind    *)
(* Lock (AssumingZero, CountModulus = 1) and CountingLock.  The lock word  *)
(* has a held bit, a parked bit and, in CountingLock, a count of           *)
(* acquisitions.  ParkingLot is used through two atomic operations, as its *)
(* bucket lock makes them: compareAndPark's validation and enqueue, and    *)
(* unparkOne's dequeue and callback.                                       *)
(***************************************************************************)
EXTENDS Naturals, Sequences, FiniteSets

CONSTANTS
    Threads, NoThread,
    SpinLimit,       \* spinLimit (40 in the code)
    AssumingZero,    \* TRUE: Lock's fast paths, one weak CAS; FALSE: CountingLock's
    CountModulus,    \* lockHook's count wraps at this value
    ByteModulus,     \* how many counts fit in unlockSlow's uint8_t
    Collisions       \* other addresses may hash to the same bucket

ASSUME LockAssumption ==
    /\ NoThread \notin Threads
    /\ SpinLimit \in Nat
    /\ AssumingZero \in BOOLEAN /\ Collisions \in BOOLEAN
    /\ CountModulus \in Nat \ {0} /\ ByteModulus \in Nat \ {0}

VARIABLES
    word,       \* the lock word: isHeldBit, hasParkedBit, count
    queue,      \* threads parked on the word's address, first to last
    fairTime,   \* time > nextFairTime, for the bucket
    address,    \* threads whose ThreadData::address is set
    token,      \* ThreadData::token
    pc, spinCount, expected, fairness, relock, unparked

vars == <<word, queue, fairTime, address, token, pc, spinCount, expected,
          fairness, relock, unparked>>

Tokens == {"BargingOpportunity", "DirectHandoff"}
Words == [held : BOOLEAN, parked : BOOLEAN, count : 0 .. CountModulus - 1]
Zero == [held |-> FALSE, parked |-> FALSE, count |-> 0]

TypeOK ==
    /\ word \in Words
    /\ queue \in Seq(Threads)
    /\ fairTime \in BOOLEAN
    /\ address \in SUBSET Threads
    /\ token \in [Threads -> Tokens]
    /\ pc \in [Threads -> {"idle", "lockSlow", "park", "parked", "held",
                           "unlockSlow", "unpark", "signal", "relock"}]
    /\ spinCount \in [Threads -> 0 .. SpinLimit]
    /\ expected \in [Threads -> Words]
    /\ fairness \in [Threads -> {"Fair", "Unfair"}]
    /\ relock \in [Threads -> BOOLEAN]
    /\ unparked \in [Threads -> Threads \cup {NoThread}]

\* A bucket's nextFairTime starts at zero, so the first dequeue is fair.
Init ==
    /\ word = Zero
    /\ queue = <<>>
    /\ fairTime = TRUE
    /\ address = {}
    /\ token = [t \in Threads |-> "BargingOpportunity"]
    /\ pc = [t \in Threads |-> "idle"]
    /\ spinCount = [t \in Threads |-> 0]
    /\ expected = [t \in Threads |-> Zero]
    /\ fairness = [t \in Threads |-> "Unfair"]
    /\ relock = [t \in Threads |-> FALSE]
    /\ unparked = [t \in Threads |-> NoThread]

Goto(t, label) == pc' = [pc EXCEPT ![t] = label]

\* The word after an acquisition: lockHook counts it.
lockHook(w) == [held |-> TRUE, parked |-> w.parked, count |-> (w.count + 1) % CountModulus]

\* The fast path of lock().  Lock's is a weak CAS from zero, which may fail
\* for no reason; CountingLock's is a transaction, which fails only if held.
lockFast(t) ==
    /\ pc[t] \in {"idle", "relock"}
    /\ spinCount' = [spinCount EXCEPT ![t] = 0]
    /\ \/ /\ IF AssumingZero THEN word = Zero ELSE ~word.held
          /\ word' = lockHook(word)
          /\ Goto(t, "held")
       \/ /\ AssumingZero \/ word.held
          /\ Goto(t, "lockSlow")
          /\ UNCHANGED word
    /\ UNCHANGED <<queue, fairTime, address, token, expected, fairness, relock, unparked>>

tryLock(t) ==
    /\ pc[t] = "idle"
    /\ ~word.held
    /\ word' = lockHook(word)
    /\ Goto(t, "held")
    /\ UNCHANGED <<queue, fairTime, address, token, spinCount, expected,
                   fairness, relock, unparked>>

(* Mutant: barge in although the lock is held. *)
lockSlowBarges(t) ==
    /\ pc[t] = "lockSlow"
    /\ \/ /\ word' = lockHook(word)
          /\ spinCount' = [spinCount EXCEPT ![t] = 0]
          /\ Goto(t, "held")
          /\ UNCHANGED expected
       \/ /\ word.held /\ ~word.parked /\ spinCount[t] < SpinLimit
          /\ spinCount' = [spinCount EXCEPT ![t] = @ + 1]
          /\ UNCHANGED <<word, pc, expected>>
       \/ /\ word.held
          /\ word.parked \/ spinCount[t] = SpinLimit
          /\ word' = [word EXCEPT !.parked = TRUE]
          /\ expected' = [expected EXCEPT ![t] = word']
          /\ Goto(t, "park")
          /\ UNCHANGED spinCount
    /\ UNCHANGED <<queue, fairTime, address, token, fairness, relock, unparked>>

\* One turn of lockSlow's loop up to compareAndPark: barge in, spin, or make
\* sure that the parked bit is set.
lockSlow(t) ==
    /\ pc[t] = "lockSlow"
    /\ \/ /\ ~word.held
          /\ word' = lockHook(word)
          /\ spinCount' = [spinCount EXCEPT ![t] = 0]
          /\ Goto(t, "held")
          /\ UNCHANGED expected
       \/ /\ word.held /\ ~word.parked /\ spinCount[t] < SpinLimit
          /\ spinCount' = [spinCount EXCEPT ![t] = @ + 1]
          /\ UNCHANGED <<word, pc, expected>>
       \/ /\ word.held
          /\ word.parked \/ spinCount[t] = SpinLimit
          /\ word' = [word EXCEPT !.parked = TRUE]
          /\ expected' = [expected EXCEPT ![t] = word']
          /\ Goto(t, "park")
          /\ UNCHANGED spinCount
    /\ UNCHANGED <<queue, fairTime, address, token, fairness, relock, unparked>>

\* compareAndPark zeroes the thread's token (zero is BargingOpportunity) and
\* enqueues it if the word is still what it was.
park(t) ==
    /\ pc[t] = "park"
    /\ token' = [token EXCEPT ![t] = "BargingOpportunity"]
    /\ expected' = [expected EXCEPT ![t] = Zero]
    /\ IF word = expected[t]
         THEN /\ queue' = Append(queue, t)
              /\ address' = address \cup {t}
              /\ Goto(t, "parked")
         ELSE /\ Goto(t, "lockSlow")
              /\ UNCHANGED <<queue, address>>
    /\ UNCHANGED <<word, fairTime, spinCount, fairness, relock, unparked>>

\* A parked thread sleeps until its address is cleared; then the token says
\* whether it owns the lock.
wakeUp(t) ==
    /\ pc[t] = "parked" /\ t \notin address
    /\ Goto(t, IF token[t] = "DirectHandoff" THEN "held" ELSE "lockSlow")
    /\ UNCHANGED <<word, queue, fairTime, address, token, spinCount, expected,
                   fairness, relock, unparked>>

\* unlock() returns; safepoint() goes on to lock() again.
AfterUnlock(t, again) ==
    /\ Goto(t, IF again THEN "relock" ELSE "idle")
    /\ fairness' = [fairness EXCEPT ![t] = "Unfair"]
    /\ relock' = [relock EXCEPT ![t] = FALSE]

(* Mutant: CountingLock's fast path may fail for no reason, too. *)
unlockFastSpuriously(t, fair, again) ==
    /\ pc[t] = "held"
    /\ \/ /\ ~word.parked
          /\ word' = [word EXCEPT !.held = FALSE]
          /\ AfterUnlock(t, again)
       \/ /\ fairness' = [fairness EXCEPT ![t] = fair]
          /\ relock' = [relock EXCEPT ![t] = again]
          /\ Goto(t, "unlockSlow")
          /\ UNCHANGED word
    /\ UNCHANGED <<queue, fairTime, address, token, spinCount, expected, unparked>>

\* unlockFast succeeds only on a word that is held and not parked; Lock's is
\* a weak CAS from exactly isHeldBit.
unlockFast(t, fair, again) ==
    /\ pc[t] = "held"
    /\ \/ /\ ~word.parked
          /\ word' = [word EXCEPT !.held = FALSE]
          /\ AfterUnlock(t, again)
       \/ /\ AssumingZero \/ word.parked
          /\ fairness' = [fairness EXCEPT ![t] = fair]
          /\ relock' = [relock EXCEPT ![t] = again]
          /\ Goto(t, "unlockSlow")
          /\ UNCHANGED word
    /\ UNCHANGED <<queue, fairTime, address, token, spinCount, expected, unparked>>

unlock(t) == unlockFast(t, "Unfair", FALSE)
unlockFairly(t) == unlockFast(t, "Fair", FALSE)

\* safepoint() is unlockFairly() and lock() if somebody may be parked.
safepoint(t) == word.parked /\ unlockFast(t, "Fair", TRUE)

\* unlockSlow's loop: it keeps only the low byte of the word, so the CAS that
\* releases an unparked lock succeeds only on a word that fits in a byte.
unlockSlow(t) ==
    /\ pc[t] = "unlockSlow"
    /\ \/ /\ ~word.parked /\ word.count < ByteModulus
          /\ word' = [word EXCEPT !.held = FALSE]
          /\ AfterUnlock(t, relock[t])
       \/ /\ word.parked
          /\ Goto(t, "unpark")
          /\ UNCHANGED <<word, fairness, relock>>
    /\ UNCHANGED <<queue, fairTime, address, token, spinCount, expected, unparked>>

(* Mutant: it is never time to be fair. *)
handsOffOnRequest(t) == fairness[t] = "Fair"

\* unlockSlow's callback: hand the lock over if asked to, or if it is time to be
\* fair; otherwise release it and keep the parked bit if more threads may be
\* queued, on this address or on a colliding one.
directHandoff(t) == fairness[t] = "Fair" \/ fairTime

(* Mutant: mayHaveMoreThreads is not looked at. *)
forgetsMoreThreads(handoff, others) ==
    IF handoff THEN word
    ELSE [word EXCEPT !.held = FALSE, !.parked = FALSE]

wordAfterDequeue(handoff, others) ==
    IF handoff THEN word
    ELSE [word EXCEPT !.held = FALSE, !.parked = Tail(queue) # <<>> \/ others]

\* unparkOne dequeues the first thread and calls back with the bucket locked.
unparkOne(t) ==
    /\ pc[t] = "unpark"
    /\ IF queue = <<>>
         THEN /\ word' = [word EXCEPT !.held = FALSE, !.parked = FALSE]
              /\ AfterUnlock(t, relock[t])
              /\ UNCHANGED <<queue, fairTime, token, unparked>>
         ELSE LET handoff == directHandoff(t)
              IN  /\ queue' = Tail(queue)
                  /\ unparked' = [unparked EXCEPT ![t] = Head(queue)]
                  /\ token' = [token EXCEPT ![Head(queue)] =
                         IF handoff THEN "DirectHandoff" ELSE "BargingOpportunity"]
                  /\ fairTime' = FALSE
                  /\ \E others \in IF Collisions THEN BOOLEAN ELSE {FALSE} :
                       word' = wordAfterDequeue(handoff, others)
                  /\ Goto(t, "signal")
                  /\ UNCHANGED <<fairness, relock>>
    /\ UNCHANGED <<address, spinCount, expected>>

\* After unlocking the bucket, unparkOne clears the thread's address.
signal(t) ==
    /\ pc[t] = "signal"
    /\ address' = address \ {unparked[t]}
    /\ unparked' = [unparked EXCEPT ![t] = NoThread]
    /\ AfterUnlock(t, relock[t])
    /\ UNCHANGED <<word, queue, fairTime, token, spinCount, expected>>

\* nextFairTime comes; or the dequeue of a colliding address uses it up.
tick ==
    /\ \/ ~fairTime /\ fairTime' = TRUE
       \/ fairTime /\ Collisions /\ fairTime' = FALSE
    /\ UNCHANGED <<word, queue, address, token, pc, spinCount, expected,
                   fairness, relock, unparked>>

\* The steps a thread takes by itself once it has called lock() or unlock().
Progress(t) ==
    \/ pc[t] = "relock" /\ lockFast(t)
    \/ lockSlow(t) \/ park(t) \/ wakeUp(t)
    \/ unlockSlow(t) \/ unparkOne(t) \/ signal(t)

Unlock(t) == unlock(t) \/ unlockFairly(t) \/ safepoint(t)

Next ==
    \/ tick
    \/ \E t \in Threads :
         \/ lockFast(t) \/ tryLock(t) \/ Unlock(t)
         \/ lockSlow(t) \/ park(t) \/ wakeUp(t)
         \/ unlockSlow(t) \/ unparkOne(t) \/ signal(t)

Spec == Init /\ [][Next]_vars

----------------------------------------------------------------------------
(* Properties *)

\* The lock belongs to a thread from the word it wrote, or the hand-over it
\* was given, until its own write or hand-over.
Owns(t) ==
    \/ pc[t] \in {"held", "unlockSlow", "unpark"}
    \/ pc[t] = "parked" /\ token[t] = "DirectHandoff"

Waits(t) == pc[t] \in {"lockSlow", "park", "parked"} /\ ~Owns(t)

owner == IF \E t \in Threads : Owns(t)
         THEN CHOOSE t \in Threads : Owns(t) ELSE NoThread

M == INSTANCE Mutex WITH waiting <- {t \in Threads : Waits(t)}

\* The lock implements a mutex: at most one thread owns it, also across a
\* direct hand-over by unlockSlow to a thread that is still asleep.
ImplementsMutex == M!Spec

\* The same with progress: a lock that is free while a thread is inside lock()
\* is acquired, whatever order parking and unparking happen in.
ImplementsFairMutex == M!FairSpec

\* The RELEASE_ASSERTs and ASSERTs of lockSlow and unlockSlow: the word is
\* held when a direct hand-over arrives and while it is being unlocked, and
\* both bits are still set when unparkOne calls back.
AssertsHold == \A t \in Threads :
    /\ Owns(t) => word.held
    /\ pc[t] = "unpark" => word.parked

\* No lost wake-up: a thread is queued only under a word with the parked bit
\* set (so that the owner will unpark it); when the lock is free while threads
\* are queued, another thread is awake in lockSlow or being woken; and a thread
\* that sleeps and is not queued is not abandoned between the two halves of an
\* unpark: some thread is about to clear its address.
NoLostWakeUp ==
    /\ queue # <<>> =>
         /\ word.parked
         /\ word.held \/ \E t \in Threads :
              Waits(t) /\ \A i \in DOMAIN queue : queue[i] # t
    /\ \A t \in address :
         \/ \E i \in DOMAIN queue : queue[i] = t
         \/ \E u \in Threads : pc[u] = "signal" /\ unparked[u] = t
=============================================================================

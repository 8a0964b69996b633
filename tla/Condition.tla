------------------------------ MODULE Condition ------------------------------
(***************************************************************************)
(* Condition.h, used the way its callers use it: consumers wait under a    *)
(* lock until there is an item, producers add an item under the lock and   *)
(* notify after unlocking.  The lock is a Mutex; ParkingLot is the queue   *)
(* that ParkingQueues specifies.                                           *)
(***************************************************************************)
EXTENDS Naturals, Sequences

CONSTANTS
    Consumers, Producers, NoThread,
    Notifies,       \* the calls producers use: subset of {"notifyOne", "notifyAll"}
    Timeouts,       \* consumers that wait with a finite timeout
    Collisions,     \* another address may hash to the condition's bucket
    MaxItems        \* bound on the items that are there at once

Callers == Consumers \cup Producers

\* What the constants have to satisfy.
ConditionAssumption ==
    /\ NoThread \notin Callers
    /\ Consumers \cap Producers = {}
    /\ Notifies \subseteq {"notifyOne", "notifyAll"}
    /\ Timeouts \subseteq Consumers
    /\ Collisions \in BOOLEAN /\ MaxItems \in Nat

VARIABLES
    hasWaiters,     \* m_hasWaiters
    queue,          \* threads parked on &m_hasWaiters
    owner,          \* the owner of the lock
    items,          \* what the predicate is about
    pc,
    owed            \* waiters that were queued when the thread's notify began

vars == <<hasWaiters, queue, owner, items, pc, owed>>

Queued == {queue[i] : i \in DOMAIN queue}

TypeOK ==
    /\ hasWaiters \in BOOLEAN
    /\ queue \in Seq(Consumers)
    /\ owner \in Callers \cup {NoThread}
    /\ items \in 0 .. MaxItems
    /\ pc \in [Callers -> {"idle", "lock", "check", "beforeSleep", "asleep", "relock",
                           "timedOut", "lastCheck", "add", "notifyOne", "notifyAll", "unparkOne",
                           "store", "unparkAll", "notified"}]
    /\ owed \in [Callers -> SUBSET Consumers]

Init ==
    /\ hasWaiters = FALSE
    /\ queue = <<>>
    /\ owner = NoThread
    /\ items = 0
    /\ pc = [t \in Callers |-> "idle"]
    /\ owed = [t \in Callers |-> {}]

Goto(t, label) == pc' = [pc EXCEPT ![t] = label]

call(t) ==
    /\ pc[t] = "idle"
    /\ Goto(t, "lock")
    /\ UNCHANGED <<hasWaiters, queue, owner, items, owed>>

\* lock.lock(), at the start, at the end of a wait, and after a timeout.
lock(t) ==
    /\ pc[t] \in {"lock", "relock", "timedOut"}
    /\ owner = NoThread
    /\ owner' = t
    /\ CASE t \in Producers -> Goto(t, "add")
         [] t \in Consumers /\ pc[t] # "timedOut" -> Goto(t, "check")
         [] OTHER -> Goto(t, "lastCheck")
    /\ UNCHANGED <<hasWaiters, queue, items, owed>>

----------------------------------------------------------------------------
(* The consumer: wait(lock, predicate) *)

Take(t) ==
    /\ items > 0
    /\ items' = items - 1
    /\ owner' = NoThread
    /\ Goto(t, "idle")
    /\ UNCHANGED <<hasWaiters, queue, owed>>

\* waitUntil: say that there are waiters, and enqueue, under the bucket's lock.
Park(t) ==
    /\ hasWaiters' = TRUE
    /\ queue' = Append(queue, t)
    /\ Goto(t, "beforeSleep")
    /\ UNCHANGED <<owner, items, owed>>

\* A timeout that has passed already: release the lock and relock it.
PastTimeout(t) ==
    /\ t \in Timeouts
    /\ owner' = NoThread
    /\ Goto(t, "timedOut")
    /\ UNCHANGED <<hasWaiters, queue, items, owed>>

waitUntil(t) ==
    /\ pc[t] = "check"
    /\ \/ Take(t)
       \/ items = 0 /\ Park(t)
       \/ items = 0 /\ PastTimeout(t)

\* After a timeout, waitUntil returns predicate().
lastCheck(t) ==
    /\ pc[t] = "lastCheck"
    /\ \/ Take(t)
       \/ /\ items = 0
          /\ owner' = NoThread
          /\ Goto(t, "idle")
          /\ UNCHANGED <<hasWaiters, queue, items, owed>>

beforeSleep(t) ==
    /\ pc[t] = "beforeSleep"
    /\ owner' = NoThread
    /\ Goto(t, "asleep")
    /\ UNCHANGED <<hasWaiters, queue, items, owed>>

\* The queue when its i-th thread has left it.
Without(i) == [k \in 1 .. Len(queue) - 1 |-> queue[IF k < i THEN k ELSE k + 1]]

\* Unparked; or the timeout fires and the thread takes itself off the queue.
wakeUp(t) ==
    /\ pc[t] = "asleep"
    /\ \/ /\ t \notin Queued
          /\ Goto(t, "relock")
          /\ UNCHANGED <<queue, owed>>
       \/ /\ t \in Timeouts
          /\ \E i \in DOMAIN queue : queue[i] = t /\ queue' = Without(i)
          /\ owed' = [u \in Callers |-> owed[u] \ {t}]
          /\ Goto(t, "timedOut")
    /\ UNCHANGED <<hasWaiters, owner, items>>

----------------------------------------------------------------------------
(* The producer *)

add(t) ==
    /\ pc[t] = "add"
    /\ items' = IF items < MaxItems THEN items + 1 ELSE items
    /\ owner' = NoThread
    /\ \E notify \in Notifies : Goto(t, notify)
    /\ owed' = [owed EXCEPT ![t] = Queued]
    /\ UNCHANGED <<hasWaiters, queue>>

\* The fast path of both: nobody is waiting if the flag is clear.
loadHasWaiters(t) ==
    /\ pc[t] \in {"notifyOne", "notifyAll"}
    /\ Goto(t, IF ~hasWaiters THEN "notified"
               ELSE IF pc[t] = "notifyOne" THEN "unparkOne" ELSE "store")
    /\ UNCHANGED <<hasWaiters, queue, owner, items, owed>>

(* Mutant: mayHaveMoreThreads is not looked at. *)
unparkOneClears(t) ==
    /\ pc[t] = "unparkOne"
    /\ IF queue = <<>>
         THEN hasWaiters' = FALSE /\ UNCHANGED <<queue, owed>>
         ELSE /\ queue' = Tail(queue)
              /\ owed' = [u \in Callers |-> IF u = t THEN {} ELSE owed[u] \ {Head(queue)}]
              /\ \E others \in IF Collisions THEN BOOLEAN ELSE {FALSE} :
                   hasWaiters' = FALSE
    /\ Goto(t, "notified")
    /\ UNCHANGED <<owner, items>>

\* unparkOne and its callback, which clears the flag unless more threads may
\* be queued, on this address or on a colliding one.
unparkOne(t) ==
    /\ pc[t] = "unparkOne"
    /\ IF queue = <<>>
         THEN hasWaiters' = FALSE /\ UNCHANGED <<queue, owed>>
         ELSE /\ queue' = Tail(queue)
              /\ owed' = [u \in Callers |-> IF u = t THEN {} ELSE owed[u] \ {Head(queue)}]
              /\ \E others \in IF Collisions THEN BOOLEAN ELSE {FALSE} :
                   hasWaiters' = IF others \/ Tail(queue) # <<>> THEN hasWaiters ELSE FALSE
    /\ Goto(t, "notified")
    /\ UNCHANGED <<owner, items>>

\* notifyAll clears the flag without the bucket's lock, and then unparks all.
storeHasWaiters(t) ==
    /\ pc[t] = "store"
    /\ hasWaiters' = FALSE
    /\ Goto(t, "unparkAll")
    /\ UNCHANGED <<queue, owner, items, owed>>

unparkAll(t) ==
    /\ pc[t] = "unparkAll"
    /\ queue' = <<>>
    /\ owed' = [u \in Callers |-> owed[u] \ Queued]
    /\ Goto(t, "notified")
    /\ UNCHANGED <<hasWaiters, owner, items>>

notifyReturns(t) ==
    /\ pc[t] = "notified"
    /\ owed' = [owed EXCEPT ![t] = {}]
    /\ Goto(t, "idle")
    /\ UNCHANGED <<hasWaiters, queue, owner, items>>

----------------------------------------------------------------------------
Step(t) ==
    \/ lock(t) \/ waitUntil(t) \/ lastCheck(t) \/ beforeSleep(t) \/ wakeUp(t)
    \/ add(t) \/ loadHasWaiters(t) \/ unparkOne(t) \/ storeHasWaiters(t)
    \/ unparkAll(t) \/ notifyReturns(t)

Next == \E t \in Callers :
    \/ call(t) \/ lock(t) \/ waitUntil(t) \/ lastCheck(t) \/ beforeSleep(t) \/ wakeUp(t)
    \/ add(t) \/ loadHasWaiters(t) \/ unparkOne(t) \/ storeHasWaiters(t)
    \/ unparkAll(t) \/ notifyReturns(t)

Spec == Init /\ [][Next]_vars

----------------------------------------------------------------------------
(* Properties *)

\* The flag may be clear with threads queued only while a notifyAll that has
\* cleared it is about to unpark them ("It's totally safe for us to set this
\* to false without any locking").
FlagCoversWaiters ==
    queue # <<>> /\ ~hasWaiters => \E t \in Producers : pc[t] = "unparkAll"

\* A notify that returns has woken what it owes: notifyOne one of the threads
\* that were waiting when it was called, notifyAll all of them; if any of them
\* is left, then a concurrent notifyAll is about to wake it.
NotifyReachesWaiters == \A t \in Producers :
    pc[t] = "notified" /\ owed[t] # {} => \E u \in Producers : pc[u] = "unparkAll"

\* No lost wake-up: an item and a sleeping consumer do not stay as they are.
ItemsAreConsumed == (items > 0 /\ queue # <<>>) ~> (items = 0 \/ queue = <<>>)
=============================================================================

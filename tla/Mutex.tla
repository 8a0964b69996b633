------------------------------- MODULE Mutex -------------------------------
(***************************************************************************)
(* What a WTF lock promises its callers: at most one thread owns it, only  *)
(* a thread that asked for it gets it, and a free lock that some thread is *)
(* waiting for does not stay free.  LockAlgorithm (Lock, CountingLock) and *)
(* WordLock implement this specification.                                  *)
(***************************************************************************)
CONSTANTS Threads, NoThread

VARIABLES
    owner,      \* the thread that holds the lock, or NoThread
    waiting     \* the threads inside a call of lock() that has not returned

vars == <<owner, waiting>>

Init == owner = NoThread /\ waiting = {}

\* lock() finds the lock taken.
Request(t) ==
    /\ owner # t /\ t \notin waiting
    /\ waiting' = waiting \cup {t}
    /\ UNCHANGED owner

\* lock() or tryLock() gets a free lock at once.
Enter(t) ==
    /\ owner = NoThread /\ t \notin waiting
    /\ owner' = t
    /\ UNCHANGED waiting

\* A waiting thread gets a free lock: which one is not determined.
Acquire(t) ==
    /\ owner = NoThread /\ t \in waiting
    /\ owner' = t
    /\ waiting' = waiting \ {t}

Release(t) ==
    /\ owner = t
    /\ owner' = NoThread
    /\ UNCHANGED waiting

\* The owner gives the lock to a waiting thread without freeing it.
HandOver(t, u) ==
    /\ owner = t /\ u \in waiting
    /\ owner' = u
    /\ waiting' = waiting \ {u}

Next == \E t \in Threads :
    \/ Request(t) \/ Enter(t) \/ Acquire(t) \/ Release(t)
    \/ \E u \in Threads : HandOver(t, u)

Spec == Init /\ [][Next]_vars

\* A lock does not stay free while a thread is waiting for it.
FairSpec == Spec /\ WF_vars(\E t \in Threads : Acquire(t))
=============================================================================

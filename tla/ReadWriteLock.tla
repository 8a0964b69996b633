--------------------------- MODULE ReadWriteLock ---------------------------
(***************************************************************************)
(* ReadWriteLock.cpp.  Every method holds m_lock, so a method, or the part *)
(* of it up to or after m_cond.wait(), is one step; m_cond is the set of   *)
(* threads that sleep on it (module Condition: no wake-up is lost).        *)
(***************************************************************************)
EXTENDS Naturals, FiniteSets

CONSTANTS Readers, Writers

Callers == Readers \cup Writers

\* What the constants have to satisfy.
ReadWriteLockAssumption ==
    Readers \cap Writers = {} /\ IsFiniteSet(Readers) /\ IsFiniteSet(Writers)

VARIABLES
    isWriteLocked, numReaders, numWaitingWriters,
    pc          \* "idle", "asleep" in wait(), "woken" and wanting m_lock, or "in"

vars == <<isWriteLocked, numReaders, numWaitingWriters, pc>>

At(label) == {t \in Callers : pc[t] = label}

TypeOK ==
    /\ isWriteLocked \in BOOLEAN
    /\ numReaders \in 0 .. Cardinality(Readers)
    /\ numWaitingWriters \in 0 .. Cardinality(Writers)
    /\ pc \in [Callers -> {"idle", "asleep", "woken", "in"}]

Init ==
    /\ isWriteLocked = FALSE
    /\ numReaders = 0
    /\ numWaitingWriters = 0
    /\ pc = [t \in Callers |-> "idle"]

Goto(t, label) == pc' = [pc EXCEPT ![t] = label]

\* readLock() from its start, or from the return of wait() on.
readLock(t) ==
    /\ t \in Readers /\ pc[t] \in {"idle", "woken"}
    /\ IF isWriteLocked \/ numWaitingWriters > 0
         THEN Goto(t, "asleep") /\ UNCHANGED numReaders
         ELSE Goto(t, "in") /\ numReaders' = numReaders + 1
    /\ UNCHANGED <<isWriteLocked, numWaitingWriters>>

\* notifyAll wakes every sleeping thread.
Leave(t, notify) ==
    pc' = [u \in Callers |-> IF u = t THEN "idle"
                             ELSE IF notify /\ pc[u] = "asleep" THEN "woken" ELSE pc[u]]

readUnlock(t) ==
    /\ t \in Readers /\ pc[t] = "in"
    /\ numReaders' = numReaders - 1
    /\ Leave(t, numReaders' = 0)
    /\ UNCHANGED <<isWriteLocked, numWaitingWriters>>

\* writeLock() from its start, or from the return of wait() on: a writer counts
\* as waiting from before it sleeps until it has m_lock again.
writeLock(t) ==
    /\ t \in Writers /\ pc[t] \in {"idle", "woken"}
    /\ LET waiting == numWaitingWriters - (IF pc[t] = "woken" THEN 1 ELSE 0) IN
       IF isWriteLocked \/ numReaders > 0
         THEN /\ numWaitingWriters' = waiting + 1
              /\ Goto(t, "asleep")
              /\ UNCHANGED isWriteLocked
         ELSE /\ numWaitingWriters' = waiting
              /\ isWriteLocked' = TRUE
              /\ Goto(t, "in")
    /\ UNCHANGED numReaders

writeUnlock(t) ==
    /\ t \in Writers /\ pc[t] = "in"
    /\ isWriteLocked' = FALSE
    /\ Leave(t, TRUE)
    /\ UNCHANGED <<numReaders, numWaitingWriters>>

Next == \E t \in Callers :
    readLock(t) \/ readUnlock(t) \/ writeLock(t) \/ writeUnlock(t)

Spec == Init /\ [][Next]_vars

----------------------------------------------------------------------------
(* Properties *)

\* A writer is alone, and the counters say who is in.
Exclusive ==
    /\ At("in") \cap Writers # {} => Cardinality(At("in")) = 1
    /\ isWriteLocked <=> At("in") \cap Writers # {}
    /\ numReaders = Cardinality(At("in") \cap Readers)

\* Nobody sleeps on a lock that nothing will release or pass on: there is a
\* thread in, or one that has been woken.
NoLostWakeUp == At("asleep") # {} => At("in") \cup At("woken") # {}

\* Readers wait for a waiting writer, so that readers, in whatever numbers
\* they come, do not keep the writers out.
WriterGetsIn == (At("asleep") \cap Writers # {}) ~> (At("in") \cap Writers # {})
=============================================================================

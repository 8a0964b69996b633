--------------------------- MODULE WaitingProofs ---------------------------
(***************************************************************************)
(* Proofs that Condition, ReadWriteLock and WordLock lose no wake-up and   *)
(* that their queues and counters say who waits, for any threads.          *)
(***************************************************************************)
EXTENDS Integers, Sequences, MCWaiting, FiniteSetTheorems, TLAPS

-----------------------------------------------------------------------------
(* ReadWriteLock *)

InReaders(p) == {r \in Readers : p[r] = "in"}
WaitingWriters(p) == {w \in Writers : p[w] \in {"asleep", "woken"}}

\* The counters and the flag say who is in and which writers wait; a writer is
\* alone; and if a thread sleeps with nobody in, a writer has been woken.
Counts ==
    /\ numReaders = Cardinality(InReaders(rwPc))
    /\ numWaitingWriters = Cardinality(WaitingWriters(rwPc))
WriteLocked == isWriteLocked <=> \E w \in Writers : rwPc[w] = "in"
WriterAlone == \A w \in Writers, u \in R!Callers : rwPc[w] = "in" /\ rwPc[u] = "in" => w = u
WriterWoken ==
    /\ \A u \in R!Callers : rwPc[u] # "in"
    /\ \E u \in R!Callers : rwPc[u] = "asleep"
    => \E w \in Writers : rwPc[w] = "woken"
RWInv == R!TypeOK /\ Counts /\ WriteLocked /\ WriterAlone /\ WriterWoken

\* Adding a member to a finite set, and removing one, change its cardinality by one.
LEMMA OneMore ==
  ASSUME NEW S, NEW x, IsFiniteSet(S), x \notin S
  PROVE  Cardinality(S \cup {x}) = Cardinality(S) + 1
BY FS_AddElement, Zenon

LEMMA OneLess ==
  ASSUME NEW S, NEW x, IsFiniteSet(S), x \in S
  PROVE  Cardinality(S \ {x}) = Cardinality(S) - 1
BY FS_RemoveElement, Zenon

\* The threads are readers or writers, and the counted sets are finite.
LEMMA RWThreads ==
  /\ Readers \cap Writers = {}
  /\ IsFiniteSet(Readers) /\ IsFiniteSet(Writers)
  /\ R!Cardinality(Readers) = Cardinality(Readers)
  /\ R!Cardinality(Writers) = Cardinality(Writers)
<1>1. Readers \cap Writers = {} /\ IsFiniteSet(Readers) /\ IsFiniteSet(Writers)
  BY WaitingAssumption, Zenon DEF R!ReadWriteLockAssumption, R!IsFiniteSet, IsFiniteSet
<1>2. /\ R!Cardinality(Readers) = Cardinality(Readers)
      /\ R!Cardinality(Writers) = Cardinality(Writers)
  BY Zenon DEF R!Cardinality, Cardinality
<1> QED BY <1>1, <1>2, Zenon

LEMMA RWFinite ==
  ASSUME NEW p
  PROVE  /\ IsFiniteSet(InReaders(p)) /\ IsFiniteSet(WaitingWriters(p))
         /\ Cardinality(InReaders(p)) \in 0 .. R!Cardinality(Readers)
         /\ Cardinality(WaitingWriters(p)) \in 0 .. R!Cardinality(Writers)
         /\ Cardinality(InReaders(p)) = 0 <=> InReaders(p) = {}
         /\ Cardinality(WaitingWriters(p)) = 0 <=> WaitingWriters(p) = {}
<1>1. InReaders(p) \subseteq Readers /\ WaitingWriters(p) \subseteq Writers
  BY Zenon DEF InReaders, WaitingWriters
<1>2. /\ IsFiniteSet(InReaders(p)) /\ Cardinality(InReaders(p)) <= Cardinality(Readers)
      /\ IsFiniteSet(WaitingWriters(p)) /\ Cardinality(WaitingWriters(p)) <= Cardinality(Writers)
  BY <1>1, RWThreads, FS_Subset, Zenon
<1>3. /\ Cardinality(InReaders(p)) \in Nat /\ Cardinality(Readers) \in Nat
      /\ Cardinality(WaitingWriters(p)) \in Nat /\ Cardinality(Writers) \in Nat
  BY <1>2, RWThreads, FS_CardinalityType, Zenon
<1>4. /\ Cardinality(InReaders(p)) = 0 <=> InReaders(p) = {}
      /\ Cardinality(WaitingWriters(p)) = 0 <=> WaitingWriters(p) = {}
  BY <1>2, FS_EmptySet, Zenon
<1> QED BY <1>2, <1>3, <1>4, RWThreads

LEMMA RWInit == R!Init => RWInv
<1> SUFFICES ASSUME R!Init PROVE RWInv
  BY Zenon
<1>1. InReaders(rwPc) = {} /\ WaitingWriters(rwPc) = {}
  BY Zenon DEF R!Init, InReaders, WaitingWriters, R!Callers
<1>2. Counts
  BY <1>1, RWFinite, Zenon DEF R!Init, Counts
<1>3. R!TypeOK
  BY <1>2, RWFinite, Zenon DEF R!TypeOK, R!Init, Counts
<1>4. WriteLocked /\ WriterAlone /\ WriterWoken
  BY Zenon DEF R!Init, WriteLocked, WriterAlone, WriterWoken, R!Callers
<1> QED BY <1>2, <1>3, <1>4, Zenon DEF RWInv

\* readLock: a reader waits for a writer that is in or waits, and is counted when it
\* is in.
LEMMA ReadLockStep ==
  ASSUME RWInv, NEW t \in R!Callers, R!readLock(t)
  PROVE  RWInv'
<1>t. /\ rwPc \in [R!Callers -> {"idle", "asleep", "woken", "in"}]
      /\ t \in Readers /\ t \notin Writers /\ rwPc[t] \in {"idle", "woken"}
      /\ UNCHANGED <<isWriteLocked, numWaitingWriters>> /\ isWriteLocked \in BOOLEAN
      /\ numWaitingWriters \in 0 .. Cardinality(Writers)
  BY RWThreads, Zenon DEF R!TypeOK, RWInv, R!readLock
<1>w. WaitingWriters(rwPc') = WaitingWriters(rwPc)
  BY <1>t, Zenon DEF R!readLock, R!Goto, R!Callers, WaitingWriters
<1>o. \A u \in R!Callers : u # t => rwPc'[u] = rwPc[u]
  BY <1>t, Zenon DEF R!readLock, R!Goto
<1>1. CASE isWriteLocked \/ numWaitingWriters > 0
  <2>1. rwPc' = [rwPc EXCEPT ![t] = "asleep"] /\ numReaders' = numReaders
    BY <1>1, Zenon DEF R!readLock, R!Goto
  <2>2. InReaders(rwPc') = InReaders(rwPc)
    BY <1>t, <2>1, Zenon DEF InReaders, R!Callers
  <2>3. Counts'
    BY <1>t, <1>w, <2>1, <2>2, Zenon DEF Counts, RWInv
  <2>4. R!TypeOK'
    BY <1>t, <2>1, RWThreads, Zenon DEF R!TypeOK, RWInv
  <2>5. WriteLocked' /\ WriterAlone'
    BY <1>t, <2>1, Zenon DEF WriteLocked, WriterAlone, RWInv, R!Callers
  <2>6. WriterWoken'
    <3> SUFFICES ASSUME \A u \in R!Callers : rwPc'[u] # "in"
                 PROVE  \E w \in Writers : rwPc'[w] = "woken"
      BY Zenon DEF WriterWoken
    <3>1. \A u \in R!Callers : rwPc[u] # "in"
      BY <1>t, <1>o, Zenon
    <3>2. ~isWriteLocked
      BY <3>1, Zenon DEF RWInv, WriteLocked, R!Callers
    <3>3. WaitingWriters(rwPc) # {}
      BY <1>1, <3>2, RWFinite DEF RWInv, Counts
    <3>4. \E w \in Writers : rwPc[w] = "woken"
      BY <3>1, <3>3, Zenon DEF WaitingWriters, RWInv, WriterWoken, R!Callers
    <3> QED BY <3>4, <1>t, <1>o, Zenon DEF R!Callers
  <2> QED BY <2>3, <2>4, <2>5, <2>6, Zenon DEF RWInv
<1>2. CASE ~(isWriteLocked \/ numWaitingWriters > 0)
  <2>1. rwPc' = [rwPc EXCEPT ![t] = "in"] /\ numReaders' = numReaders + 1
    BY <1>2, Zenon DEF R!readLock, R!Goto
  <2>2. InReaders(rwPc') = InReaders(rwPc) \cup {t} /\ t \notin InReaders(rwPc)
    BY <1>t, <2>1, Zenon DEF InReaders, R!Callers
  <2>3. Counts'
    BY <1>t, <1>w, <2>1, <2>2, RWFinite, OneMore, Zenon DEF Counts, RWInv
  <2>4. R!TypeOK'
    BY <1>t, <2>1, <2>3, RWFinite, RWThreads, Zenon DEF R!TypeOK, Counts
  <2>5. WriteLocked' /\ WriterAlone'
    BY <1>t, <1>2, <2>1, Zenon DEF WriteLocked, WriterAlone, RWInv, R!Callers
  <2>6. WriterWoken'
    BY <1>t, <2>1, Zenon DEF WriterWoken
  <2> QED BY <2>3, <2>4, <2>5, <2>6, Zenon DEF RWInv
<1> QED BY <1>1, <1>2, Zenon

\* readUnlock: the last reader out wakes everybody.
LEMMA ReadUnlockStep ==
  ASSUME RWInv, NEW t \in R!Callers, R!readUnlock(t)
  PROVE  RWInv'
<1>t. /\ rwPc \in [R!Callers -> {"idle", "asleep", "woken", "in"}]
      /\ t \in Readers /\ t \notin Writers /\ rwPc[t] = "in"
      /\ UNCHANGED <<isWriteLocked, numWaitingWriters>> /\ isWriteLocked \in BOOLEAN
      /\ numReaders' = numReaders - 1
      /\ numWaitingWriters \in 0 .. Cardinality(Writers)
  BY RWThreads, Zenon DEF R!TypeOK, RWInv, R!readUnlock
<1>p. /\ rwPc' \in [R!Callers -> {"idle", "asleep", "woken", "in"}]
      /\ rwPc'[t] = "idle"
      /\ \A u \in R!Callers : u # t => \/ rwPc'[u] = rwPc[u]
                                       \/ rwPc[u] = "asleep" /\ rwPc'[u] = "woken"
      /\ numReaders' = 0 => \A u \in R!Callers : rwPc'[u] # "asleep"
  BY <1>t, Zenon DEF R!readUnlock, R!Leave
<1>w. WaitingWriters(rwPc') = WaitingWriters(rwPc)
  BY <1>t, <1>p, Zenon DEF R!Callers, WaitingWriters
<1>1. InReaders(rwPc') = InReaders(rwPc) \ {t} /\ t \in InReaders(rwPc)
  BY <1>t, <1>p, Zenon DEF InReaders, R!Callers
<1>2. Counts'
  BY <1>t, <1>w, <1>1, RWFinite, OneLess, Zenon DEF Counts, RWInv
<1>3. R!TypeOK'
  BY <1>t, <1>p, <1>2, RWFinite, RWThreads, Zenon DEF R!TypeOK, Counts
<1>4. \A w \in Writers : rwPc[w] # "in" /\ rwPc'[w] # "in"
  BY <1>t, <1>p, Zenon DEF RWInv, WriterAlone, R!Callers
<1>5. WriteLocked' /\ WriterAlone'
  BY <1>t, <1>4, Zenon DEF RWInv, WriteLocked, WriterAlone
<1>6. WriterWoken'
  <2> SUFFICES ASSUME \A u \in R!Callers : rwPc'[u] # "in"
               PROVE  \A u \in R!Callers : rwPc'[u] # "asleep"
    BY Zenon DEF WriterWoken
  <2>1. InReaders(rwPc') = {}
    BY Zenon DEF InReaders, R!Callers
  <2>2. numReaders' = 0
    BY <1>2, <2>1, RWFinite, Zenon DEF Counts
  <2> QED BY <2>2, <1>p, Zenon
<1> QED BY <1>2, <1>3, <1>5, <1>6, Zenon DEF RWInv

\* writeLock: a writer that comes, or comes back, counts as waiting exactly while it
\* sleeps or has been woken, and gets in only when nobody is.
LEMMA WriteLockStep ==
  ASSUME RWInv, NEW t \in R!Callers, R!writeLock(t)
  PROVE  RWInv'
<1>t. /\ rwPc \in [R!Callers -> {"idle", "asleep", "woken", "in"}]
      /\ t \in Writers /\ t \notin Readers /\ rwPc[t] \in {"idle", "woken"}
      /\ numReaders' = numReaders /\ isWriteLocked \in BOOLEAN
      /\ numReaders \in 0 .. Cardinality(Readers)
      /\ numWaitingWriters \in Nat
  BY RWThreads DEF RWInv, R!TypeOK, R!writeLock
<1>o. \A u \in R!Callers : u # t => rwPc'[u] = rwPc[u]
  BY <1>t, Zenon DEF R!writeLock, R!Goto
<1>r. InReaders(rwPc') = InReaders(rwPc)
  BY <1>t, <1>o, Zenon DEF InReaders, R!Callers
<1>w. /\ rwPc[t] = "woken" => t \in WaitingWriters(rwPc)
      /\ rwPc[t] = "idle" => t \notin WaitingWriters(rwPc)
  BY <1>t, Zenon DEF WaitingWriters
<1>1. CASE isWriteLocked \/ numReaders > 0
  <2>1. rwPc' = [rwPc EXCEPT ![t] = "asleep"] /\ isWriteLocked' = isWriteLocked
    BY <1>1, Zenon DEF R!writeLock, R!Goto
  <2>2. WaitingWriters(rwPc') = WaitingWriters(rwPc) \cup {t}
    BY <1>t, <2>1, Zenon DEF WaitingWriters, R!Callers
  <2>3. Counts'
    <3>1. CASE rwPc[t] = "woken"
      <4>1. numWaitingWriters' = numWaitingWriters
        BY <1>t, <1>1, <3>1 DEF R!writeLock
      <4>2. WaitingWriters(rwPc') = WaitingWriters(rwPc)
        BY <2>2, <1>w, <3>1, Zenon
      <4> QED BY <1>t, <1>r, <4>1, <4>2, Zenon DEF Counts, RWInv
    <3>2. CASE rwPc[t] = "idle"
      <4>1. numWaitingWriters' = numWaitingWriters + 1
        BY <1>t, <1>1, <3>2 DEF R!writeLock
      <4>2. Cardinality(WaitingWriters(rwPc')) = Cardinality(WaitingWriters(rwPc)) + 1
        BY <2>2, <1>w, <3>2, RWFinite, OneMore, Zenon
      <4> QED BY <1>t, <1>r, <4>1, <4>2, Zenon DEF Counts, RWInv
    <3> QED BY <3>1, <3>2, <1>t, Zenon
  <2>4. R!TypeOK'
    BY <1>t, <2>1, <2>3, RWFinite, RWThreads, Zenon DEF R!TypeOK, Counts
  <2>5. WriteLocked' /\ WriterAlone'
    BY <1>t, <2>1, Zenon DEF WriteLocked, WriterAlone, RWInv, R!Callers
  <2>6. \E u \in R!Callers : rwPc[u] = "in"
    <3>1. CASE isWriteLocked
      BY <3>1, Zenon DEF RWInv, WriteLocked, R!Callers
    <3>2. CASE numReaders > 0
      <4>1. InReaders(rwPc) # {}
        <5>1. numReaders # 0
          BY <1>t, <3>2
        <5> QED BY <5>1, RWFinite, Zenon DEF RWInv, Counts
      <4> QED BY <4>1, Zenon DEF InReaders, R!Callers
    <3> QED BY <1>1, <3>1, <3>2, Zenon
  <2>7. WriterWoken'
    BY <2>6, <1>o, <1>t, Zenon DEF WriterWoken
  <2> QED BY <2>3, <2>4, <2>5, <2>7, Zenon DEF RWInv
<1>2. CASE ~(isWriteLocked \/ numReaders > 0)
  <2>1. rwPc' = [rwPc EXCEPT ![t] = "in"] /\ isWriteLocked' = TRUE
    BY <1>2, Zenon DEF R!writeLock, R!Goto
  <2>2. WaitingWriters(rwPc') = WaitingWriters(rwPc) \ {t}
    BY <1>t, <2>1, Zenon DEF WaitingWriters, R!Callers
  <2>3. Counts'
    <3>1. CASE rwPc[t] = "woken"
      <4>1. numWaitingWriters' = numWaitingWriters - 1
        BY <1>t, <1>2, <3>1, Zenon DEF R!writeLock
      <4>2. Cardinality(WaitingWriters(rwPc')) = Cardinality(WaitingWriters(rwPc)) - 1
        BY <2>2, <1>w, <3>1, RWFinite, OneLess, Zenon
      <4> QED BY <1>t, <1>r, <4>1, <4>2, Zenon DEF Counts, RWInv
    <3>2. CASE rwPc[t] = "idle"
      <4>1. numWaitingWriters' = numWaitingWriters
        BY <1>t, <1>2, <3>2 DEF R!writeLock
      <4>2. WaitingWriters(rwPc') = WaitingWriters(rwPc)
        BY <2>2, <1>w, <3>2, Zenon
      <4> QED BY <1>t, <1>r, <4>1, <4>2, Zenon DEF Counts, RWInv
    <3> QED BY <3>1, <3>2, <1>t, Zenon
  <2>4. R!TypeOK'
    BY <1>t, <2>1, <2>3, RWFinite, RWThreads, Zenon DEF R!TypeOK, Counts
  <2>5. InReaders(rwPc) = {} /\ \A w \in Writers : rwPc[w] # "in"
    BY <1>2, <1>t, RWFinite DEF RWInv, Counts, WriteLocked
  <2>6. \A u \in R!Callers : rwPc[u] # "in"
    BY <2>5, Zenon DEF InReaders, R!Callers
  <2>7. WriteLocked' /\ WriterAlone'
    BY <1>t, <2>1, <2>6, Zenon DEF WriteLocked, WriterAlone, R!Callers
  <2>8. WriterWoken'
    BY <1>t, <2>1, Zenon DEF WriterWoken
  <2> QED BY <2>3, <2>4, <2>7, <2>8, Zenon DEF RWInv
<1> QED BY <1>1, <1>2, Zenon

\* writeUnlock: a writer that leaves wakes everybody.
LEMMA WriteUnlockStep ==
  ASSUME RWInv, NEW t \in R!Callers, R!writeUnlock(t)
  PROVE  RWInv'
<1>t. /\ rwPc \in [R!Callers -> {"idle", "asleep", "woken", "in"}]
      /\ t \in Writers /\ t \notin Readers /\ rwPc[t] = "in"
      /\ UNCHANGED <<numReaders, numWaitingWriters>> /\ isWriteLocked' = FALSE
  BY RWThreads, Zenon DEF RWInv, R!TypeOK, R!writeUnlock
<1>p. /\ rwPc' \in [R!Callers -> {"idle", "asleep", "woken", "in"}]
      /\ rwPc'[t] = "idle"
      /\ \A u \in R!Callers : u # t => \/ rwPc'[u] = rwPc[u]
                                       \/ rwPc[u] = "asleep" /\ rwPc'[u] = "woken"
      /\ \A u \in R!Callers : rwPc'[u] # "asleep"
  BY <1>t, Zenon DEF R!writeUnlock, R!Leave
<1>w. WaitingWriters(rwPc') = WaitingWriters(rwPc)
  BY <1>t, <1>p, Zenon DEF R!Callers, WaitingWriters
<1>1. InReaders(rwPc') = InReaders(rwPc)
  BY <1>t, <1>p, Zenon DEF InReaders, R!Callers
<1>2. Counts'
  BY <1>t, <1>w, <1>1, Zenon DEF Counts, RWInv
<1>3. R!TypeOK'
  BY <1>t, <1>p, <1>2, RWFinite, RWThreads, Zenon DEF R!TypeOK, Counts
<1>4. \A u \in R!Callers : rwPc'[u] # "in"
  BY <1>t, <1>p, Zenon DEF RWInv, WriterAlone
<1>5. WriteLocked' /\ WriterAlone'
  BY <1>t, <1>4, Zenon DEF WriteLocked, WriterAlone, R!Callers
<1>6. WriterWoken'
  BY <1>p, Zenon DEF WriterWoken
<1> QED BY <1>2, <1>3, <1>5, <1>6, Zenon DEF RWInv

\* What RWInv says in the terms of ReadWriteLock.
LEMMA RWSound == RWInv => R!NoLostWakeUp /\ R!Exclusive
<1> SUFFICES ASSUME RWInv PROVE R!NoLostWakeUp /\ R!Exclusive
  BY Zenon
<1>1. R!NoLostWakeUp
  BY Zenon DEF RWInv, WriterWoken, R!NoLostWakeUp, R!At, R!Callers
<1>2. ASSUME NEW w \in Writers, rwPc[w] = "in"
      PROVE  R!Cardinality(R!At("in")) = 1
  <2>1. R!At("in") = {w}
    BY <1>2, Zenon DEF R!At, RWInv, WriterAlone, R!Callers
  <2>2. R!Cardinality({w}) = Cardinality({w})
    BY Zenon DEF R!Cardinality, Cardinality
  <2> QED BY <2>1, <2>2, FS_Singleton, Zenon
<1>3. isWriteLocked <=> R!At("in") \cap Writers # {}
  BY Zenon DEF RWInv, WriteLocked, R!At, R!Callers
<1>4. R!At("in") \cap Readers = InReaders(rwPc)
  BY Zenon DEF R!At, R!Callers, InReaders
<1>5. R!Cardinality(InReaders(rwPc)) = Cardinality(InReaders(rwPc))
  BY Zenon DEF R!Cardinality, Cardinality
<1>6. numReaders = R!Cardinality(R!At("in") \cap Readers)
  BY <1>4, <1>5, Zenon DEF RWInv, Counts
<1>7. R!At("in") \cap Writers # {} => R!Cardinality(R!At("in")) = 1
  BY <1>2, Zenon DEF R!At
<1> QED BY <1>1, <1>3, <1>6, <1>7, Zenon DEF R!Exclusive

\* ReadWriteLock.cpp: for any readers and writers, a writer is alone, the counters say
\* who is in, and nobody sleeps on a lock that nothing will release or pass on.
THEOREM ReadersAndWriters == R!Spec => [](R!NoLostWakeUp /\ R!Exclusive)
<1>1. RWInv /\ [R!Next]_R!vars => RWInv'
  <2> SUFFICES ASSUME RWInv, [R!Next]_R!vars PROVE RWInv'
    BY Zenon
  <2>1. CASE R!Next
    BY <2>1, ReadLockStep, ReadUnlockStep, WriteLockStep, WriteUnlockStep, Zenon DEF R!Next
  <2>2. CASE UNCHANGED R!vars
    BY <2>2, Zenon DEF R!vars, RWInv, R!TypeOK, Counts, WriteLocked, WriterAlone, WriterWoken
  <2> QED BY <2>1, <2>2, Zenon
<1> QED BY RWInit, <1>1, RWSound, PTL DEF R!Spec

-----------------------------------------------------------------------------
(* Condition *)

Consuming == {"check", "beforeSleep", "asleep", "timedOut", "lastCheck"}
Producing == {"add", "notifyOne", "notifyAll", "unparkOne", "store", "unparkAll", "notified"}
Labels == {"idle", "lock", "relock"} \cup Consuming \cup Producing

\* Consumers wait and producers notify; and what a notify owes is still queued.
CRoles == \A t \in C!Callers :
    (cPc[t] \in Consuming => t \in Consumers) /\ (cPc[t] \in Producing => t \in Producers)
COwed == \A t \in C!Callers : cOwed[t] \subseteq C!Queued
CInv == C!TypeOK /\ CRoles /\ COwed /\ C!FlagCoversWaiters /\ C!NotifyReachesWaiters

\* Appending to a queue, taking its first and removing any one of it leave the others
\* queued.
LEMMA QueueAppend ==
  ASSUME NEW S, NEW s \in Seq(S), NEW x \in S
  PROVE  /\ Append(s, x) \in Seq(S)
         /\ \A i \in DOMAIN s : i \in DOMAIN Append(s, x) /\ Append(s, x)[i] = s[i]
OBVIOUS

LEMMA QueueTail ==
  ASSUME NEW S, NEW s \in Seq(S), s # << >>
  PROVE  /\ Tail(s) \in Seq(S)
         /\ \A i \in DOMAIN s : s[i] = Head(s) \/ (i - 1 \in DOMAIN Tail(s) /\ Tail(s)[i - 1] = s[i])
OBVIOUS

LEMMA QueueRemove ==
  ASSUME cQueue \in Seq(Consumers), NEW i \in DOMAIN cQueue
  PROVE  /\ C!Without(i) \in Seq(Consumers)
         /\ \A j \in DOMAIN cQueue : j # i =>
               \E k \in DOMAIN C!Without(i) : C!Without(i)[k] = cQueue[j]
<1>1. DOMAIN cQueue = 1 .. Len(cQueue) /\ Len(cQueue) \in Nat /\ i \in 1 .. Len(cQueue)
  OBVIOUS
<1>2. DOMAIN C!Without(i) = 1 .. Len(cQueue) - 1
  BY Zenon DEF C!Without
<1>3. \A k \in 1 .. Len(cQueue) - 1 :
         C!Without(i)[k] \in Consumers /\ C!Without(i)[k] = cQueue[IF k < i THEN k ELSE k + 1]
  BY <1>1 DEF C!Without
<1>4. C!Without(i) \in Seq(Consumers)
  <2>1. C!Without(i) \in [1 .. Len(cQueue) - 1 -> Consumers]
    BY <1>3, Zenon DEF C!Without
  <2>2. Len(cQueue) - 1 \in Nat
    BY <1>1
  <2> QED BY <2>1, <2>2
<1>5. ASSUME NEW j \in 1 .. Len(cQueue), j < i
      PROVE  j \in 1 .. Len(cQueue) - 1 /\ C!Without(i)[j] = cQueue[j]
  BY <1>1, <1>3, <1>5
<1>6. ASSUME NEW j \in 1 .. Len(cQueue), j > i
      PROVE  j - 1 \in 1 .. Len(cQueue) - 1 /\ C!Without(i)[j - 1] = cQueue[j]
  <2>1. j - 1 \in 1 .. Len(cQueue) - 1 /\ ~(j - 1 < i) /\ (j - 1) + 1 = j
    BY <1>1, <1>6
  <2> QED BY <2>1, <1>3, Zenon
<1>7. \A j \in 1 .. Len(cQueue) : j # i => j < i \/ j > i
  BY <1>1
<1> QED BY <1>1, <1>2, <1>4, <1>5, <1>6, <1>7, Zenon

LEMMA ConditionInit == C!Init => CInv
<1> SUFFICES ASSUME C!Init PROVE CInv
  BY Zenon
<1>1. C!TypeOK
  <2>1. cHasWaiters \in BOOLEAN /\ cOwner \in C!Callers \cup {NoHolder}
    BY Zenon DEF C!Init
  <2>2. cQueue \in Seq(Consumers)
    BY DEF C!Init
  <2>3. cItems \in 0 .. Items
    BY WaitingAssumption DEF C!Init, C!ConditionAssumption
  <2>4. cOwed \in [C!Callers -> SUBSET Consumers]
    BY Zenon DEF C!Init
  <2> QED BY <2>1, <2>2, <2>3, <2>4, Zenon DEF C!Init, C!TypeOK
<1>2. CRoles
  BY Zenon DEF C!Init, CRoles, Consuming, Producing
<1>3. COwed
  BY Zenon DEF C!Init, COwed
<1>4. C!FlagCoversWaiters
  BY Zenon DEF C!Init, C!FlagCoversWaiters
<1>5. C!NotifyReachesWaiters
  BY Zenon DEF C!Init, C!NotifyReachesWaiters, C!Callers
<1> QED BY <1>1, <1>2, <1>3, <1>4, <1>5, Zenon DEF CInv

\* The type invariant with the labels by their roles.
LEMMA ConditionType ==
  C!TypeOK <=> /\ cHasWaiters \in BOOLEAN /\ cQueue \in Seq(Consumers)
               /\ cOwner \in C!Callers \cup {NoHolder} /\ cItems \in 0 .. Items
               /\ cPc \in [C!Callers -> Labels] /\ cOwed \in [C!Callers -> SUBSET Consumers]
<1>1. Labels = {"idle", "lock", "check", "beforeSleep", "asleep", "relock",
                "timedOut", "lastCheck", "add", "notifyOne", "notifyAll", "unparkOne",
                "store", "unparkAll", "notified"}
  BY Zenon DEF Labels, Consuming, Producing
<1> QED BY <1>1, Zenon DEF C!TypeOK

\* What a step of t to a label keeps: the types and the roles.
Fits(t, label) ==
    /\ label \in Labels
    /\ label \in Consuming => t \in Consumers
    /\ label \in Producing => t \in Producers
LEMMA ConditionGoto ==
  ASSUME CInv, NEW t \in C!Callers, NEW label, Fits(t, label), C!Goto(t, label)
  PROVE  /\ CRoles' /\ cPc' \in [C!Callers -> Labels]
         /\ cPc'[t] = label /\ \A u \in C!Callers : u # t => cPc'[u] = cPc[u]
<1>1. cPc \in [C!Callers -> Labels]
  BY ConditionType, Zenon DEF CInv
<1>2. cPc' = [cPc EXCEPT ![t] = label]
  BY Zenon DEF C!Goto
<1> QED BY <1>1, <1>2, Zenon DEF CInv, CRoles, Fits

\* A step that leaves the flag, the queue and what is owed alone, is not an unparkAll
\* and does not end a notify.
LEMMA ConditionQuiet ==
  ASSUME CInv, NEW t \in C!Callers, NEW label, Fits(t, label), C!Goto(t, label),
         cPc[t] # "unparkAll", label # "notified",
         UNCHANGED <<cHasWaiters, cQueue, cOwed>>,
         cOwner' \in C!Callers \cup {NoHolder}, cItems' \in 0 .. Items
  PROVE  CInv'
<1>1. /\ CRoles' /\ cPc' \in [C!Callers -> Labels]
      /\ cPc'[t] = label /\ \A u \in C!Callers : u # t => cPc'[u] = cPc[u]
  BY ConditionGoto, Zenon
<1>2. C!TypeOK'
  BY <1>1, ConditionType, Zenon DEF CInv, C!TypeOK, Labels, Consuming, Producing
<1>3. COwed'
  BY Zenon DEF CInv, COwed, C!Queued
<1>4. ASSUME NEW u \in Producers, cPc[u] = "unparkAll" PROVE cPc'[u] = "unparkAll"
  BY <1>1, <1>4, Zenon DEF C!Callers
<1>5. C!FlagCoversWaiters'
  BY <1>4, Zenon DEF CInv, C!FlagCoversWaiters
<1>6. C!NotifyReachesWaiters'
  <2> SUFFICES ASSUME NEW v \in Producers, cPc'[v] = "notified", cOwed'[v] # {}
               PROVE  \E u \in Producers : cPc'[u] = "unparkAll"
    BY Zenon DEF C!NotifyReachesWaiters
  <2>1. cPc[v] = "notified" /\ cOwed[v] # {}
    BY <1>1, Zenon DEF C!Callers
  <2>2. PICK u \in Producers : cPc[u] = "unparkAll"
    BY <2>1, Zenon DEF CInv, C!NotifyReachesWaiters
  <2> QED BY <2>2, <1>4, Zenon
<1> QED BY <1>1, <1>2, <1>3, <1>5, <1>6, Zenon DEF CInv

\* The steps of a consumer, and of a producer until it notifies.
LEMMA ConditionCallStep ==
  ASSUME CInv, NEW t \in C!Callers, C!call(t)
  PROVE  CInv'
<1>1. Fits(t, "lock")
  BY Zenon DEF Fits, Labels, Consuming, Producing
<1> QED BY <1>1, ConditionQuiet, ConditionType, Zenon DEF C!call, CInv

LEMMA ConditionLockStep ==
  ASSUME CInv, NEW t \in C!Callers, C!lock(t)
  PROVE  CInv'
<1>1. /\ cPc[t] \in {"lock", "relock", "timedOut"} /\ cOwner' = t
      /\ UNCHANGED <<cHasWaiters, cQueue, cItems, cOwed>> /\ cItems \in 0 .. Items
  BY ConditionType, Zenon DEF C!lock, CInv
<1>2. PICK label \in {"add", "check", "lastCheck"} :
          C!Goto(t, label) /\ (label = "add" <=> t \in Producers)
  <2>1. Consumers \cap Producers = {}
    BY WaitingAssumption, Zenon DEF C!ConditionAssumption
  <2>2. CASE t \in Producers
    BY <2>1, <2>2, Zenon DEF C!lock
  <2>3. CASE t \in Consumers /\ cPc[t] # "timedOut"
    BY <2>1, <2>3, Zenon DEF C!lock
  <2>4. CASE t \in Consumers /\ cPc[t] = "timedOut"
    BY <2>1, <2>4, Zenon DEF C!lock
  <2> QED BY <2>2, <2>3, <2>4, Zenon DEF C!Callers
<1>3. Fits(t, label)
  BY <1>2, Zenon DEF Fits, Labels, Consuming, Producing, C!Callers
<1> QED BY <1>1, <1>2, <1>3, ConditionQuiet, Zenon

LEMMA ConditionTakeStep ==
  ASSUME CInv, NEW t \in C!Callers, cPc[t] \in {"check", "lastCheck"}, C!Take(t)
  PROVE  CInv'
<1>1. cItems' \in 0 .. Items
  <2>1. cItems \in 0 .. Items /\ Items \in Nat
    BY ConditionType, WaitingAssumption, Zenon DEF CInv, C!ConditionAssumption
  <2> QED BY <2>1 DEF C!Take
<1>2. Fits(t, "idle")
  BY Zenon DEF Fits, Labels, Consuming, Producing
<1> QED BY <1>1, <1>2, ConditionQuiet, Zenon DEF C!Take

LEMMA ConditionParkStep ==
  ASSUME CInv, NEW t \in C!Callers, cPc[t] = "check", C!Park(t)
  PROVE  CInv'
<1>0. t \in Consumers
  BY Zenon DEF CInv, CRoles, Consuming
<1>1. Fits(t, "beforeSleep")
  BY <1>0, Zenon DEF Fits, Labels, Consuming, Producing
<1>2. /\ CRoles' /\ cPc' \in [C!Callers -> Labels]
      /\ cPc'[t] = "beforeSleep" /\ \A u \in C!Callers : u # t => cPc'[u] = cPc[u]
  BY <1>1, ConditionGoto, Zenon DEF C!Park
<1>3. /\ cHasWaiters' = TRUE /\ cQueue' = Append(cQueue, t)
      /\ UNCHANGED <<cOwner, cItems, cOwed>> /\ cQueue \in Seq(Consumers)
  BY ConditionType, Zenon DEF C!Park, CInv
<1>4. /\ cQueue' \in Seq(Consumers)
      /\ \A i \in DOMAIN cQueue : i \in DOMAIN cQueue' /\ cQueue'[i] = cQueue[i]
  BY <1>0, <1>3, QueueAppend
<1>5. C!TypeOK'
  BY <1>2, <1>3, <1>4, ConditionType, Zenon DEF CInv, C!TypeOK, Labels, Consuming, Producing
<1>6. C!Queued \subseteq C!Queued'
  BY <1>4, Zenon DEF C!Queued
<1>7. COwed'
  BY <1>3, <1>6, Zenon DEF CInv, COwed
<1>8. C!FlagCoversWaiters'
  BY <1>3, Zenon DEF C!FlagCoversWaiters
<1>9. C!NotifyReachesWaiters'
  <2> SUFFICES ASSUME NEW v \in Producers, cPc'[v] = "notified", cOwed'[v] # {}
               PROVE  \E u \in Producers : cPc'[u] = "unparkAll"
    BY Zenon DEF C!NotifyReachesWaiters
  <2>1. cPc[v] = "notified" /\ cOwed[v] # {}
    BY <1>2, <1>3, Zenon DEF C!Callers
  <2>2. PICK u \in Producers : cPc[u] = "unparkAll"
    BY <2>1, Zenon DEF CInv, C!NotifyReachesWaiters
  <2>3. u # t
    BY <2>2, Zenon
  <2> QED BY <2>2, <2>3, <1>2, Zenon DEF C!Callers
<1> QED BY <1>2, <1>5, <1>7, <1>8, <1>9, Zenon DEF CInv

LEMMA ConditionWaitStep ==
  ASSUME CInv, NEW t \in C!Callers, C!waitUntil(t) \/ C!lastCheck(t) \/ C!beforeSleep(t)
  PROVE  CInv'
<1>t. cItems \in 0 .. Items
  BY ConditionType, Zenon DEF CInv
<1>1. CASE C!Take(t) /\ cPc[t] \in {"check", "lastCheck"}
  BY <1>1, ConditionTakeStep, Zenon
<1>2. CASE C!Park(t) /\ cPc[t] = "check"
  BY <1>2, ConditionParkStep, Zenon
<1>3. CASE C!PastTimeout(t) /\ cPc[t] = "check"
  <2>1. t \in Consumers
    BY <1>3, Zenon DEF CInv, CRoles, Consuming
  <2>2. Fits(t, "timedOut")
    BY <2>1, Zenon DEF Fits, Labels, Consuming, Producing
  <2> QED BY <2>2, <1>3, <1>t, ConditionQuiet, Zenon DEF C!PastTimeout
<1>4. CASE C!lastCheck(t) /\ ~C!Take(t)
  <2>1. Fits(t, "idle")
    BY Zenon DEF Fits, Labels, Consuming, Producing
  <2> QED BY <2>1, <1>4, <1>t, ConditionQuiet, Zenon DEF C!lastCheck
<1>5. CASE C!beforeSleep(t)
  <2>1. t \in Consumers
    BY <1>5, Zenon DEF CInv, CRoles, Consuming, C!beforeSleep
  <2>2. Fits(t, "asleep")
    BY <2>1, Zenon DEF Fits, Labels, Consuming, Producing
  <2> QED BY <2>2, <1>5, <1>t, ConditionQuiet, Zenon DEF C!beforeSleep
<1> QED BY <1>1, <1>2, <1>3, <1>4, <1>5, Zenon DEF C!waitUntil, C!lastCheck

\* What is left to show of a step that changes the flag, the queue or what is owed.
LEMMA ConditionStep ==
  ASSUME CInv, NEW t \in C!Callers, NEW label, Fits(t, label), C!Goto(t, label),
         cHasWaiters' \in BOOLEAN, cQueue' \in Seq(Consumers),
         cOwner' \in C!Callers \cup {NoHolder}, cItems' \in 0 .. Items,
         cOwed' \in [C!Callers -> SUBSET Consumers], COwed',
         cQueue' # << >> /\ ~cHasWaiters' => \E u \in Producers : cPc'[u] = "unparkAll",
         \A v \in Producers : cPc'[v] = "notified" /\ cOwed'[v] # {} =>
             \E u \in Producers : cPc'[u] = "unparkAll"
  PROVE  CInv'
<1>1. CRoles' /\ cPc' \in [C!Callers -> Labels]
  BY ConditionGoto, Zenon
<1>2. C!TypeOK'
  BY <1>1, Zenon DEF C!TypeOK, Labels, Consuming, Producing
<1> QED BY <1>1, <1>2, Zenon DEF CInv, C!FlagCoversWaiters, C!NotifyReachesWaiters

\* A thread that wakes was unparked, or leaves the queue and is owed no more.
LEMMA ConditionWakeUpStep ==
  ASSUME CInv, NEW t \in C!Callers, C!wakeUp(t)
  PROVE  CInv'
<1>t. /\ cHasWaiters \in BOOLEAN /\ cQueue \in Seq(Consumers) /\ cItems \in 0 .. Items
      /\ cOwner \in C!Callers \cup {NoHolder} /\ cOwed \in [C!Callers -> SUBSET Consumers]
      /\ UNCHANGED <<cHasWaiters, cOwner, cItems>> /\ cPc[t] = "asleep"
  BY ConditionType, Zenon DEF CInv, C!wakeUp
<1>c. t \in Consumers
  BY <1>t, Zenon DEF CInv, CRoles, Consuming
<1>1. CASE C!Goto(t, "relock") /\ UNCHANGED <<cQueue, cOwed>>
  <2>1. Fits(t, "relock")
    BY Zenon DEF Fits, Labels, Consuming, Producing
  <2> QED BY <1>1, <1>t, <2>1, ConditionQuiet, Zenon
<1>2. ASSUME NEW i \in DOMAIN cQueue, cQueue[i] = t, cQueue' = C!Without(i),
             cOwed' = [u \in C!Callers |-> cOwed[u] \ {t}], C!Goto(t, "timedOut")
      PROVE  CInv'
  <2>1. Fits(t, "timedOut")
    BY <1>c, Zenon DEF Fits, Labels, Consuming, Producing
  <2>2. cPc'[t] = "timedOut" /\ \A u \in C!Callers : u # t => cPc'[u] = cPc[u]
    BY <1>2, <2>1, ConditionGoto, Zenon
  <2>3. /\ cQueue' \in Seq(Consumers)
        /\ \A j \in DOMAIN cQueue : j # i => \E k \in DOMAIN cQueue' : cQueue'[k] = cQueue[j]
    BY <1>t, <1>2, QueueRemove, Zenon
  <2>4. C!Queued \ {t} \subseteq C!Queued'
    BY <1>2, <2>3 DEF C!Queued
  <2>5. COwed'
    BY <1>2, <2>4, Zenon DEF CInv, COwed
  <2>6. cOwed' \in [C!Callers -> SUBSET Consumers] /\ \A u \in C!Callers : cOwed'[u] \subseteq cOwed[u]
    BY <1>t, <1>2, Zenon
  <2>7. ASSUME \E u \in Producers : cPc[u] = "unparkAll"
        PROVE  \E u \in Producers : cPc'[u] = "unparkAll"
    BY <1>t, <2>2, <2>7, Zenon DEF C!Callers
  <2>8. cQueue' # << >> /\ ~cHasWaiters' => \E u \in Producers : cPc'[u] = "unparkAll"
    BY <1>t, <1>2, <2>7 DEF CInv, C!FlagCoversWaiters
  <2>9. ASSUME NEW v \in Producers, cPc'[v] = "notified", cOwed'[v] # {}
        PROVE  \E u \in Producers : cPc'[u] = "unparkAll"
    <3>1. cPc[v] = "notified" /\ cOwed[v] # {}
      BY <2>2, <2>6, <2>9, Zenon DEF C!Callers
    <3> QED BY <3>1, <2>7, Zenon DEF CInv, C!NotifyReachesWaiters
  <2> QED BY <1>t, <1>2, <2>1, <2>3, <2>5, <2>6, <2>8, <2>9, ConditionStep, Zenon
<1> QED BY <1>1, <1>2, Zenon DEF C!wakeUp

\* A notify owes the threads that are queued when it begins.
LEMMA ConditionAddStep ==
  ASSUME CInv, NEW t \in C!Callers, C!add(t)
  PROVE  CInv'
<1>t. /\ cHasWaiters \in BOOLEAN /\ cQueue \in Seq(Consumers)
      /\ cOwed \in [C!Callers -> SUBSET Consumers] /\ cOwner' = NoHolder
      /\ UNCHANGED <<cHasWaiters, cQueue>> /\ cPc[t] = "add"
  BY ConditionType, Zenon DEF CInv, C!add
<1>i. cItems' \in 0 .. Items
  <2>1. cItems \in 0 .. Items /\ Items \in Nat
    BY ConditionType, WaitingAssumption, Zenon DEF CInv, C!ConditionAssumption
  <2> QED BY <2>1 DEF C!add
<1>1. PICK notify \in {"notifyOne", "notifyAll"} : C!Goto(t, notify)
  BY Zenon DEF C!add
<1>2. Fits(t, notify)
  BY <1>t, Zenon DEF CInv, CRoles, Fits, Labels, Consuming, Producing
<1>3. cPc'[t] = notify /\ \A u \in C!Callers : u # t => cPc'[u] = cPc[u]
  BY <1>1, <1>2, ConditionGoto, Zenon
<1>4. C!Queued \subseteq Consumers
  BY <1>t DEF C!Queued
<1>5. /\ cOwed' \in [C!Callers -> SUBSET Consumers]
      /\ cOwed'[t] = C!Queued /\ \A u \in C!Callers : u # t => cOwed'[u] = cOwed[u]
  BY <1>t, <1>4, Zenon DEF C!add
<1>6. COwed'
  BY <1>t, <1>5, Zenon DEF CInv, COwed, C!Queued
<1>7. ASSUME \E u \in Producers : cPc[u] = "unparkAll"
      PROVE  \E u \in Producers : cPc'[u] = "unparkAll"
  BY <1>t, <1>3, <1>7, Zenon DEF C!Callers
<1>8. cQueue' # << >> /\ ~cHasWaiters' => \E u \in Producers : cPc'[u] = "unparkAll"
  BY <1>t, <1>7, Zenon DEF CInv, C!FlagCoversWaiters
<1>9. ASSUME NEW v \in Producers, cPc'[v] = "notified", cOwed'[v] # {}
      PROVE  \E u \in Producers : cPc'[u] = "unparkAll"
  <2>1. v # t /\ cPc[v] = "notified" /\ cOwed[v] # {}
    BY <1>3, <1>5, <1>9, Zenon DEF C!Callers
  <2> QED BY <2>1, <1>7, Zenon DEF CInv, C!NotifyReachesWaiters
<1> QED BY <1>t, <1>i, <1>1, <1>2, <1>5, <1>6, <1>8, <1>9, ConditionStep, Zenon

\* The fast path: with the flag clear there is nothing to wake, or a notifyAll is about
\* to.
LEMMA ConditionLoadStep ==
  ASSUME CInv, NEW t \in C!Callers, C!loadHasWaiters(t)
  PROVE  CInv'
<1>t. /\ cHasWaiters \in BOOLEAN /\ cQueue \in Seq(Consumers) /\ cItems \in 0 .. Items
      /\ cOwner \in C!Callers \cup {NoHolder} /\ cOwed \in [C!Callers -> SUBSET Consumers]
      /\ UNCHANGED <<cHasWaiters, cQueue, cOwner, cItems, cOwed>>
      /\ cPc[t] \in {"notifyOne", "notifyAll"}
  BY ConditionType, Zenon DEF CInv, C!loadHasWaiters
<1>1. PICK label \in {"notified", "unparkOne", "store"} :
          C!Goto(t, label) /\ (label = "notified" => ~cHasWaiters)
  BY Zenon DEF C!loadHasWaiters
<1>2. Fits(t, label)
  BY <1>t, Zenon DEF CInv, CRoles, Fits, Labels, Consuming, Producing
<1>3. CASE label # "notified"
  BY <1>t, <1>1, <1>2, <1>3, ConditionQuiet, Zenon
<1>4. CASE label = "notified"
  <2>1. cPc'[t] = "notified" /\ \A u \in C!Callers : u # t => cPc'[u] = cPc[u]
    BY <1>1, <1>2, <1>4, ConditionGoto, Zenon
  <2>2. COwed'
    BY <1>t, Zenon DEF CInv, COwed, C!Queued
  <2>3. ASSUME \E u \in Producers : cPc[u] = "unparkAll"
        PROVE  \E u \in Producers : cPc'[u] = "unparkAll"
    BY <1>t, <2>1, <2>3, Zenon DEF C!Callers
  <2>4. cQueue' # << >> /\ ~cHasWaiters' => \E u \in Producers : cPc'[u] = "unparkAll"
    BY <1>t, <2>3, Zenon DEF CInv, C!FlagCoversWaiters
  <2>5. ASSUME NEW v \in Producers, cPc'[v] = "notified", cOwed'[v] # {}
        PROVE  \E u \in Producers : cPc'[u] = "unparkAll"
    <3>1. CASE v = t
      <4>1. cQueue # << >>
        BY <1>t, <2>5, <3>1 DEF CInv, COwed, C!Queued
      <4> QED BY <4>1, <1>1, <1>4, <2>3, Zenon DEF CInv, C!FlagCoversWaiters
    <3>2. CASE v # t
      <4>1. cPc[v] = "notified" /\ cOwed[v] # {}
        BY <1>t, <2>1, <2>5, <3>2, Zenon DEF C!Callers
      <4> QED BY <4>1, <2>3, Zenon DEF CInv, C!NotifyReachesWaiters
    <3> QED BY <3>1, <3>2, Zenon
  <2> QED BY <1>t, <1>1, <1>2, <2>2, <2>4, <2>5, ConditionStep, Zenon
<1> QED BY <1>3, <1>4, Zenon

\* unparkOne wakes the first thread, and clears the flag only if it was the last.
LEMMA ConditionUnparkOneStep ==
  ASSUME CInv, NEW t \in C!Callers, C!unparkOne(t)
  PROVE  CInv'
<1>t. /\ cHasWaiters \in BOOLEAN /\ cQueue \in Seq(Consumers) /\ cItems \in 0 .. Items
      /\ cOwner \in C!Callers \cup {NoHolder} /\ cOwed \in [C!Callers -> SUBSET Consumers]
      /\ UNCHANGED <<cOwner, cItems>> /\ cPc[t] = "unparkOne" /\ C!Goto(t, "notified")
  BY ConditionType, Zenon DEF CInv, C!unparkOne
<1>1. Fits(t, "notified")
  BY <1>t, Zenon DEF CInv, CRoles, Fits, Labels, Consuming, Producing
<1>2. cPc'[t] = "notified" /\ \A u \in C!Callers : u # t => cPc'[u] = cPc[u]
  BY <1>t, <1>1, ConditionGoto, Zenon
<1>3. ASSUME \E u \in Producers : cPc[u] = "unparkAll"
      PROVE  \E u \in Producers : cPc'[u] = "unparkAll"
  BY <1>t, <1>2, <1>3, Zenon DEF C!Callers
<1>4. /\ cHasWaiters' \in BOOLEAN /\ cQueue' \in Seq(Consumers)
      /\ cOwed' \in [C!Callers -> SUBSET Consumers] /\ cOwed'[t] = {} /\ COwed'
      /\ \A u \in C!Callers : cOwed'[u] \subseteq cOwed[u]
      /\ cQueue' # << >> => cHasWaiters' = cHasWaiters /\ cQueue # << >>
  <2>1. CASE cQueue = << >>
    <3>1. cHasWaiters' = FALSE /\ UNCHANGED <<cQueue, cOwed>>
      BY <2>1, Zenon DEF C!unparkOne
    <3>2. C!Queued = {}
      BY <2>1 DEF C!Queued
    <3>3. COwed'
      BY <3>1, Zenon DEF CInv, COwed, C!Queued
    <3>4. cOwed'[t] = {}
      BY <3>1, <3>2, Zenon DEF CInv, COwed
    <3> QED BY <1>t, <2>1, <3>1, <3>3, <3>4, Zenon
  <2>2. CASE cQueue # << >>
    <3>1. /\ cQueue' = Tail(cQueue)
          /\ cOwed' = [u \in C!Callers |-> IF u = t THEN {} ELSE cOwed[u] \ {Head(cQueue)}]
      BY <2>2, Zenon DEF C!unparkOne
    <3>2. PICK others \in BOOLEAN :
              cHasWaiters' = IF others \/ Tail(cQueue) # << >> THEN cHasWaiters ELSE FALSE
      BY <2>2, Zenon DEF C!unparkOne
    <3>3. cHasWaiters' \in BOOLEAN /\ (cQueue' # << >> => cHasWaiters' = cHasWaiters)
      BY <1>t, <3>1, <3>2, Zenon
    <3>4. /\ cQueue' \in Seq(Consumers)
          /\ \A i \in DOMAIN cQueue : \/ cQueue[i] = Head(cQueue)
                                      \/ i - 1 \in DOMAIN cQueue' /\ cQueue'[i - 1] = cQueue[i]
      BY <1>t, <2>2, <3>1, QueueTail, Zenon
    <3>5. C!Queued \ {Head(cQueue)} \subseteq C!Queued'
      BY <3>4, Zenon DEF C!Queued
    <3>6. COwed'
      BY <3>1, <3>5, Zenon DEF CInv, COwed
    <3>7. /\ cOwed' \in [C!Callers -> SUBSET Consumers] /\ cOwed'[t] = {}
          /\ \A u \in C!Callers : cOwed'[u] \subseteq cOwed[u]
      BY <1>t, <3>1, Zenon
    <3> QED BY <2>2, <3>3, <3>4, <3>6, <3>7, Zenon
  <2> QED BY <2>1, <2>2, Zenon
<1>5. cQueue' # << >> /\ ~cHasWaiters' => \E u \in Producers : cPc'[u] = "unparkAll"
  BY <1>4, <1>3 DEF CInv, C!FlagCoversWaiters
<1>6. ASSUME NEW v \in Producers, cPc'[v] = "notified", cOwed'[v] # {}
      PROVE  \E u \in Producers : cPc'[u] = "unparkAll"
  <2>1. v # t /\ cPc[v] = "notified" /\ cOwed[v] # {}
    BY <1>2, <1>4, <1>6, Zenon DEF C!Callers
  <2> QED BY <2>1, <1>3, Zenon DEF CInv, C!NotifyReachesWaiters
<1> QED BY <1>t, <1>1, <1>4, <1>5, <1>6, ConditionStep, Zenon

\* notifyAll clears the flag, and is then itself the one that is about to unpark all.
LEMMA ConditionNotifyAllStep ==
  ASSUME CInv, NEW t \in C!Callers, C!storeHasWaiters(t) \/ C!unparkAll(t)
  PROVE  CInv'
<1>t. /\ cHasWaiters \in BOOLEAN /\ cQueue \in Seq(Consumers) /\ cItems \in 0 .. Items
      /\ cOwner \in C!Callers \cup {NoHolder} /\ cOwed \in [C!Callers -> SUBSET Consumers]
      /\ UNCHANGED <<cOwner, cItems>> /\ cPc[t] \in {"store", "unparkAll"} /\ t \in Producers
  BY ConditionType, Zenon DEF CInv, CRoles, Producing, C!storeHasWaiters, C!unparkAll
<1>1. CASE C!storeHasWaiters(t)
  <2>1. Fits(t, "unparkAll")
    BY <1>t, Zenon DEF Fits, Labels, Consuming, Producing
  <2>2. cPc'[t] = "unparkAll"
    BY <1>1, <2>1, ConditionGoto, Zenon DEF C!storeHasWaiters
  <2>3. cHasWaiters' = FALSE /\ UNCHANGED <<cQueue, cOwed>> /\ C!Goto(t, "unparkAll")
    BY <1>1, Zenon DEF C!storeHasWaiters
  <2>4. COwed'
    BY <2>3, Zenon DEF CInv, COwed, C!Queued
  <2>5. \E u \in Producers : cPc'[u] = "unparkAll"
    BY <1>t, <2>2, Zenon
  <2> QED BY <1>t, <2>1, <2>3, <2>4, <2>5, ConditionStep, Zenon
<1>2. CASE C!unparkAll(t)
  <2>1. Fits(t, "notified")
    BY <1>t, Zenon DEF Fits, Labels, Consuming, Producing
  <2>2. /\ cQueue' = << >> /\ cHasWaiters' = cHasWaiters /\ C!Goto(t, "notified")
        /\ cOwed' = [u \in C!Callers |-> cOwed[u] \ C!Queued]
    BY <1>2, Zenon DEF C!unparkAll
  <2>3. \A u \in C!Callers : cOwed'[u] = {}
    BY <2>2, Zenon DEF CInv, COwed
  <2>4. cOwed' \in [C!Callers -> SUBSET Consumers] /\ cQueue' \in Seq(Consumers)
    BY <1>t, <2>2
  <2>5. COwed'
    BY <2>3, Zenon DEF COwed
  <2>6. \A v \in Producers : cPc'[v] = "notified" /\ cOwed'[v] # {} =>
            \E u \in Producers : cPc'[u] = "unparkAll"
    BY <2>3, Zenon DEF C!Callers
  <2> QED BY <1>t, <2>1, <2>2, <2>4, <2>5, <2>6, ConditionStep, Zenon
<1> QED BY <1>1, <1>2, Zenon

LEMMA ConditionReturnStep ==
  ASSUME CInv, NEW t \in C!Callers, C!notifyReturns(t)
  PROVE  CInv'
<1>t. /\ cHasWaiters \in BOOLEAN /\ cQueue \in Seq(Consumers) /\ cItems \in 0 .. Items
      /\ cOwner \in C!Callers \cup {NoHolder} /\ cOwed \in [C!Callers -> SUBSET Consumers]
      /\ UNCHANGED <<cHasWaiters, cQueue, cOwner, cItems>>
      /\ cPc[t] = "notified" /\ C!Goto(t, "idle")
  BY ConditionType, Zenon DEF CInv, C!notifyReturns
<1>1. Fits(t, "idle")
  BY Zenon DEF Fits, Labels, Consuming, Producing
<1>2. cPc'[t] = "idle" /\ \A u \in C!Callers : u # t => cPc'[u] = cPc[u]
  BY <1>t, <1>1, ConditionGoto, Zenon
<1>3. /\ cOwed' \in [C!Callers -> SUBSET Consumers]
      /\ cOwed'[t] = {} /\ \A u \in C!Callers : u # t => cOwed'[u] = cOwed[u]
  BY <1>t, Zenon DEF C!notifyReturns
<1>4. COwed'
  BY <1>t, <1>3, Zenon DEF CInv, COwed, C!Queued
<1>5. ASSUME \E u \in Producers : cPc[u] = "unparkAll"
      PROVE  \E u \in Producers : cPc'[u] = "unparkAll"
  BY <1>t, <1>2, <1>5, Zenon DEF C!Callers
<1>6. cQueue' # << >> /\ ~cHasWaiters' => \E u \in Producers : cPc'[u] = "unparkAll"
  BY <1>t, <1>5, Zenon DEF CInv, C!FlagCoversWaiters
<1>7. ASSUME NEW v \in Producers, cPc'[v] = "notified", cOwed'[v] # {}
      PROVE  \E u \in Producers : cPc'[u] = "unparkAll"
  <2>1. v # t /\ cPc[v] = "notified" /\ cOwed[v] # {}
    BY <1>2, <1>3, <1>7, Zenon DEF C!Callers
  <2> QED BY <2>1, <1>5, Zenon DEF CInv, C!NotifyReachesWaiters
<1> QED BY <1>t, <1>1, <1>3, <1>4, <1>6, <1>7, ConditionStep, Zenon

LEMMA ConditionInvariant == C!Spec => []CInv
<1>1. CInv /\ [C!Next]_C!vars => CInv'
  <2> SUFFICES ASSUME CInv, [C!Next]_C!vars PROVE CInv'
    BY Zenon
  <2>1. CASE C!Next
    BY <2>1, ConditionCallStep, ConditionLockStep, ConditionWaitStep, ConditionWakeUpStep,
       ConditionAddStep, ConditionLoadStep, ConditionUnparkOneStep, ConditionNotifyAllStep,
       ConditionReturnStep, Zenon DEF C!Next
  <2>2. CASE UNCHANGED C!vars
    BY <2>2, Zenon DEF C!vars, CInv, C!TypeOK, CRoles, COwed, C!Queued, C!FlagCoversWaiters,
       C!NotifyReachesWaiters
  <2> QED BY <2>1, <2>2, Zenon
<1> QED BY ConditionInit, <1>1, PTL DEF C!Spec

\* Condition.h and ReadWriteLock.cpp: for any threads and any bound, m_hasWaiters covers
\* the waiters, a notify that returns has woken what it owes, a sleeping reader or writer
\* has somebody to wake it, and a writer is alone.
THEOREM WaitersNotified == C!Spec /\ R!Spec => []WaitersAreNotified
<1>1. CInv /\ R!NoLostWakeUp /\ R!Exclusive => WaitersAreNotified
  BY Zenon DEF CInv, WaitersAreNotified
<1> QED BY <1>1, ConditionInvariant, ReadersAndWriters, PTL

-----------------------------------------------------------------------------
(* WordLock: a queue as a set, a head and the successor of each thread *)

\* Q is what the head reaches through next, without a cycle, and last is its end.
IsQueue(Q, head, next, last) ==
    /\ Q \subseteq WordThreads /\ head \in Q \cup {NoHolder}
    /\ \A t \in Q : next[t] \in Q \cup {NoHolder} /\ next[t] # head
    /\ \A t, u \in Q : next[t] = next[u] /\ next[t] # NoHolder => t = u
    /\ \A S \in SUBSET WordThreads :
         /\ head \in S \cup {NoHolder}
         /\ \A t \in S : next[t] \in S \cup {NoHolder}
         => Q \subseteq S
    /\ head # NoHolder => last \in Q /\ next[last] = NoHolder

\* An empty queue has no threads.
LEMMA QueueEmpty ==
  ASSUME NEW Q, NEW next, NEW last, IsQueue(Q, NoHolder, next, last)
  PROVE  Q = {}
<1>1. {} \in SUBSET WordThreads /\ NoHolder \in {} \cup {NoHolder}
  BY Zenon
<1> QED BY <1>1, Zenon DEF IsQueue

\* Only the successors of the queued threads matter.
LEMMA QueueFrame ==
  ASSUME NEW Q, NEW head, NEW next, NEW last, IsQueue(Q, head, next, last),
         NEW new, \A t \in Q : new[t] = next[t]
  PROVE  IsQueue(Q, head, new, last)
<1>1. /\ Q \subseteq WordThreads /\ head \in Q \cup {NoHolder}
      /\ \A t \in Q : new[t] \in Q \cup {NoHolder} /\ new[t] # head
      /\ \A t, u \in Q : new[t] = new[u] /\ new[t] # NoHolder => t = u
      /\ head # NoHolder => last \in Q /\ new[last] = NoHolder
  BY Zenon DEF IsQueue
<1>2. ASSUME NEW S \in SUBSET WordThreads, head \in S \cup {NoHolder},
             \A t \in S : new[t] \in S \cup {NoHolder}
      PROVE  Q \subseteq S
  <2>1. S \cap Q \in SUBSET WordThreads /\ head \in (S \cap Q) \cup {NoHolder}
    BY <1>1, <1>2, Zenon
  <2>2. \A t \in S \cap Q : next[t] \in (S \cap Q) \cup {NoHolder}
    BY <1>1, <1>2, Zenon
  <2>3. Q \subseteq S \cap Q
    BY <2>1, <2>2, Zenon DEF IsQueue
  <2> QED BY <2>3, Zenon
<1> QED BY <1>1, <1>2, Zenon DEF IsQueue

\* The first thread of a queue, and one more at its end.
LEMMA QueueFirst ==
  ASSUME NEW Q, NEW next, NEW last, IsQueue(Q, NoHolder, next, last),
         NEW t \in WordThreads, next[t] = NoHolder, NoHolder \notin WordThreads
  PROVE  IsQueue(Q \cup {t}, t, next, t)
<1>1. Q \cup {t} = {t}
  BY QueueEmpty, Zenon
<1>2. IsQueue({t}, t, next, t)
  BY Zenon DEF IsQueue
<1> QED BY <1>1, <1>2, Zenon

LEMMA QueueEnqueue ==
  ASSUME NEW Q, NEW head, NEW next, NEW last, IsQueue(Q, head, next, last), head # NoHolder,
         NEW t \in WordThreads, t \notin Q, next[t] = NoHolder, NoHolder \notin WordThreads,
         NEW new, new[last] = t, \A u \in WordThreads : u # last => new[u] = next[u]
  PROVE  IsQueue(Q \cup {t}, head, new, t)
<1>0. last \in Q /\ last # t /\ head \in Q /\ head # t /\ Q \subseteq WordThreads
  BY Zenon DEF IsQueue
<1>1. \A u \in Q \cup {t} : new[u] \in Q \cup {t, NoHolder} /\ new[u] # head
  BY <1>0, Zenon DEF IsQueue
<1>2. \A u \in Q : u # last => new[u] = next[u] /\ new[u] # t
  BY <1>0, Zenon DEF IsQueue
<1>3. \A u, v \in Q \cup {t} : new[u] = new[v] /\ new[u] # NoHolder => u = v
  <2> SUFFICES ASSUME NEW u \in Q \cup {t}, NEW v \in Q \cup {t}, new[u] = new[v], new[u] # NoHolder
               PROVE  u = v
    BY Zenon
  <2>1. new[t] = NoHolder
    BY <1>0, Zenon
  <2>2. u \in Q /\ v \in Q
    BY <2>1, Zenon
  <2>3. CASE u = last \/ v = last
    BY <2>2, <2>3, <1>2, Zenon
  <2>4. CASE u # last /\ v # last
    BY <2>2, <2>4, <1>2 DEF IsQueue
  <2> QED BY <2>3, <2>4, Zenon
<1>4. ASSUME NEW S \in SUBSET WordThreads, head \in S \cup {NoHolder},
             \A u \in S : new[u] \in S \cup {NoHolder}
      PROVE  Q \cup {t} \subseteq S
  <2>1. next[last] = NoHolder
    BY Zenon DEF IsQueue
  <2>2. \A u \in S : next[u] \in S \cup {NoHolder}
    BY <1>4, <2>1, Zenon
  <2>3. Q \subseteq S
    BY <1>4, <2>2, Zenon DEF IsQueue
  <2>4. t \in S
    BY <1>0, <1>4, <2>3, Zenon
  <2> QED BY <2>3, <2>4, Zenon
<1>5. new[t] = NoHolder /\ Q \cup {t} \subseteq WordThreads /\ head \in Q \cup {t}
  BY <1>0, Zenon
<1> QED BY <1>1, <1>3, <1>4, <1>5, Zenon DEF IsQueue

\* Without its head, a queue is one from the second thread on.
LEMMA QueueDequeue ==
  ASSUME NEW Q, NEW head, NEW next, NEW last, IsQueue(Q, head, next, last), head # NoHolder,
         NoHolder \notin WordThreads
  PROVE  IsQueue(Q \ {head}, next[head], next, last)
<1>0. head \in Q /\ Q \subseteq WordThreads /\ next[head] \in (Q \ {head}) \cup {NoHolder}
  BY Zenon DEF IsQueue
<1>1. \A t \in Q \ {head} : next[t] \in (Q \ {head}) \cup {NoHolder}
  BY Zenon DEF IsQueue
<1>2. ASSUME NEW t \in Q \ {head} PROVE next[t] # next[head]
  <2>1. CASE next[head] = NoHolder
    <3>1. {head} \in SUBSET WordThreads /\ \A u \in {head} : next[u] \in {head} \cup {NoHolder}
      BY <1>0, <2>1, Zenon
    <3>2. Q \subseteq {head}
      BY <3>1, Zenon DEF IsQueue
    <3> QED BY <1>2, <3>2, Zenon
  <2>2. CASE next[head] # NoHolder
    BY <1>0, <1>2, <2>2, Zenon DEF IsQueue
  <2> QED BY <2>1, <2>2, Zenon
<1>3. ASSUME NEW S \in SUBSET WordThreads, next[head] \in S \cup {NoHolder},
             \A t \in S : next[t] \in S \cup {NoHolder}
      PROVE  Q \ {head} \subseteq S
  <2>1. S \cup {head} \in SUBSET WordThreads
    BY <1>0, Zenon
  <2>2. \A t \in S \cup {head} : next[t] \in (S \cup {head}) \cup {NoHolder}
    BY <1>3, Zenon
  <2>3. Q \subseteq S \cup {head}
    BY <2>1, <2>2, Zenon DEF IsQueue
  <2> QED BY <2>3, Zenon
<1>4. next[head] # NoHolder => last \in Q \ {head} /\ next[last] = NoHolder
  BY Zenon DEF IsQueue
<1>5. \A t, u \in Q \ {head} : next[t] = next[u] /\ next[t] # NoHolder => t = u
  BY Zenon DEF IsQueue
<1> QED BY <1>0, <1>1, <1>2, <1>3, <1>4, <1>5, Zenon DEF IsQueue

-----------------------------------------------------------------------------
(* WordLock: the inductive invariant *)

Waking == {"unlink", "wake", "notify"}

\* The sleeping threads that nobody is waking.
Asleep == {t \in WordThreads : wPc[t] = "park" /\ wNode[t].shouldPark
                                 /\ \A u \in WordThreads : wOldHead[u] # t}

NextOf == [t \in WordThreads |-> wNode[t].nextInQueue]

\* One thread owns the lock, one works on the queue, and only of a held lock.
WordOwner ==
    /\ \A t \in WordThreads : W!Owns(t) => wWord.locked
    /\ \A t, u \in WordThreads : W!Owns(t) /\ W!Owns(u) => t = u

WordLocker ==
    /\ wWord.queueLocked => wWord.locked
    /\ \A t \in WordThreads : wPc[t] \in {"enqueue", "dequeue"} => wWord.queueLocked
    /\ \A t, u \in WordThreads :
         wPc[t] \in {"enqueue", "dequeue"} /\ wPc[u] \in {"enqueue", "dequeue"} => t = u
    /\ \A t \in WordThreads : wPc[t] = "dequeue" => wWord.head # NoHolder

\* The ThreadData of a thread before and in the queue, and after it was woken.
WordNodes == \A t \in WordThreads :
    /\ wPc[t] \in {"lockQueue", "enqueue", "park"} => t \in wAlive
    /\ wPc[t] \in {"lockQueue", "enqueue"} => wNode[t].nextInQueue = NoHolder
    /\ wPc[t] = "enqueue" => wNode[t].shouldPark
    /\ wPc[t] = "park" /\ ~wNode[t].shouldPark =>
         wNode[t].nextInQueue = NoHolder /\ wNode[t].queueTail = NoHolder

\* Each thread that is being woken stays asleep, and is woken once, under its mutex.
WordTargets ==
    /\ \A t \in WordThreads : wOldHead[t] # NoHolder <=> wPc[t] \in Waking
    /\ \A t, u \in WordThreads : wOldHead[t] = wOldHead[u] /\ wOldHead[t] # NoHolder => t = u
    /\ \A t \in WordThreads : wPc[t] \in Waking =>
         /\ wPc[wOldHead[t]] = "park"
         /\ wPc[t] \in {"unlink", "wake"} <=> wNode[wOldHead[t]].shouldPark
         /\ wPc[t] = "wake" => /\ wNode[wOldHead[t]].nextInQueue = NoHolder
                               /\ wNode[wOldHead[t]].queueTail = NoHolder
         /\ wPc[t] = "notify" => wParkingLock[wOldHead[t]] = t

WordQueue == IsQueue(Asleep, wWord.head, NextOf, wNode[wWord.head].queueTail)

WordInv == W!TypeOK /\ WordOwner /\ WordLocker /\ WordNodes /\ WordTargets
             /\ WordQueue

ThreadData == [shouldPark : BOOLEAN, nextInQueue : W!Ref, queueTail : W!Ref]

LEMMA WordAssumed == NoHolder \notin WordThreads /\ WordSpins \in Nat
BY WaitingAssumption, Zenon DEF W!WordLockAssumption

\* A step that leaves the sleeping threads and their links alone keeps the queue.
LEMMA QueueKept ==
  ASSUME WordQueue, Asleep' = Asleep, (wWord.head)' = wWord.head,
         \A t \in Asleep : /\ wNode'[t].nextInQueue = wNode[t].nextInQueue
                           /\ wNode'[t].queueTail = wNode[t].queueTail
  PROVE  WordQueue'
<1>0. Asleep \subseteq WordThreads
  BY Zenon DEF Asleep
<1>1. \A t \in Asleep : NextOf'[t] = NextOf[t]
  BY <1>0, Zenon DEF NextOf
<1>2. IsQueue(Asleep, wWord.head, NextOf', wNode[wWord.head].queueTail)
  BY <1>1, QueueFrame DEF WordQueue
<1>3. wWord.head # NoHolder => wNode'[wWord.head].queueTail = wNode[wWord.head].queueTail
  BY <1>2, Zenon DEF IsQueue
<1>4. IsQueue(Asleep, wWord.head, NextOf', wNode'[wWord.head].queueTail)
  BY <1>2, <1>3, Zenon DEF IsQueue
<1> QED BY <1>4, Zenon DEF WordQueue

\* A ThreadData with one of its fields assigned.
LEMMA ThreadDataFields ==
  ASSUME NEW node \in ThreadData, NEW b \in BOOLEAN, NEW t \in W!Ref
  PROVE  /\ [node EXCEPT !.shouldPark = b] \in ThreadData
         /\ [node EXCEPT !.nextInQueue = t] \in ThreadData
         /\ [node EXCEPT !.queueTail = t] \in ThreadData
BY Zenon DEF ThreadData

LEMMA NodesType ==
  ASSUME NEW nodes \in [WordThreads -> ThreadData], NEW t, NEW node \in ThreadData
  PROVE  [nodes EXCEPT ![t] = node] \in [WordThreads -> ThreadData]
BY Zenon

LEMMA WordInit == W!Init => WordInv
<1> SUFFICES ASSUME W!Init PROVE WordInv
  BY Zenon
<1>1. W!TypeOK
  BY WordAssumed DEF W!Init, W!TypeOK, W!Zero, W!Fresh, W!Ref
<1>2. WordOwner /\ WordLocker /\ WordNodes /\ WordTargets
  BY Zenon DEF W!Init, W!Zero, WordOwner, WordLocker, WordNodes, WordTargets, W!Owns, Waking
<1>3. Asleep = {} /\ wWord.head = NoHolder
  BY Zenon DEF W!Init, W!Zero, Asleep
<1>4. WordQueue
  BY <1>3, Zenon DEF WordQueue, IsQueue
<1> QED BY <1>1, <1>2, <1>4, Zenon DEF WordInv

\* A step of a thread that wakes nobody and is woken by nobody keeps the targets.
LEMMA TargetsKept ==
  ASSUME W!TypeOK, WordTargets, NEW t \in WordThreads, NEW label,
         wPc[t] \notin Waking, label \notin Waking,
         \A u \in WordThreads : wOldHead[u] # t,
         wPc' = [wPc EXCEPT ![t] = label], wOldHead' = wOldHead, wParkingLock' = wParkingLock,
         \A u \in WordThreads, v \in WordThreads :
           wOldHead[v] = u => /\ wNode'[u].shouldPark = wNode[u].shouldPark
                              /\ wNode'[u].nextInQueue = wNode[u].nextInQueue
                              /\ wNode'[u].queueTail = wNode[u].queueTail
  PROVE  WordTargets'
<1>1. \A u \in WordThreads : wPc'[u] = IF u = t THEN label ELSE wPc[u]
  BY Zenon DEF W!TypeOK
<1>2. \A u \in WordThreads : wPc[u] \in Waking => wOldHead[u] \in WordThreads
  BY DEF W!TypeOK, W!Ref, WordTargets
<1>3. \A u \in WordThreads : wPc'[u] \in Waking <=> wPc[u] \in Waking
  BY <1>1, Zenon
<1>4. ASSUME NEW u \in WordThreads, wPc[u] \in Waking
      PROVE  wPc'[u] = wPc[u] /\ wPc'[wOldHead[u]] = wPc[wOldHead[u]]
  BY <1>1, <1>2, <1>4, Zenon
<1> QED BY <1>2, <1>3, <1>4 DEF WordTargets

\* Who is awake is nobody's target.
LEMMA NoTarget ==
  ASSUME W!TypeOK, WordTargets, NEW t \in WordThreads, wPc[t] # "park"
  PROVE  \A u \in WordThreads : wOldHead[u] # t
BY WordAssumed DEF WordTargets

\* lock and unlock change the locked bit only.
LEMMA WordLockStep ==
  ASSUME WordInv, NEW t \in WordThreads, W!lock(t)
  PROVE  WordInv'
<1> USE DEF W!lock, W!Goto
<1>1. W!TypeOK'
  BY Zenon DEF WordInv, W!TypeOK, W!Zero
<1>2. (wWord.queueLocked)' = wWord.queueLocked /\ (wWord.head)' = wWord.head
  BY Zenon DEF WordInv, W!TypeOK
<1>3. WordOwner'
  BY DEF WordInv, W!TypeOK, W!Zero, WordOwner, W!Owns
<1>4. WordLocker'
  BY DEF WordInv, W!TypeOK, W!Zero, WordLocker
<1>5. WordNodes'
  BY Zenon DEF WordInv, W!TypeOK, WordNodes
<1>6. WordTargets'
  BY TargetsKept, NoTarget, Zenon DEF WordInv, Waking
<1>7. Asleep' = Asleep
  BY Zenon DEF Asleep, WordInv, W!TypeOK
<1>8. WordQueue'
  BY <1>2, <1>7, QueueKept, Zenon DEF WordInv
<1> QED BY <1>1, <1>3, <1>4, <1>5, <1>6, <1>8, Zenon DEF WordInv

LEMMA WordUnlockStep ==
  ASSUME WordInv, NEW t \in WordThreads, W!unlock(t) \/ W!unlockSlow(t)
  PROVE  WordInv'
<1> USE DEF W!unlock, W!unlockSlow, W!Goto
<1>1. W!TypeOK'
  <2>1. wWord' \in [locked : BOOLEAN, queueLocked : BOOLEAN, head : WordThreads \cup {NoHolder}]
    <3>1. wWord' = wWord \/ wWord' = W!Zero \/ wWord' = [wWord EXCEPT !.queueLocked = TRUE]
      BY Zenon
    <3>2. W!Zero \in [locked : BOOLEAN, queueLocked : BOOLEAN, head : WordThreads \cup {NoHolder}]
      BY Zenon DEF W!Zero
    <3> QED BY <3>1, <3>2, Zenon DEF WordInv, W!TypeOK, W!Ref
  <2>2. wPc' \in [WordThreads -> {"idle", "lockSlow", "lockQueue", "enqueue", "park", "held",
                                  "unlockSlow", "dequeue", "unlink", "wake", "notify"}]
    BY DEF WordInv, W!TypeOK
  <2> QED BY <2>1, <2>2, Zenon DEF WordInv, W!TypeOK, W!Ref
<1>2. (wWord.head)' = wWord.head
  BY Zenon DEF WordInv, W!TypeOK, W!Zero
<1>3. WordOwner'
  BY DEF WordInv, W!TypeOK, W!Zero, WordOwner, W!Owns
<1>4. WordLocker'
  <2>0. /\ wWord.locked /\ wPc[t] \in {"held", "unlockSlow"}
        /\ \A u \in WordThreads : u # t => wPc'[u] = wPc[u]
    BY Zenon DEF WordInv, W!TypeOK, WordOwner, W!Owns
  <2>1. CASE ~wWord.queueLocked /\ wPc'[t] = "idle" /\ wWord' = W!Zero
    BY <2>0, <2>1, Zenon DEF WordInv, WordLocker, W!Zero
  <2>2. CASE wWord' = wWord /\ wPc'[t] = "unlockSlow"
    BY <2>0, <2>2, Zenon DEF WordInv, WordLocker
  <2>3. CASE /\ ~wWord.queueLocked /\ wWord.head # NoHolder /\ wPc'[t] = "dequeue"
             /\ wWord'.locked = wWord.locked /\ wWord'.queueLocked /\ wWord'.head = wWord.head
    BY <2>0, <2>3, Zenon DEF WordInv, WordLocker
  <2> QED BY <2>1, <2>2, <2>3, Zenon DEF WordInv, W!TypeOK, W!Zero
<1>5. WordNodes'
  BY Zenon DEF WordInv, W!TypeOK, WordNodes
<1>6. WordTargets'
  BY TargetsKept, NoTarget, Zenon DEF WordInv, Waking
<1>7. Asleep' = Asleep
  BY Zenon DEF Asleep, WordInv, W!TypeOK
<1>8. WordQueue'
  BY <1>2, <1>7, QueueKept, Zenon DEF WordInv
<1> QED BY <1>1, <1>3, <1>4, <1>5, <1>6, <1>8, Zenon DEF WordInv

\* lockSlow makes a fresh ThreadData of a thread that is not in the queue.
LEMMA WordLockSlowStep ==
  ASSUME WordInv, NEW t \in WordThreads, W!lockSlow(t)
  PROVE  WordInv'
<1> USE DEF W!lockSlow, W!Goto
<1>1. W!TypeOK'
  <2>1. wWord' \in [locked : BOOLEAN, queueLocked : BOOLEAN, head : WordThreads \cup {NoHolder}]
    BY Zenon DEF WordInv, W!TypeOK, W!Ref
  <2>2. wPc' \in [WordThreads -> {"idle", "lockSlow", "lockQueue", "enqueue", "park", "held",
                                  "unlockSlow", "dequeue", "unlink", "wake", "notify"}]
    BY DEF WordInv, W!TypeOK
  <2>3. wNode' \in [WordThreads -> ThreadData]
    <3>1. wNode \in [WordThreads -> ThreadData] /\ wNode[t] \in ThreadData
      BY Zenon DEF WordInv, W!TypeOK, ThreadData
    <3>2. W!Fresh \in ThreadData
      BY <3>1, Zenon DEF ThreadData, W!Fresh, W!Ref
    <3> QED BY <3>1, <3>2, NodesType, Zenon
  <2>4. wSpinCount' \in [WordThreads -> 0 .. WordSpins]
    BY WordAssumed DEF WordInv, W!TypeOK
  <2>5. wAlive' \in SUBSET WordThreads /\ UNCHANGED <<wParkingLock, wOldHead>>
    BY Zenon DEF WordInv, W!TypeOK
  <2> QED BY <2>1, <2>2, <2>3, <2>4, <2>5, Zenon DEF WordInv, W!TypeOK, W!Ref, ThreadData
<1>2. (wWord.queueLocked)' = wWord.queueLocked /\ (wWord.head)' = wWord.head
        /\ (wWord.locked => wWord'.locked)
  BY Zenon DEF WordInv, W!TypeOK
<1>3. WordOwner'
  BY DEF WordInv, W!TypeOK, WordOwner, W!Owns
<1>4. WordLocker'
  BY <1>2 DEF WordInv, W!TypeOK, WordLocker
<1>5. /\ \A u \in WordThreads : u # t => wNode'[u] = wNode[u] /\ wPc'[u] = wPc[u]
      /\ wPc'[t] = "lockQueue" => t \in wAlive' /\ wNode'[t] = W!Fresh
      /\ wAlive \subseteq wAlive' /\ wPc'[t] \in {"held", "lockSlow", "lockQueue"}
  BY Zenon DEF WordInv, W!TypeOK
<1>6. WordNodes'
  BY <1>5 DEF WordInv, WordNodes, W!Fresh
<1>7. \A u \in WordThreads : wOldHead[u] # t
  BY NoTarget, Zenon DEF WordInv
<1>8. WordTargets'
  <2>1. wPc' = [wPc EXCEPT ![t] = wPc'[t]]
    BY Zenon DEF WordInv, W!TypeOK
  <2> QED BY <1>5, <1>7, <2>1, TargetsKept DEF WordInv, Waking
<1>9. Asleep' = Asleep /\ t \notin Asleep
  BY <1>5, Zenon DEF Asleep
<1>10. WordQueue'
  <2>1. \A u \in Asleep : wNode'[u] = wNode[u]
    BY <1>5, <1>9, Zenon DEF Asleep
  <2> QED BY <1>2, <1>9, <2>1, QueueKept, Zenon DEF WordInv
<1> QED BY <1>1, <1>3, <1>4, <1>6, <1>8, <1>10, Zenon DEF WordInv

LEMMA WordLockQueueStep ==
  ASSUME WordInv, NEW t \in WordThreads, W!lockQueue(t)
  PROVE  WordInv'
<1> USE DEF W!lockQueue, W!Goto
<1>1. W!TypeOK'
  <2>1. wWord' \in [locked : BOOLEAN, queueLocked : BOOLEAN, head : WordThreads \cup {NoHolder}]
    BY Zenon DEF WordInv, W!TypeOK, W!Ref
  <2>2. wPc' \in [WordThreads -> {"idle", "lockSlow", "lockQueue", "enqueue", "park", "held",
                                  "unlockSlow", "dequeue", "unlink", "wake", "notify"}]
    BY Zenon DEF WordInv, W!TypeOK
  <2>3. wNode' \in [WordThreads -> ThreadData]
    <3>1. wNode \in [WordThreads -> ThreadData] /\ wNode[t] \in ThreadData
      BY Zenon DEF WordInv, W!TypeOK, ThreadData
    <3>2. [wNode[t] EXCEPT !.shouldPark = TRUE] \in ThreadData
      BY <3>1, ThreadDataFields, Zenon DEF W!Ref
    <3> QED BY <3>1, <3>2, NodesType, Zenon
  <2>5. wAlive' \in SUBSET WordThreads /\ UNCHANGED <<wParkingLock, wSpinCount, wOldHead>>
    BY Zenon DEF WordInv, W!TypeOK
  <2> QED BY <2>1, <2>2, <2>3, <2>5, Zenon DEF WordInv, W!TypeOK, W!Ref, ThreadData
<1>2. (wWord.locked)' = wWord.locked /\ (wWord.head)' = wWord.head
  BY Zenon DEF WordInv, W!TypeOK
<1>3. WordOwner'
  BY <1>2 DEF WordInv, W!TypeOK, WordOwner, W!Owns
<1>4. WordLocker'
  <2>0. \A u \in WordThreads : u # t => wPc'[u] = wPc[u]
    BY Zenon DEF WordInv, W!TypeOK
  <2>1. CASE wWord' = wWord /\ wPc'[t] = "lockSlow"
    BY <2>0, <2>1, Zenon DEF WordInv, WordLocker
  <2>2. CASE /\ ~wWord.queueLocked /\ wWord.locked /\ wPc'[t] = "enqueue"
             /\ wWord'.locked = wWord.locked /\ wWord'.queueLocked /\ wWord'.head = wWord.head
    BY <2>0, <2>2 DEF WordInv, WordLocker
  <2> QED BY <2>1, <2>2, Zenon DEF WordInv, W!TypeOK
<1>5. /\ \A u \in WordThreads : u # t => wNode'[u] = wNode[u] /\ wPc'[u] = wPc[u]
      /\ wPc'[t] = "enqueue" => wNode'[t].shouldPark /\ t \in wAlive'
      /\ wNode'[t].nextInQueue = wNode[t].nextInQueue
      /\ wAlive' \in {wAlive, wAlive \ {t}} /\ wPc'[t] \in {"lockSlow", "enqueue"}
  BY DEF WordInv, W!TypeOK, WordNodes
<1>6. WordNodes'
  BY <1>5, Zenon DEF WordInv, WordNodes
<1>7. \A u \in WordThreads : wOldHead[u] # t
  BY NoTarget, Zenon DEF WordInv
<1>8. WordTargets'
  <2>1. wPc' = [wPc EXCEPT ![t] = wPc'[t]]
    BY Zenon DEF WordInv, W!TypeOK
  <2> QED BY <1>5, <1>7, <2>1, TargetsKept DEF WordInv, Waking
<1>9. Asleep' = Asleep /\ t \notin Asleep
  BY <1>5, Zenon DEF Asleep
<1>10. WordQueue'
  <2>1. \A u \in Asleep : wNode'[u] = wNode[u]
    BY <1>5, <1>9, Zenon DEF Asleep
  <2> QED BY <1>2, <1>9, <2>1, QueueKept, Zenon DEF WordInv
<1> QED BY <1>1, <1>3, <1>4, <1>6, <1>8, <1>10, Zenon DEF WordInv

\* A thread leaves park only when its waker is done with it.
LEMMA WordParkStep ==
  ASSUME WordInv, NEW t \in WordThreads, W!park(t)
  PROVE  WordInv'
<1> USE DEF W!park, W!Goto
<1>1. W!TypeOK'
  BY Zenon DEF WordInv, W!TypeOK
<1>2. WordOwner' /\ WordLocker'
  BY DEF WordInv, W!TypeOK, WordOwner, W!Owns, WordLocker
<1>3. WordNodes'
  BY Zenon DEF WordInv, W!TypeOK, WordNodes
<1>4. \A u \in WordThreads : wOldHead[u] # t
  BY WordAssumed DEF WordInv, WordTargets, Waking
<1>5. WordTargets'
  BY <1>4, TargetsKept, Zenon DEF WordInv, Waking
<1>6. Asleep' = Asleep
  BY Zenon DEF Asleep, WordInv, W!TypeOK
<1>7. WordQueue'
  BY <1>6, QueueKept, Zenon DEF WordInv
<1> QED BY <1>1, <1>2, <1>3, <1>5, <1>7, Zenon DEF WordInv

LEMMA HeadAsleep ==
  ASSUME WordInv, wWord.head # NoHolder
  PROVE  /\ wWord.head \in Asleep /\ wNode[wWord.head].queueTail \in Asleep
         /\ wNode[wNode[wWord.head].queueTail].nextInQueue = NoHolder
BY Zenon DEF WordInv, WordQueue, IsQueue, Asleep, NextOf

\* What enqueue does to the ThreadData of the head, the tail and the thread.
LEMMA EnqueueNodes ==
  ASSUME WordInv, NEW t \in WordThreads, W!enqueue(t)
  PROVE  /\ wNode' \in [WordThreads -> ThreadData]
         /\ \A u \in WordThreads : wNode'[u].shouldPark = wNode[u].shouldPark
         /\ \A u \in WordThreads : u \notin Asleep /\ u # t => wNode'[u] = wNode[u]
         /\ wWord.head # NoHolder =>
              /\ \A u \in WordThreads :
                   wNode'[u].nextInQueue = IF u = wNode[wWord.head].queueTail THEN t
                                           ELSE wNode[u].nextInQueue
              /\ wNode'[wWord.head].queueTail = t
         /\ wWord.head = NoHolder =>
              /\ \A u \in WordThreads : wNode'[u].nextInQueue = wNode[u].nextInQueue
              /\ wNode'[t].queueTail = t
<1> DEFINE head == wWord.head
           tail == wNode[head].queueTail
<1>1. wNode \in [WordThreads -> ThreadData] /\ t \in W!Ref
  BY Zenon DEF WordInv, W!TypeOK, ThreadData, W!Ref
<1>2. CASE head # NoHolder
  <2>1. head \in Asleep /\ tail \in Asleep /\ Asleep \subseteq WordThreads
    BY <1>2, HeadAsleep, Zenon DEF Asleep
  <2> DEFINE linked == [wNode EXCEPT ![tail] = [wNode[tail] EXCEPT !.nextInQueue = t]]
  <2>2. linked \in [WordThreads -> ThreadData]
    BY <1>1, <2>1, NodesType, ThreadDataFields, Zenon
  <2>3. wNode' = [linked EXCEPT ![head] = [linked[head] EXCEPT !.queueTail = t]]
    BY <1>2, Zenon DEF W!enqueue
  <2>4. \A u \in WordThreads :
          /\ linked[u].nextInQueue = IF u = tail THEN t ELSE wNode[u].nextInQueue
          /\ linked[u].shouldPark = wNode[u].shouldPark
          /\ u # tail => linked[u] = wNode[u]
    BY <1>1, <2>1, Zenon DEF ThreadData
  <2> HIDE DEF linked
  <2>5. wNode' \in [WordThreads -> ThreadData]
    BY <1>1, <2>1, <2>2, <2>3, NodesType, ThreadDataFields, Zenon
  <2>6. \A u \in WordThreads :
          /\ wNode'[u].nextInQueue = linked[u].nextInQueue
          /\ wNode'[u].shouldPark = linked[u].shouldPark
          /\ u # head => wNode'[u] = linked[u]
    BY <2>1, <2>2, <2>3, Zenon DEF ThreadData
  <2>7. wNode'[head].queueTail = t
    BY <2>1, <2>2, <2>3, Zenon DEF ThreadData
  <2> QED BY <1>2, <2>1, <2>4, <2>5, <2>6, <2>7
<1>3. CASE head = NoHolder
  <2>1. wNode' = [wNode EXCEPT ![t] = [wNode[t] EXCEPT !.queueTail = t]]
    BY <1>3, Zenon DEF W!enqueue
  <2>2. wNode' \in [WordThreads -> ThreadData]
    BY <1>1, <2>1, NodesType, ThreadDataFields, Zenon
  <2> QED BY <1>1, <1>3, <2>1, <2>2, Zenon DEF ThreadData
<1> QED BY <1>2, <1>3, Zenon

LEMMA WordEnqueueStep ==
  ASSUME WordInv, NEW t \in WordThreads, W!enqueue(t)
  PROVE  WordInv'
<1>0. /\ wPc[t] = "enqueue" /\ wPc' = [wPc EXCEPT ![t] = "park"]
      /\ UNCHANGED <<wAlive, wParkingLock, wSpinCount, wOldHead>>
  BY Zenon DEF W!enqueue, W!Goto
<1>1. /\ wPc'[t] = "park" /\ \A u \in WordThreads : u # t => wPc'[u] = wPc[u]
      /\ wNode[t].shouldPark /\ wNode[t].nextInQueue = NoHolder
  BY <1>0, Zenon DEF WordInv, W!TypeOK, WordNodes
<1>2. /\ wWord'.locked = wWord.locked /\ ~wWord'.queueLocked
      /\ wWord'.head = IF wWord.head # NoHolder THEN wWord.head ELSE t
      /\ wWord' \in [locked : BOOLEAN, queueLocked : BOOLEAN, head : W!Ref]
  BY Zenon DEF W!enqueue, WordInv, W!TypeOK, W!Ref
<1>3. W!TypeOK'
  <2>1. wPc' \in [WordThreads -> {"idle", "lockSlow", "lockQueue", "enqueue", "park", "held",
                                  "unlockSlow", "dequeue", "unlink", "wake", "notify"}]
    BY <1>0, Zenon DEF WordInv, W!TypeOK
  <2> QED BY <1>0, <1>2, <2>1, EnqueueNodes, Zenon DEF WordInv, W!TypeOK, ThreadData
<1>4. WordOwner'
  BY <1>0, <1>1, <1>2, Zenon DEF WordInv, WordOwner, W!Owns
<1>5. WordLocker'
  BY <1>0, <1>1, <1>2, Zenon DEF WordInv, WordLocker
<1>6. \A u \in WordThreads : wOldHead[u] # t
  BY <1>0, NoTarget, Zenon DEF WordInv
<1>7. t \notin Asleep /\ Asleep' = Asleep \cup {t}
  BY <1>0, <1>1, <1>6, EnqueueNodes DEF Asleep
<1>8. WordNodes'
  <2> SUFFICES ASSUME NEW u \in WordThreads PROVE WordNodes!(u)'
    BY Zenon DEF WordNodes
  <2>1. CASE u = t
    BY <1>0, <1>1, <2>1, EnqueueNodes, Zenon DEF WordInv, WordNodes
  <2>2. CASE u # t /\ u \in Asleep
    BY <1>0, <1>1, <2>2, EnqueueNodes, Zenon DEF WordInv, WordNodes, Asleep
  <2>3. CASE u # t /\ u \notin Asleep
    BY <1>0, <1>1, <2>3, EnqueueNodes DEF WordInv, WordNodes
  <2> QED BY <2>1, <2>2, <2>3, Zenon
<1>9. WordTargets'
  <2>1. \A u \in WordThreads, v \in WordThreads : wOldHead[v] = u => wNode'[u] = wNode[u]
    BY <1>6, EnqueueNodes, Zenon DEF Asleep
  <2> QED BY <1>0, <1>6, <2>1, TargetsKept, Zenon DEF WordInv, Waking
<1>10. WordQueue'
  <2> DEFINE tail == wNode[wWord.head].queueTail
  <2>1. IsQueue(Asleep, wWord.head, NextOf, tail) /\ NextOf[t] = NoHolder
    BY <1>1, Zenon DEF WordInv, WordQueue, NextOf
  <2>2. CASE wWord.head # NoHolder
    <3>1. tail \in WordThreads
      BY <2>2, HeadAsleep, Zenon DEF Asleep
    <3>2. NextOf'[tail] = t /\ \A u \in WordThreads : u # tail => NextOf'[u] = NextOf[u]
      BY <2>2, <3>1, EnqueueNodes, Zenon DEF NextOf
    <3>3. IsQueue(Asleep \cup {t}, wWord.head, NextOf', t)
      BY <1>7, <2>1, <2>2, <3>2, QueueEnqueue, WordAssumed
    <3> QED BY <1>2, <1>7, <2>2, <3>3, EnqueueNodes DEF WordQueue
  <2>3. CASE wWord.head = NoHolder
    <3>1. NextOf' = NextOf
      BY <2>3, EnqueueNodes, Zenon DEF NextOf
    <3>2. IsQueue(Asleep \cup {t}, t, NextOf', t)
      BY <2>1, <2>3, <3>1, QueueFirst, WordAssumed, Zenon
    <3> QED BY <1>2, <1>7, <2>3, <3>2, EnqueueNodes, Zenon DEF WordQueue
  <2> QED BY <2>2, <2>3, Zenon
<1> QED BY <1>3, <1>4, <1>5, <1>8, <1>9, <1>10, Zenon DEF WordInv

\* dequeue hands the tail on to the new head, another sleeping thread.
LEMMA DequeueNodes ==
  ASSUME WordInv, NEW t \in WordThreads, W!dequeue(t)
  PROVE  LET head == wWord.head
             newHead == wNode[head].nextInQueue
         IN  /\ head \in Asleep /\ newHead \in (Asleep \ {head}) \cup {NoHolder}
             /\ wNode' \in [WordThreads -> ThreadData]
             /\ \A u \in WordThreads : /\ wNode'[u].shouldPark = wNode[u].shouldPark
                                       /\ wNode'[u].nextInQueue = wNode[u].nextInQueue
                                       /\ u # newHead => wNode'[u] = wNode[u]
             /\ newHead # NoHolder => wNode'[newHead].queueTail = wNode[head].queueTail
<1> DEFINE head == wWord.head
           newHead == wNode[head].nextInQueue
<1>0. head # NoHolder
  BY Zenon DEF WordInv, WordLocker, W!dequeue
<1>1. wNode \in [WordThreads -> ThreadData]
  BY Zenon DEF WordInv, W!TypeOK, ThreadData
<1>2. head \in Asleep /\ head \in WordThreads /\ NextOf[head] = newHead
  BY <1>0, HeadAsleep, Zenon DEF Asleep, NextOf
<1>3. newHead \in (Asleep \ {head}) \cup {NoHolder}
  BY <1>2, Zenon DEF WordInv, WordQueue, IsQueue
<1>4. CASE newHead = NoHolder
  BY <1>1, <1>2, <1>3, <1>4, Zenon DEF W!dequeue
<1>5. CASE newHead # NoHolder
  <2>1. newHead \in WordThreads /\ wNode[head].queueTail \in W!Ref
    BY <1>1, <1>2, <1>3, <1>5, Zenon DEF Asleep, ThreadData
  <2>2. wNode' = [wNode EXCEPT ![newHead] = [wNode[newHead] EXCEPT !.queueTail = wNode[head].queueTail]]
    BY <1>5, Zenon DEF W!dequeue
  <2>3. wNode' \in [WordThreads -> ThreadData]
    BY <1>1, <2>1, <2>2, NodesType, ThreadDataFields, Zenon
  <2>4. \A u \in WordThreads : /\ wNode'[u].shouldPark = wNode[u].shouldPark
                               /\ wNode'[u].nextInQueue = wNode[u].nextInQueue
                               /\ u # newHead => wNode'[u] = wNode[u]
    BY <1>1, <2>1, <2>2, Zenon DEF ThreadData
  <2>5. wNode'[newHead].queueTail = wNode[head].queueTail
    BY <1>1, <2>1, <2>2, Zenon DEF ThreadData
  <2> QED BY <1>2, <1>3, <2>3, <2>4, <2>5, Zenon
<1> QED BY <1>4, <1>5, Zenon

LEMMA WordDequeueStep ==
  ASSUME WordInv, NEW t \in WordThreads, W!dequeue(t)
  PROVE  WordInv'
<1> DEFINE head == wWord.head
           newHead == wNode[head].nextInQueue
<1>0. /\ wPc[t] = "dequeue" /\ wPc' = [wPc EXCEPT ![t] = "unlink"]
      /\ wOldHead' = [wOldHead EXCEPT ![t] = head]
      /\ UNCHANGED <<wAlive, wParkingLock, wSpinCount>>
  BY Zenon DEF W!dequeue, W!Goto
<1>1. /\ wPc'[t] = "unlink" /\ \A u \in WordThreads : u # t => wPc'[u] = wPc[u]
      /\ wOldHead'[t] = head /\ \A u \in WordThreads : u # t => wOldHead'[u] = wOldHead[u]
  BY <1>0, Zenon DEF WordInv, W!TypeOK
<1>2. head \in Asleep /\ head \in WordThreads /\ newHead \in W!Ref
  BY DequeueNodes, Zenon DEF Asleep, W!Ref
<1>3. /\ ~wWord'.locked /\ ~wWord'.queueLocked /\ wWord'.head = newHead
      /\ wWord' \in [locked : BOOLEAN, queueLocked : BOOLEAN, head : W!Ref]
  BY <1>2, Zenon DEF W!dequeue, W!Zero
<1>4. W!TypeOK'
  <2>1. wPc' \in [WordThreads -> {"idle", "lockSlow", "lockQueue", "enqueue", "park", "held",
                                  "unlockSlow", "dequeue", "unlink", "wake", "notify"}]
    BY <1>0, Zenon DEF WordInv, W!TypeOK
  <2>2. wOldHead' \in [WordThreads -> W!Ref]
    BY <1>0, <1>2, Zenon DEF WordInv, W!TypeOK, W!Ref
  <2> QED BY <1>0, <1>3, <2>1, <2>2, DequeueNodes, Zenon DEF WordInv, W!TypeOK, ThreadData
<1>5. WordOwner'
  BY <1>0, <1>1, <1>3, Zenon DEF WordInv, WordOwner, W!Owns
<1>6. WordLocker'
  BY <1>0, <1>1, <1>3 DEF WordInv, WordLocker
<1>7. Asleep' = Asleep \ {head}
  <2>1. wOldHead[t] = NoHolder
    BY <1>0, Zenon DEF WordInv, WordTargets, Waking
  <2>2. ASSUME NEW u \in WordThreads
        PROVE  (\A v \in WordThreads : wOldHead'[v] # u)
                 <=> (\A v \in WordThreads : wOldHead[v] # u) /\ u # head
    BY <1>1, <2>1, WordAssumed, Zenon
  <2>3. \A u \in WordThreads : u \in Asleep' <=> u \in Asleep /\ u # head
    BY <1>0, <1>1, <2>2, DequeueNodes, Zenon DEF Asleep
  <2> QED BY <2>3 DEF Asleep
<1>8. WordNodes'
  <2> SUFFICES ASSUME NEW u \in WordThreads PROVE WordNodes!(u)'
    BY Zenon DEF WordNodes
  <2>1. CASE u = t
    BY <1>1, <2>1, Zenon
  <2>2. CASE u # t /\ u # newHead
    BY <1>0, <1>1, <2>2, DequeueNodes, Zenon DEF WordInv, WordNodes
  <2>3. CASE u # t /\ u = newHead
    BY <1>0, <1>1, <2>3, DequeueNodes, WordAssumed DEF WordInv, WordNodes, Asleep
  <2> QED BY <2>1, <2>2, <2>3, Zenon
<1>9. WordTargets'
  <2>0. \A u \in WordThreads : wOldHead[u] # t
    BY <1>0, NoTarget, Zenon DEF WordInv
  <2>1. \A u \in WordThreads : wOldHead'[u] # NoHolder <=> wPc'[u] \in Waking
    BY <1>1, <1>2, WordAssumed DEF WordInv, WordTargets, Waking
  <2>2. \A u \in WordThreads : u # t => wOldHead'[u] # head
    BY <1>1, <1>2, Zenon DEF Asleep
  <2>3. \A u, v \in WordThreads : wOldHead'[u] = wOldHead'[v] /\ wOldHead'[u] # NoHolder => u = v
    BY <1>1, <2>2 DEF WordInv, WordTargets
  <2>4. /\ wPc'[head] = "park" /\ wNode'[head].shouldPark
    BY <1>0, <1>1, <1>2, DequeueNodes, Zenon DEF Asleep
  <2>5. ASSUME NEW u \in WordThreads, u # t, wPc[u] \in Waking
        PROVE  /\ wOldHead[u] \in WordThreads /\ wPc'[wOldHead[u]] = wPc[wOldHead[u]]
               /\ wNode'[wOldHead[u]] = wNode[wOldHead[u]]
    <3>1. wOldHead[u] \in WordThreads
      BY <2>5 DEF WordInv, W!TypeOK, W!Ref, WordTargets
    <3>2. wOldHead[u] # newHead
      BY <3>1, DequeueNodes, WordAssumed, Zenon DEF Asleep
    <3> QED BY <1>1, <2>0, <2>5, <3>1, <3>2, DequeueNodes, Zenon
  <2>6. ASSUME NEW u \in WordThreads, u # t, wPc'[u] \in Waking
        PROVE  /\ wPc'[wOldHead'[u]] = "park"
               /\ wPc'[u] \in {"unlink", "wake"} <=> wNode'[wOldHead'[u]].shouldPark
               /\ wPc'[u] = "wake" => /\ wNode'[wOldHead'[u]].nextInQueue = NoHolder
                                      /\ wNode'[wOldHead'[u]].queueTail = NoHolder
               /\ wPc'[u] = "notify" => wParkingLock'[wOldHead'[u]] = u
    BY <1>0, <1>1, <2>5, <2>6 DEF WordInv, WordTargets
  <2> QED BY <1>1, <2>1, <2>3, <2>4, <2>6 DEF WordTargets
<1>10. WordQueue'
  <2>1. NextOf' = NextOf /\ NextOf[head] = newHead
    BY <1>2, DequeueNodes, Zenon DEF NextOf
  <2>2. IsQueue(Asleep \ {head}, newHead, NextOf', wNode[head].queueTail)
    <3>1. head # NoHolder
      BY <1>2, WordAssumed, Zenon
    <3> QED BY <2>1, <3>1, QueueDequeue, WordAssumed, Zenon DEF WordInv, WordQueue
  <2>3. IsQueue(Asleep \ {head}, newHead, NextOf', wNode'[newHead].queueTail)
    BY <2>2, DequeueNodes, Zenon DEF IsQueue
  <2> QED BY <1>3, <1>7, <2>3, Zenon DEF WordQueue
<1> QED BY <1>4, <1>5, <1>6, <1>8, <1>9, <1>10, Zenon DEF WordInv

\* The thread that a waker works on.
LEMMA Target ==
  ASSUME WordInv, NEW t \in WordThreads, wPc[t] \in Waking
  PROVE  wOldHead[t] \in WordThreads /\ wOldHead[t] \notin Asleep /\ wPc[wOldHead[t]] = "park"
BY DEF WordInv, W!TypeOK, W!Ref, WordTargets, Asleep

LEMMA WordUnlinkStep ==
  ASSUME WordInv, NEW t \in WordThreads, W!unlink(t)
  PROVE  WordInv'
<1> DEFINE h == wOldHead[t]
<1>0. /\ wPc[t] = "unlink" /\ wPc' = [wPc EXCEPT ![t] = "wake"]
      /\ UNCHANGED <<wWord, wAlive, wParkingLock, wSpinCount, wOldHead>>
  BY Zenon DEF W!unlink, W!Goto
<1>1. wPc'[t] = "wake" /\ \A u \in WordThreads : u # t => wPc'[u] = wPc[u]
  BY <1>0, Zenon DEF WordInv, W!TypeOK
<1>2. h \in WordThreads /\ h \notin Asleep /\ wPc[h] = "park" /\ wNode[h].shouldPark
  BY <1>0, Target, Zenon DEF WordInv, WordTargets, Waking
<1>3. /\ wNode' \in [WordThreads -> ThreadData]
      /\ wNode'[h].shouldPark /\ wNode'[h].nextInQueue = NoHolder /\ wNode'[h].queueTail = NoHolder
      /\ \A u \in WordThreads : u # h => wNode'[u] = wNode[u]
  <2>1. wNode \in [WordThreads -> ThreadData] /\ NoHolder \in W!Ref
    BY Zenon DEF WordInv, W!TypeOK, ThreadData, W!Ref
  <2> DEFINE cut == [wNode EXCEPT ![h] = [wNode[h] EXCEPT !.nextInQueue = NoHolder]]
  <2>2. cut \in [WordThreads -> ThreadData]
    BY <1>2, <2>1, NodesType, ThreadDataFields, Zenon
  <2>3. cut[h].shouldPark /\ cut[h].nextInQueue = NoHolder /\ \A u \in WordThreads : u # h => cut[u] = wNode[u]
    BY <1>2, <2>1, Zenon DEF ThreadData
  <2>4. wNode' = [cut EXCEPT ![h] = [cut[h] EXCEPT !.queueTail = NoHolder]]
    BY Zenon DEF W!unlink
  <2> HIDE DEF cut
  <2>5. wNode' \in [WordThreads -> ThreadData]
    BY <1>2, <2>1, <2>2, <2>4, NodesType, ThreadDataFields, Zenon
  <2> QED BY <1>2, <2>2, <2>3, <2>4, <2>5, Zenon DEF ThreadData
<1>4. W!TypeOK'
  <2>1. wPc' \in [WordThreads -> {"idle", "lockSlow", "lockQueue", "enqueue", "park", "held",
                                  "unlockSlow", "dequeue", "unlink", "wake", "notify"}]
    BY <1>0, Zenon DEF WordInv, W!TypeOK
  <2> QED BY <1>0, <1>3, <2>1, Zenon DEF WordInv, W!TypeOK, ThreadData
<1>5. WordOwner' /\ WordLocker'
  BY <1>0, <1>1, Zenon DEF WordInv, WordOwner, WordLocker, W!Owns
<1>6. Asleep' = Asleep
  BY <1>0, <1>1, <1>2, <1>3, Zenon DEF Asleep
<1>7. WordNodes'
  BY <1>0, <1>1, <1>2, <1>3, Zenon DEF WordInv, WordNodes
<1>8. WordTargets'
  <2>1. ASSUME NEW u \in WordThreads, u # t, wPc[u] \in Waking
        PROVE  /\ wPc'[wOldHead[u]] = wPc[wOldHead[u]]
               /\ wNode'[wOldHead[u]] = wNode[wOldHead[u]]
    BY <1>0, <1>1, <1>2, <1>3, <2>1, Target, WordAssumed DEF WordInv, WordTargets
  <2>2. \A u \in WordThreads : wPc'[u] \in Waking <=> wPc[u] \in Waking
    BY <1>0, <1>1, Zenon DEF Waking
  <2>3. wPc'[h] = "park"
    BY <1>0, <1>1, <1>2, Zenon
  <2> QED BY <1>0, <1>1, <1>3, <2>1, <2>2, <2>3 DEF WordInv, WordTargets
<1>9. WordQueue'
  BY <1>0, <1>2, <1>3, <1>6, QueueKept, Zenon DEF WordInv, Asleep
<1> QED BY <1>4, <1>5, <1>7, <1>8, <1>9, Zenon DEF WordInv

LEMMA WordWakeStep ==
  ASSUME WordInv, NEW t \in WordThreads, W!wake(t)
  PROVE  WordInv'
<1> DEFINE h == wOldHead[t]
<1>0. /\ wPc[t] = "wake" /\ wPc' = [wPc EXCEPT ![t] = "notify"]
      /\ wParkingLock' = [wParkingLock EXCEPT ![h] = t]
      /\ UNCHANGED <<wWord, wAlive, wSpinCount, wOldHead>>
  BY Zenon DEF W!wake, W!Goto
<1>1. wPc'[t] = "notify" /\ \A u \in WordThreads : u # t => wPc'[u] = wPc[u]
  BY <1>0, Zenon DEF WordInv, W!TypeOK
<1>2. h \in WordThreads /\ h \notin Asleep /\ wPc[h] = "park"
        /\ wNode[h].nextInQueue = NoHolder /\ wNode[h].queueTail = NoHolder
  BY <1>0, Target, Zenon DEF WordInv, WordTargets, Waking
<1>3. /\ wNode' \in [WordThreads -> ThreadData]
      /\ ~wNode'[h].shouldPark /\ wNode'[h].nextInQueue = NoHolder /\ wNode'[h].queueTail = NoHolder
      /\ \A u \in WordThreads : u # h => wNode'[u] = wNode[u]
  <2>1. wNode \in [WordThreads -> ThreadData] /\ NoHolder \in W!Ref
    BY Zenon DEF WordInv, W!TypeOK, ThreadData, W!Ref
  <2>2. wNode' = [wNode EXCEPT ![h] = [wNode[h] EXCEPT !.shouldPark = FALSE]]
    BY Zenon DEF W!wake
  <2>3. wNode' \in [WordThreads -> ThreadData]
    BY <1>2, <2>1, <2>2, NodesType, ThreadDataFields, Zenon
  <2> QED BY <1>2, <2>1, <2>2, <2>3, Zenon DEF ThreadData
<1>4. W!TypeOK'
  <2>1. wPc' \in [WordThreads -> {"idle", "lockSlow", "lockQueue", "enqueue", "park", "held",
                                  "unlockSlow", "dequeue", "unlink", "wake", "notify"}]
    BY <1>0, Zenon DEF WordInv, W!TypeOK
  <2>2. wParkingLock' \in [WordThreads -> W!Ref]
    BY <1>0, Zenon DEF WordInv, W!TypeOK, W!Ref
  <2> QED BY <1>0, <1>3, <2>1, <2>2, Zenon DEF WordInv, W!TypeOK, ThreadData
<1>5. WordOwner' /\ WordLocker'
  BY <1>0, <1>1, Zenon DEF WordInv, WordOwner, WordLocker, W!Owns
<1>6. Asleep' = Asleep
  BY <1>0, <1>1, <1>2, <1>3, Zenon DEF Asleep
<1>7. WordNodes'
  BY <1>0, <1>1, <1>2, <1>3, Zenon DEF WordInv, WordNodes
<1>8. WordTargets'
  <2>1. ASSUME NEW u \in WordThreads, u # t, wPc[u] \in Waking
        PROVE  /\ wPc'[wOldHead[u]] = wPc[wOldHead[u]]
               /\ wNode'[wOldHead[u]] = wNode[wOldHead[u]]
               /\ wParkingLock'[wOldHead[u]] = wParkingLock[wOldHead[u]]
    <3>1. wOldHead[u] \in WordThreads /\ wOldHead[u] # h /\ wOldHead[u] # t
      BY <1>0, <1>2, <2>1, Target, WordAssumed DEF WordInv, WordTargets
    <3> QED BY <1>0, <1>1, <1>3, <3>1, Zenon DEF WordInv, W!TypeOK
  <2>2. \A u \in WordThreads : wPc'[u] \in Waking <=> wPc[u] \in Waking
    BY <1>0, <1>1, Zenon DEF Waking
  <2>3. wPc'[h] = "park" /\ wParkingLock'[h] = t
    BY <1>0, <1>1, <1>2, Zenon DEF WordInv, W!TypeOK
  <2> QED BY <1>0, <1>1, <1>3, <2>1, <2>2, <2>3 DEF WordInv, WordTargets
<1>9. WordQueue'
  BY <1>0, <1>2, <1>3, <1>6, QueueKept, Zenon DEF WordInv, Asleep
<1> QED BY <1>4, <1>5, <1>7, <1>8, <1>9, Zenon DEF WordInv

LEMMA WordNotifyStep ==
  ASSUME WordInv, NEW t \in WordThreads, W!notify(t)
  PROVE  WordInv'
<1> DEFINE h == wOldHead[t]
<1>0. /\ wPc[t] = "notify" /\ wPc' = [wPc EXCEPT ![t] = "idle"]
      /\ wParkingLock' = [wParkingLock EXCEPT ![h] = NoHolder]
      /\ wOldHead' = [wOldHead EXCEPT ![t] = NoHolder]
      /\ UNCHANGED <<wWord, wNode, wAlive, wSpinCount>>
  BY Zenon DEF W!notify, W!Goto
<1>1. /\ wPc'[t] = "idle" /\ \A u \in WordThreads : u # t => wPc'[u] = wPc[u]
      /\ wOldHead'[t] = NoHolder /\ \A u \in WordThreads : u # t => wOldHead'[u] = wOldHead[u]
  BY <1>0, Zenon DEF WordInv, W!TypeOK
<1>2. h \in WordThreads /\ h \notin Asleep /\ ~wNode[h].shouldPark
  BY <1>0, Target, Zenon DEF WordInv, WordTargets, Waking
<1>3. W!TypeOK'
  BY <1>0, Zenon DEF WordInv, W!TypeOK, W!Ref
<1>4. WordOwner' /\ WordLocker'
  BY <1>0, <1>1, Zenon DEF WordInv, WordOwner, WordLocker, W!Owns
<1>5. Asleep' = Asleep
  <2>1. \A u \in WordThreads : u # h => ((\A v \in WordThreads : wOldHead'[v] # u)
                                           <=> (\A v \in WordThreads : wOldHead[v] # u))
    BY <1>1, WordAssumed, Zenon
  <2>2. \A u \in WordThreads : u \in Asleep' <=> u \in Asleep
    BY <1>0, <1>1, <1>2, <2>1, Zenon DEF Asleep
  <2> QED BY <2>2, Zenon DEF Asleep
<1>6. WordNodes'
  BY <1>0, <1>1, Zenon DEF WordInv, WordNodes
<1>7. WordTargets'
  <2>1. ASSUME NEW u \in WordThreads, u # t, wPc[u] \in Waking
        PROVE  /\ wPc'[wOldHead[u]] = wPc[wOldHead[u]]
               /\ wParkingLock'[wOldHead[u]] = wParkingLock[wOldHead[u]]
    <3>1. wOldHead[u] \in WordThreads /\ wOldHead[u] # h /\ wOldHead[u] # t
      BY <1>0, <1>2, <2>1, Target, WordAssumed DEF WordInv, WordTargets
    <3> QED BY <1>0, <1>1, <3>1, Zenon DEF WordInv, W!TypeOK
  <2>2. wPc'[t] \notin Waking /\ wPc[t] \in Waking
    BY <1>0, <1>1, Zenon DEF Waking
  <2> QED BY <1>0, <1>1, <2>1, <2>2 DEF WordInv, WordTargets
<1>8. WordQueue'
  BY <1>0, <1>5, QueueKept, Zenon DEF WordInv
<1> QED BY <1>3, <1>4, <1>6, <1>7, <1>8, Zenon DEF WordInv

LEMMA WordInvariant == W!Spec => []WordInv
<1>1. WordInv /\ [W!Next]_(W!vars) => WordInv'
  <2>1. CASE W!Next
    BY <2>1, WordLockStep, WordUnlockStep, WordLockSlowStep, WordLockQueueStep, WordParkStep,
       WordEnqueueStep, WordDequeueStep, WordUnlinkStep, WordWakeStep, WordNotifyStep, Zenon
       DEF W!Next
  <2>2. CASE UNCHANGED W!vars
    <3>1. ASSUME WordInv PROVE W!TypeOK' /\ WordOwner' /\ WordLocker' /\ WordNodes' /\ WordTargets'
      BY <2>2, <3>1 DEF W!vars, WordInv, W!TypeOK, WordOwner, WordLocker, WordNodes, WordTargets,
         W!Owns
    <3>2. UNCHANGED <<Asleep, NextOf, wWord, wNode>>
      BY <2>2, Zenon DEF W!vars, Asleep, NextOf
    <3> QED BY <3>1, <3>2, Zenon DEF WordInv, WordQueue
  <2> QED BY <2>1, <2>2, Zenon
<1> QED BY <1>1, WordInit, PTL DEF W!Spec

\* The queue as the head reaches it is the set of sleeping threads.
LEMMA WordSound == WordInv => WordLockQueueIsSound
<1> SUFFICES ASSUME WordInv PROVE WordLockQueueIsSound
  BY Zenon
<1>1. \A S \in SUBSET WordThreads : W!Linked(S) => Asleep \subseteq S
  BY Zenon DEF WordInv, WordQueue, IsQueue, W!Linked, NextOf
<1>2. Asleep \in SUBSET WordThreads /\ W!Linked(Asleep)
  BY Zenon DEF WordInv, WordQueue, IsQueue, W!Linked, NextOf
<1>3. W!Chain = Asleep
  BY <1>1, <1>2, Zenon DEF W!Chain
<1>4. W!QueueIsExact
  BY <1>3, HeadAsleep, Zenon DEF W!QueueIsExact, Asleep
<1>5. W!NoUseAfterScope
  BY Target, Zenon DEF WordInv, WordNodes, W!NoUseAfterScope, Waking
<1>6. W!AssertsHold
  BY Zenon DEF WordInv, WordLocker, WordNodes, W!AssertsHold
<1> QED BY <1>4, <1>5, <1>6, Zenon DEF WordLockQueueIsSound

(* WordLock: whenever nobody works on the queue, what its head reaches is  *)
(* the set of the sleeping threads that nobody is waking; unlockSlow's     *)
(* work on another thread's ThreadData is over before that thread leaves   *)
(* the scope; and the asserts of lockSlow and unlockSlow hold.             *)
THEOREM WordQueueSound == W!Spec => []WordLockQueueIsSound
BY WordInvariant, WordSound, PTL

-----------------------------------------------------------------------------
(* WordLock as a mutex *)

Owning == {"held", "unlockSlow", "dequeue"}
Asking == {"lockSlow", "lockQueue", "enqueue", "park"}

OwnerOf(pc) == IF \E t \in WordThreads : pc[t] \in Owning
               THEN CHOOSE t \in WordThreads : pc[t] \in Owning ELSE NoHolder
AskersOf(pc) == {t \in WordThreads : pc[t] \in Asking}

LEMMA OneOwner ==
  ASSUME NEW pc, NEW t \in WordThreads, \A u \in WordThreads : pc[u] \in Owning <=> u = t
  PROVE  OwnerOf(pc) = t
BY Zenon DEF OwnerOf

\* What a step of thread t from label a to label b is to the callers.
LEMMA MutexStep ==
  ASSUME WordInv, NEW t \in WordThreads, NEW a, NEW b, wPc[t] = a, wPc' = [wPc EXCEPT ![t] = b],
         \/ a \in Owning /\ b \in Owning
         \/ a \in Asking /\ b \in Asking
         \/ a \in Waking \cup {"idle"} /\ b \in Waking \cup {"idle"}
         \/ a = "idle" /\ b \in Asking
         \/ a \in Owning /\ b \in Waking \cup {"idle"}
         \/ a \in Asking \cup {"idle"} /\ b = "held" /\ ~wWord.locked
  PROVE  [W!M!Next]_(W!M!vars)
<1>1. wPc'[t] = b /\ \A u \in WordThreads : u # t => wPc'[u] = wPc[u]
  BY Zenon DEF WordInv, W!TypeOK
<1>2. \A u, v \in WordThreads : wPc[u] \in Owning /\ wPc[v] \in Owning => u = v
  BY Zenon DEF WordInv, WordOwner, W!Owns, Owning
<1>3. \A u \in WordThreads : wPc[u] \in Owning => wWord.locked
  BY Zenon DEF WordInv, WordOwner, W!Owns, Owning
<1>4. /\ W!owner = OwnerOf(wPc) /\ W!owner' = OwnerOf(wPc')
  BY Zenon DEF W!owner, W!Owns, OwnerOf, Owning
<1>5. Owning \cap Asking = {} /\ Owning \cap (Waking \cup {"idle"}) = {}
        /\ Asking \cap (Waking \cup {"idle"}) = {} /\ "held" \in Owning
  BY Zenon DEF Owning, Asking, Waking
<1>6. CASE (a \in Owning <=> b \in Owning) /\ (a \in Asking <=> b \in Asking)
  <2>1. \A u \in WordThreads : /\ wPc'[u] \in Owning <=> wPc[u] \in Owning
                               /\ wPc'[u] \in Asking <=> wPc[u] \in Asking
    BY <1>1, <1>6, Zenon
  <2>2. AskersOf(wPc') = AskersOf(wPc)
    BY <2>1, Zenon DEF AskersOf
  <2>3. OwnerOf(wPc') = OwnerOf(wPc)
    <3>1. CASE \E u \in WordThreads : wPc[u] \in Owning
      <4>1. PICK u \in WordThreads : wPc[u] \in Owning
        BY <3>1, Zenon
      <4>2. OwnerOf(wPc) = u /\ OwnerOf(wPc') = u
        BY <1>2, <2>1, <4>1, OneOwner, Zenon
      <4> QED BY <4>2, Zenon
    <3>2. CASE ~\E u \in WordThreads : wPc[u] \in Owning
      BY <2>1, <3>2, Zenon DEF OwnerOf
    <3> QED BY <3>1, <3>2, Zenon
  <2> QED BY <1>4, <2>2, <2>3, Zenon DEF W!M!vars, AskersOf, Asking
<1>7. CASE a = "idle" /\ b \in Asking
  <2>1. \A u \in WordThreads : wPc'[u] \in Owning <=> wPc[u] \in Owning
    BY <1>1, <1>5, <1>7, Zenon
  <2>2. OwnerOf(wPc') = OwnerOf(wPc) /\ OwnerOf(wPc) # t
    <3>1. CASE \E u \in WordThreads : wPc[u] \in Owning
      <4>1. PICK u \in WordThreads : wPc[u] \in Owning
        BY <3>1, Zenon
      <4>2. OwnerOf(wPc) = u /\ OwnerOf(wPc') = u /\ u # t
        BY <1>2, <1>5, <1>7, <2>1, <4>1, OneOwner, Zenon
      <4> QED BY <4>2, Zenon
    <3>2. CASE ~\E u \in WordThreads : wPc[u] \in Owning
      BY <2>1, <3>2, WordAssumed, Zenon DEF OwnerOf
    <3> QED BY <3>1, <3>2, Zenon
  <2>3. t \notin AskersOf(wPc) /\ AskersOf(wPc') = AskersOf(wPc) \cup {t}
    BY <1>1, <1>5, <1>7, Zenon DEF AskersOf
  <2>4. W!M!Request(t)
    BY <1>4, <2>2, <2>3, Zenon DEF W!M!Request, AskersOf, Asking
  <2> QED BY <2>4, Zenon DEF W!M!Next
<1>8. CASE a \in Owning /\ b \in Waking \cup {"idle"}
  <2>1. \A u \in WordThreads : wPc[u] \in Owning <=> u = t
    BY <1>2, <1>8, Zenon
  <2>2. \A u \in WordThreads : wPc'[u] \notin Owning
    BY <1>1, <1>5, <1>8, <2>1, Zenon
  <2>3. AskersOf(wPc') = AskersOf(wPc)
    BY <1>1, <1>5, <1>8, Zenon DEF AskersOf
  <2>4. OwnerOf(wPc) = t /\ OwnerOf(wPc') = NoHolder
    BY <2>1, <2>2, OneOwner, Zenon DEF OwnerOf
  <2>5. W!M!Release(t)
    BY <1>4, <2>3, <2>4, Zenon DEF W!M!Release, AskersOf, Asking
  <2> QED BY <2>5, Zenon DEF W!M!Next
<1>9. CASE a \in Asking \cup {"idle"} /\ b = "held" /\ ~wWord.locked
  <2>1. \A u \in WordThreads : wPc[u] \notin Owning
    BY <1>3, <1>9, Zenon
  <2>2. \A u \in WordThreads : wPc'[u] \in Owning <=> u = t
    BY <1>1, <1>5, <1>9, <2>1, Zenon
  <2>3. OwnerOf(wPc) = NoHolder /\ OwnerOf(wPc') = t
    BY <2>1, <2>2, OneOwner, Zenon DEF OwnerOf
  <2>4. CASE a \in Asking
    <3>1. t \in AskersOf(wPc) /\ AskersOf(wPc') = AskersOf(wPc) \ {t}
      BY <1>1, <1>5, <1>9, <2>4, Zenon DEF AskersOf
    <3>2. W!M!Acquire(t)
      BY <1>4, <2>3, <3>1, Zenon DEF W!M!Acquire, AskersOf, Asking
    <3> QED BY <3>2, Zenon DEF W!M!Next
  <2>5. CASE a = "idle"
    <3>1. t \notin AskersOf(wPc) /\ AskersOf(wPc') = AskersOf(wPc)
      BY <1>1, <1>5, <1>9, <2>5, Zenon DEF AskersOf
    <3>2. W!M!Enter(t)
      BY <1>4, <2>3, <3>1, Zenon DEF W!M!Enter, AskersOf, Asking
    <3> QED BY <3>2, Zenon DEF W!M!Next
  <2> QED BY <1>9, <2>4, <2>5, Zenon
<1> QED BY <1>5, <1>6, <1>7, <1>8, <1>9, Zenon

(* lock() and unlock() of WordLock implement a mutex: what happens to the *)
(* word, the queue and the ThreadData is a step of Mutex or invisible.    *)
THEOREM WordLockIsMutex == W!Spec => W!ImplementsMutex
<1>1. W!Init => W!M!Init
  BY Zenon DEF W!Init, W!M!Init, W!owner, W!Owns
<1>2. WordInv /\ [W!Next]_(W!vars) => [W!M!Next]_(W!M!vars)
  <2> SUFFICES ASSUME WordInv, [W!Next]_(W!vars) PROVE [W!M!Next]_(W!M!vars)
    BY Zenon
  <2>1. ASSUME NEW t \in WordThreads, W!lock(t) PROVE [W!M!Next]_(W!M!vars)
    BY <2>1, MutexStep DEF W!lock, W!Goto, W!Zero, Asking
  <2>2. ASSUME NEW t \in WordThreads, W!lockSlow(t) PROVE [W!M!Next]_(W!M!vars)
    <3>1. CASE wPc' = wPc
      BY <3>1, Zenon DEF W!M!vars, W!owner, W!Owns
    <3>2. CASE wPc' # wPc
      BY <2>2, <3>2, MutexStep, Zenon DEF W!lockSlow, W!Goto, Asking
    <3> QED BY <3>1, <3>2, Zenon
  <2>3. ASSUME NEW t \in WordThreads, W!lockQueue(t) \/ W!enqueue(t) \/ W!park(t)
        PROVE  [W!M!Next]_(W!M!vars)
    BY <2>3, MutexStep, Zenon DEF W!lockQueue, W!enqueue, W!park, W!Goto, Asking
  <2>4. ASSUME NEW t \in WordThreads, W!unlock(t) \/ W!unlockSlow(t) \/ W!dequeue(t)
        PROVE  [W!M!Next]_(W!M!vars)
    BY <2>4, MutexStep, Zenon DEF W!unlock, W!unlockSlow, W!dequeue, W!Goto, Owning, Waking
  <2>5. ASSUME NEW t \in WordThreads, W!unlink(t) \/ W!wake(t) \/ W!notify(t)
        PROVE  [W!M!Next]_(W!M!vars)
    BY <2>5, MutexStep, Zenon DEF W!unlink, W!wake, W!notify, W!Goto, Waking
  <2>6. CASE UNCHANGED W!vars
    BY <2>6, Zenon DEF W!vars, W!M!vars, W!owner, W!Owns
  <2> QED BY <2>1, <2>2, <2>3, <2>4, <2>5, <2>6, Zenon DEF W!Next
<1> QED BY <1>1, <1>2, WordInvariant, PTL DEF W!Spec, W!ImplementsMutex, W!M!Spec
=============================================================================

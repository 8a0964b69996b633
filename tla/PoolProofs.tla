----------------------------- MODULE PoolProofs -----------------------------
(***************************************************************************)
(* The clients of AutomaticThread keep their promises for every number of  *)
(* threads, clients and tasks: ~WorkerPool returns when every posted task  *)
(* has run exactly once, and a client's finish() when nobody runs its task *)
(* any more.                                                               *)
(***************************************************************************)
EXTENDS Integers, Sequences, MCPools, FiniteSetTheorems, TLAPS

-----------------------------------------------------------------------------
(* WorkerPool: the inductive invariant *)

\* A thread that has stopped for good has no underlying thread, and nobody stops
\* for good before ~WorkerPool.
WorkerThreads ==
    /\ O!OnlyRunningThreadsStart
    /\ owningThread = "posting" => \A t \in O!AllThreads : oIsRunning[t]
    /\ owningThread = "destroyed" => \A t \in O!AllThreads : ~oIsRunning[t]

ActiveWorkers(at) == {t \in O!AllThreads : at[t] \notin {"none", "starting"}}
RunningWorkers(isRunning) == {t \in O!AllThreads : isRunning[t]}

\* One null task for each worker that has not stopped for good.
Nulls == IF owningThread = "posting" THEN 0 ELSE Cardinality(RunningWorkers(oIsRunning))

\* The first n of the posted tasks have been taken, and the queue holds the others
\* in order; nobody finds a null task before they are all taken.
Backlog(n) ==
    /\ Len(tasks) = posted - n + Nulls
    /\ \A i \in DOMAIN tasks : tasks[i] = IF i <= posted - n THEN n + i ELSE Null
    /\ n < posted => \A t \in O!AllThreads : oIsRunning[t]
    /\ \A k \in O!TaskIds : k > n => done[k] = 0 /\ \A t \in O!AllThreads : task[t] # k
    /\ \A k \in O!TaskIds : k <= n => done[k] = 1 \/ \E t \in O!AllThreads : task[t] = k

\* A task is done, or one worker has it.
Assigned ==
    /\ \A t \in O!AllThreads : oAt[t] = "work" <=> task[t] # Null
    /\ \A t, u \in O!AllThreads : task[t] = task[u] /\ task[t] # Null => t = u
    /\ \A t \in O!AllThreads, k \in O!TaskIds : task[t] = k => done[k] = 0

WorkerInv ==
    /\ O!TypeOK /\ WorkerThreads /\ Assigned
    /\ numberOfActiveWorkers = Cardinality(ActiveWorkers(oAt))
    /\ \E n \in 0 .. posted : Backlog(n)

LEMMA WorkersAssumed ==
  /\ Workers \in Nat \ {0} /\ Tasks \in Nat /\ O!TaskIds = 1 .. Tasks /\ Null \notin O!TaskIds
  /\ O!AllThreads = 1 .. Workers
  /\ IsFiniteSet(O!AllThreads) /\ Cardinality(O!AllThreads) = Workers
<1>1. /\ Workers \in Nat \ {0} /\ Tasks \in Nat /\ O!TaskIds = 1 .. Tasks /\ Null \notin O!TaskIds
      /\ O!AllThreads = 1 .. Workers
  BY PoolsAssumption, Zenon DEF O!WorkerPoolAssumption, O!AutomaticThreadAssumption, O!TaskIds,
     O!AllThreads
<1>2. IsFiniteSet(1 .. Workers) /\ Cardinality(1 .. Workers) = Workers
  BY <1>1, FS_Interval
<1> QED BY <1>1, <1>2, Zenon

LEMMA WorkerSets ==
  ASSUME NEW p
  PROVE  /\ IsFiniteSet(ActiveWorkers(p)) /\ Cardinality(ActiveWorkers(p)) \in 0 .. Workers
         /\ IsFiniteSet(RunningWorkers(p)) /\ Cardinality(RunningWorkers(p)) \in 0 .. Workers
<1>1. ActiveWorkers(p) \subseteq O!AllThreads /\ RunningWorkers(p) \subseteq O!AllThreads
  BY Zenon DEF ActiveWorkers, RunningWorkers
<1>2. /\ IsFiniteSet(ActiveWorkers(p)) /\ Cardinality(ActiveWorkers(p)) <= Workers
      /\ IsFiniteSet(RunningWorkers(p)) /\ Cardinality(RunningWorkers(p)) <= Workers
  BY <1>1, FS_Subset, WorkersAssumed, Zenon
<1>3. Cardinality(ActiveWorkers(p)) \in Nat /\ Cardinality(RunningWorkers(p)) \in Nat
  BY <1>2, FS_CardinalityType, Zenon
<1> QED BY <1>2, <1>3, WorkersAssumed

\* A set with one more and with one less.
LEMMA SetMore ==
  ASSUME NEW S, IsFiniteSet(S), NEW x, x \notin S
  PROVE  Cardinality(S \cup {x}) = Cardinality(S) + 1
BY FS_AddElement, Zenon

LEMMA SetLess ==
  ASSUME NEW S, IsFiniteSet(S), NEW x \in S
  PROVE  Cardinality(S \ {x}) = Cardinality(S) - 1
BY FS_RemoveElement, Zenon

\* A queue without its head, and with null tasks at its end.
LEMMA QueueTail ==
  ASSUME NEW S, NEW s \in Seq(S), s # <<>>
  PROVE  /\ Tail(s) \in Seq(S) /\ Len(Tail(s)) = Len(s) - 1
         /\ \A i \in DOMAIN Tail(s) : i + 1 \in DOMAIN s /\ Tail(s)[i] = s[i + 1]
         /\ Len(s) >= 1 /\ Head(s) = s[1]
OBVIOUS

LEMMA QueueNulls ==
  ASSUME NEW S, NEW s \in Seq(S), NEW x \in S, NEW n \in Nat
  PROVE  LET z == s \o [i \in 1 .. n |-> x]
         IN  /\ z \in Seq(S) /\ Len(z) = Len(s) + n
             /\ \A i \in DOMAIN z : z[i] = IF i <= Len(s) THEN s[i] ELSE x
<1> DEFINE e == [i \in 1 .. n |-> x]
<1>1. e \in Seq(S) /\ Len(e) = n
  OBVIOUS
<1>2. \A i \in 1 .. n : e[i] = x
  BY Zenon
<1> HIDE DEF e
<1>3. s \o e \in Seq(S) /\ Len(s \o e) = Len(s) + n
  BY <1>1
<1>4. \A i \in 1 .. Len(s) + n : (s \o e)[i] = IF i <= Len(s) THEN s[i] ELSE e[i - Len(s)]
  BY <1>1
<1>5. \A i \in 1 .. Len(s) + n : i <= Len(s) \/ i - Len(s) \in 1 .. n
  OBVIOUS
<1>6. \A i \in 1 .. Len(s) + n : (s \o e)[i] = IF i <= Len(s) THEN s[i] ELSE x
  BY <1>2, <1>4, <1>5, Zenon
<1>7. DOMAIN (s \o e) = 1 .. Len(s) + n
  BY <1>3
<1> QED BY <1>3, <1>6, <1>7, Zenon DEF e

\* What a notification does to the threads: it wakes waiting ones and starts absent ones.
LEMMA WorkersNotified ==
  ASSUME O!TypeOK, WorkerThreads, NEW woken, NEW started, O!notifyAndStart(woken, started),
         \A t \in woken : oHasUnderlyingThread[t],
         \A t \in started : ~oHasUnderlyingThread[t] /\ oIsRunning[t],
         woken \subseteq O!AllThreads, started \subseteq O!AllThreads, UNCHANGED oCreated
  PROVE  /\ O!ThreadTypeOK' /\ O!OnlyRunningThreadsStart'
         /\ oIsRunning' = oIsRunning
         /\ ActiveWorkers(oAt') = ActiveWorkers(oAt)
         /\ \A t \in O!AllThreads : oAt'[t] = "work" <=> oAt[t] = "work"
<1>1. ASSUME NEW t \in O!AllThreads
      PROVE  /\ t \in started => oAt[t] = "none" /\ oAt'[t] = "starting" /\ t \notin woken
             /\ t \in woken /\ oAt[t] = "wait" => oAt'[t] = "notified" /\ t \notin started
             /\ t \notin started /\ ~(t \in woken /\ oAt[t] = "wait") => oAt'[t] = oAt[t]
  BY <1>1, Zenon DEF O!notifyAndStart, WorkerThreads, O!OnlyRunningThreadsStart
<1>2. O!ThreadTypeOK'
  <2>1. oIsWaiting' \in [O!AllThreads -> BOOLEAN] /\ oHasUnderlyingThread' \in [O!AllThreads -> BOOLEAN]
    BY Zenon DEF O!notifyAndStart, O!TypeOK, O!ThreadTypeOK
  <2>2. DOMAIN oAt' = O!AllThreads /\ oAt' = [t \in O!AllThreads |-> oAt'[t]]
    BY Zenon DEF O!notifyAndStart
  <2>3. \A t \in O!AllThreads : oAt'[t] \in {"none", "starting", "poll", "wait", "notified", "timedOut", "work"}
    BY <1>1, Zenon DEF O!TypeOK, O!ThreadTypeOK
  <2>4. oAt' \in [O!AllThreads -> {"none", "starting", "poll", "wait", "notified", "timedOut", "work"}]
    BY <2>2, <2>3, Zenon
  <2> QED BY <2>1, <2>4, Zenon DEF O!notifyAndStart, O!TypeOK, O!ThreadTypeOK
<1>3. \A t \in O!AllThreads : oHasUnderlyingThread'[t] <=> oHasUnderlyingThread[t] \/ t \in started
  BY Zenon DEF O!notifyAndStart
<1>4. oIsRunning' = oIsRunning
  BY Zenon DEF O!notifyAndStart
<1>5. O!OnlyRunningThreadsStart'
  BY <1>1, <1>3, <1>4, Zenon DEF WorkerThreads, O!OnlyRunningThreadsStart
<1>6. ActiveWorkers(oAt') = ActiveWorkers(oAt)
  BY <1>1, Zenon DEF ActiveWorkers
<1>7. \A t \in O!AllThreads : oAt'[t] = "work" <=> oAt[t] = "work"
  BY <1>1, Zenon
<1> QED BY <1>2, <1>4, <1>5, <1>6, <1>7, Zenon

LEMMA WorkerInit == O!Init => WorkerInv
<1> SUFFICES ASSUME O!Init PROVE WorkerInv
  BY Zenon
<1>1. O!TypeOK
  <2>1. O!ThreadTypeOK
    BY WorkersAssumed DEF O!Init, O!ThreadInit, O!ThreadTypeOK
  <2>2. tasks \in Seq(O!TaskIds \cup {Null}) /\ task \in [O!AllThreads -> O!TaskIds \cup {Null}]
    BY DEF O!Init
  <2>3. 0 \in 0 .. Workers /\ 0 \in 0 .. Tasks /\ done \in [O!TaskIds -> 0 .. 1]
    BY WorkersAssumed DEF O!Init
  <2> QED BY <2>1, <2>2, <2>3, Zenon DEF O!Init, O!TypeOK
<1>2. WorkerThreads
  BY Zenon DEF O!Init, O!ThreadInit, WorkerThreads, O!OnlyRunningThreadsStart
<1>3. Assigned
  BY WorkersAssumed, Zenon DEF O!Init, O!ThreadInit, Assigned
<1>4. ActiveWorkers(oAt) = {}
  BY Zenon DEF O!Init, O!ThreadInit, ActiveWorkers
<1>5. Backlog(0)
  BY WorkersAssumed DEF O!Init, O!ThreadInit, Backlog, Nulls
<1> QED BY <1>1, <1>2, <1>3, <1>4, <1>5, FS_EmptySet DEF WorkerInv, O!Init

\* Steps that take no task, post none and stop nobody for good.
LEMMA BacklogKept ==
  ASSUME NEW n, Backlog(n), UNCHANGED <<tasks, posted, owningThread, oIsRunning, done, task>>
  PROVE  Backlog(n)'
BY Zenon DEF Backlog, Nulls

LEMMA PostTaskStep ==
  ASSUME WorkerInv, O!postTask
  PROVE  WorkerInv'
<1> DEFINE waiting == {t \in O!Created : O!IsWaiting(t)}
           absent == {t \in O!Created : ~oHasUnderlyingThread[t]}
           started == IF waiting = {} THEN O!First(absent) ELSE {}
<1>0. /\ owningThread = "posting" /\ posted < Tasks /\ posted' = posted + 1
      /\ tasks' = Append(tasks, posted + 1)
      /\ UNCHANGED <<oCreated, task, numberOfActiveWorkers, sleptBefore, owningThread, done>>
  BY Zenon DEF O!postTask
<1>1. O!Created \subseteq O!AllThreads
  BY WorkersAssumed DEF WorkerInv, O!TypeOK, O!ThreadTypeOK, O!Created
<1>2. O!First(waiting) \subseteq waiting /\ started \subseteq absent
  BY Zenon DEF O!First
<1>3. O!notifyAndStart(O!First(waiting), started)
  BY Zenon DEF O!postTask, O!notifyOne, O!notifyOneAmong
<1>4. \A t \in O!First(waiting) : oHasUnderlyingThread[t]
  BY <1>2, Zenon DEF O!IsWaiting
<1>5. \A t \in started : ~oHasUnderlyingThread[t] /\ oIsRunning[t]
  BY <1>0, <1>1, <1>2, Zenon DEF WorkerInv, WorkerThreads
<1> HIDE DEF waiting, started
<1>6. /\ O!ThreadTypeOK' /\ O!OnlyRunningThreadsStart' /\ oIsRunning' = oIsRunning
      /\ ActiveWorkers(oAt') = ActiveWorkers(oAt)
      /\ \A t \in O!AllThreads : oAt'[t] = "work" <=> oAt[t] = "work"
  <2>1. O!First(waiting) \subseteq O!AllThreads /\ started \subseteq O!AllThreads
    BY <1>1, <1>2, Zenon DEF waiting
  <2> QED BY <1>0, <1>3, <1>4, <1>5, <2>1, WorkersNotified, Zenon DEF WorkerInv
<1>7. O!TypeOK'
  <2>1. posted' \in 0 .. Tasks /\ posted + 1 \in O!TaskIds
    BY <1>0, WorkersAssumed DEF WorkerInv, O!TypeOK
  <2>2. tasks' \in Seq(O!TaskIds \cup {Null})
    BY <1>0, <2>1 DEF WorkerInv, O!TypeOK
  <2> QED BY <1>0, <1>6, <2>1, <2>2, Zenon DEF WorkerInv, O!TypeOK
<1>8. WorkerThreads' /\ Assigned'
  BY <1>0, <1>6, Zenon DEF WorkerInv, WorkerThreads, Assigned
<1>9. \E n \in 0 .. posted' : Backlog(n)'
  <2>1. PICK n \in 0 .. posted : Backlog(n)
    BY Zenon DEF WorkerInv
  <2>2. posted \in Nat /\ n \in Nat /\ n <= posted /\ Len(tasks) = posted - n
        /\ tasks \in Seq(O!TaskIds \cup {Null})
    BY <1>0, <2>1 DEF WorkerInv, O!TypeOK, Backlog, Nulls
  <2>3. /\ Len(tasks') = posted' - n
        /\ \A i \in DOMAIN tasks' : tasks'[i] = IF i <= posted' - n THEN n + i ELSE Null
    <3>1. /\ Len(tasks') = Len(tasks) + 1 /\ DOMAIN tasks' = 1 .. Len(tasks) + 1
          /\ \A i \in 1 .. Len(tasks) : tasks'[i] = tasks[i]
          /\ tasks'[Len(tasks) + 1] = posted + 1
      BY <1>0, <2>2
    <3>2. \A i \in 1 .. Len(tasks) : tasks[i] = n + i
      <4>1. \A i \in DOMAIN tasks : tasks[i] = IF i <= posted - n THEN n + i ELSE Null
        BY <2>1, Zenon DEF Backlog
      <4>2. DOMAIN tasks = 1 .. Len(tasks)
        BY <2>2
      <4> QED BY <2>2, <4>1, <4>2
    <3>3. posted' - n = Len(tasks) + 1 /\ n + (Len(tasks) + 1) = posted + 1
      BY <1>0, <2>2
    <3>4. \A i \in 1 .. Len(tasks) + 1 : i \in 1 .. Len(tasks) \/ i = Len(tasks) + 1
      BY <2>2
    <3>5. Len(tasks) \in Nat /\ Len(tasks) + 1 <= Len(tasks) + 1
             /\ \A i \in 1 .. Len(tasks) : i <= Len(tasks) + 1
      BY <2>2
    <3>6. ASSUME NEW i \in 1 .. Len(tasks) + 1
          PROVE  tasks'[i] = n + i /\ i <= posted' - n
      <4>1. CASE i \in 1 .. Len(tasks)
        <5>1. tasks'[i] = n + i
          BY <3>1, <3>2, <4>1, Zenon
        <5> QED BY <3>3, <3>5, <4>1, <5>1, Zenon
      <4>2. CASE i = Len(tasks) + 1
        <5>1. tasks'[i] = posted + 1
          BY <3>1, <4>2, Zenon
        <5> QED BY <3>3, <3>5, <4>2, <5>1, Zenon
      <4> QED BY <3>4, <4>1, <4>2, Zenon
    <3> QED BY <3>1, <3>3, <3>6, Zenon
  <2>4. Backlog(n)'
    <3>1. Nulls' = 0 /\ posted' - n + 0 = posted' - n
      BY <1>0, <2>2 DEF Nulls
    <3>2. \A t \in O!AllThreads : oIsRunning'[t]
      BY <1>0, <1>6, Zenon DEF WorkerInv, WorkerThreads
    <3> QED BY <1>0, <2>1, <2>3, <3>1, <3>2, Zenon DEF Backlog
  <2> QED BY <1>0, <2>2, <2>4
<1> QED BY <1>0, <1>6, <1>7, <1>8, <1>9, Zenon DEF WorkerInv

LEMMA DestroyStep ==
  ASSUME WorkerInv, O!destroy
  PROVE  WorkerInv'
<1> DEFINE waiting == {t \in O!Created : O!IsWaiting(t)}
           absent == {t \in O!Created : ~oHasUnderlyingThread[t]}
<1>0. /\ owningThread = "posting" /\ owningThread' = "joining"
      /\ tasks' = tasks \o [i \in 1 .. Workers |-> Null]
      /\ UNCHANGED <<oCreated, task, numberOfActiveWorkers, sleptBefore, posted, done>>
  BY WorkersAssumed, Zenon DEF O!destroy
<1>1. O!Created \subseteq O!AllThreads
  BY WorkersAssumed DEF WorkerInv, O!TypeOK, O!ThreadTypeOK, O!Created
<1>2. O!notifyAndStart(waiting, absent)
  BY Zenon DEF O!destroy, O!notifyAll, O!notifyAllAmong
<1>3. \A t \in waiting : oHasUnderlyingThread[t]
  BY Zenon DEF O!IsWaiting
<1>4. \A t \in absent : ~oHasUnderlyingThread[t] /\ oIsRunning[t]
  BY <1>0, <1>1, Zenon DEF WorkerInv, WorkerThreads
<1>5. waiting \subseteq O!AllThreads /\ absent \subseteq O!AllThreads
  BY <1>1, Zenon
<1> HIDE DEF waiting, absent
<1>6. /\ O!ThreadTypeOK' /\ O!OnlyRunningThreadsStart' /\ oIsRunning' = oIsRunning
      /\ ActiveWorkers(oAt') = ActiveWorkers(oAt)
      /\ \A t \in O!AllThreads : oAt'[t] = "work" <=> oAt[t] = "work"
  BY <1>0, <1>2, <1>3, <1>4, <1>5, WorkersNotified, Zenon DEF WorkerInv
<1>7. /\ tasks' \in Seq(O!TaskIds \cup {Null}) /\ Len(tasks') = Len(tasks) + Workers
      /\ \A i \in DOMAIN tasks' : tasks'[i] = IF i <= Len(tasks) THEN tasks[i] ELSE Null
  <2>1. tasks \in Seq(O!TaskIds \cup {Null}) /\ Workers \in Nat
    BY WorkersAssumed, Zenon DEF WorkerInv, O!TypeOK
  <2> QED BY <1>0, <2>1, QueueNulls
<1>8. O!TypeOK'
  BY <1>0, <1>6, <1>7, Zenon DEF WorkerInv, O!TypeOK
<1>9. WorkerThreads' /\ Assigned'
  BY <1>0, <1>6, Zenon DEF WorkerInv, WorkerThreads, Assigned
<1>10. \E n \in 0 .. posted' : Backlog(n)'
  <2>1. PICK n \in 0 .. posted : Backlog(n)
    BY Zenon DEF WorkerInv
  <2>2. posted \in Nat /\ n \in Nat /\ n <= posted /\ Len(tasks) = posted - n
        /\ tasks \in Seq(O!TaskIds \cup {Null})
    BY <1>0, <2>1 DEF WorkerInv, O!TypeOK, Backlog, Nulls
  <2>3. Nulls' = Workers
    <3>1. RunningWorkers(oIsRunning') = O!AllThreads
      BY <1>0, <1>6, Zenon DEF WorkerInv, WorkerThreads, RunningWorkers
    <3> QED BY <1>0, <3>1, WorkersAssumed, Zenon DEF Nulls
  <2>4. \A i \in DOMAIN tasks' : tasks'[i] = IF i <= posted - n THEN n + i ELSE Null
    <3>1. DOMAIN tasks' = 1 .. Len(tasks) + Workers /\ DOMAIN tasks = 1 .. Len(tasks)
      BY <1>7, <2>2
    <3>2. \A i \in 1 .. Len(tasks) : tasks[i] = n + i
      <4>1. \A i \in DOMAIN tasks : tasks[i] = IF i <= posted - n THEN n + i ELSE Null
        BY <2>1, Zenon DEF Backlog
      <4> QED BY <2>2, <3>1, <4>1
    <3> QED BY <1>7, <2>2, <3>1, <3>2
  <2>5. Backlog(n)'
    <3>1. \A t \in O!AllThreads : oIsRunning'[t]
      BY <1>0, <1>6, Zenon DEF WorkerInv, WorkerThreads
    <3>2. Len(tasks') = posted' - n + Nulls'
      BY <1>0, <1>7, <2>2, <2>3, WorkersAssumed, Zenon
    <3> QED BY <1>0, <2>1, <2>4, <3>1, <3>2, Zenon DEF Backlog
  <2> QED BY <1>0, <2>1, <2>5, Zenon
<1> QED BY <1>0, <1>6, <1>8, <1>9, <1>10, Zenon DEF WorkerInv

LEMMA JoinStep ==
  ASSUME WorkerInv, O!join
  PROVE  WorkerInv'
<1>0. /\ owningThread = "joining" /\ owningThread' = "destroyed" /\ \A t \in O!AllThreads : ~oIsRunning[t]
      /\ UNCHANGED <<oCreated, oIsRunning, oIsWaiting, oHasUnderlyingThread, oAt,
                     tasks, task, numberOfActiveWorkers, sleptBefore, posted, done>>
  BY Zenon DEF O!join, O!threadVars
<1>1. O!TypeOK'
  BY <1>0, Zenon DEF WorkerInv, O!TypeOK, O!ThreadTypeOK
<1>2. WorkerThreads' /\ Assigned'
  BY <1>0, Zenon DEF WorkerInv, WorkerThreads, O!OnlyRunningThreadsStart, Assigned
<1>3. Nulls' = Nulls
  BY <1>0, Zenon DEF Nulls
<1>4. \E n \in 0 .. posted' : Backlog(n)'
  BY <1>0, <1>3 DEF WorkerInv, Backlog
<1> QED BY <1>0, <1>1, <1>2, <1>4, Zenon DEF WorkerInv

WorkerLabels == {"none", "starting", "poll", "wait", "notified", "timedOut", "work"}

\* A thread gets from one place to another: what that does to the counted threads.
LEMMA WorkerMoves ==
  ASSUME O!TypeOK, NEW t \in O!AllThreads, NEW l \in WorkerLabels, oAt' = [oAt EXCEPT ![t] = l]
  PROVE  /\ oAt' \in [O!AllThreads -> WorkerLabels]
         /\ oAt'[t] = l /\ \A u \in O!AllThreads : u # t => oAt'[u] = oAt[u]
         /\ oAt[t] = "starting" /\ l \notin {"none", "starting"} =>
              Cardinality(ActiveWorkers(oAt')) = Cardinality(ActiveWorkers(oAt)) + 1
         /\ oAt[t] \notin {"none", "starting"} /\ l = "none" =>
              Cardinality(ActiveWorkers(oAt')) = Cardinality(ActiveWorkers(oAt)) - 1
         /\ oAt[t] \notin {"none", "starting"} /\ l \notin {"none", "starting"} =>
              ActiveWorkers(oAt') = ActiveWorkers(oAt)
<1>1. /\ oAt' \in [O!AllThreads -> WorkerLabels]
      /\ oAt'[t] = l /\ \A u \in O!AllThreads : u # t => oAt'[u] = oAt[u]
  BY Zenon DEF O!TypeOK, O!ThreadTypeOK, WorkerLabels
<1>2. ASSUME oAt[t] = "starting", l \notin {"none", "starting"}
      PROVE  Cardinality(ActiveWorkers(oAt')) = Cardinality(ActiveWorkers(oAt)) + 1
  <2>1. ActiveWorkers(oAt') = ActiveWorkers(oAt) \cup {t} /\ t \notin ActiveWorkers(oAt)
    BY <1>1, <1>2, Zenon DEF ActiveWorkers
  <2> QED BY <2>1, SetMore, WorkerSets, Zenon
<1>3. ASSUME oAt[t] \notin {"none", "starting"}, l = "none"
      PROVE  Cardinality(ActiveWorkers(oAt')) = Cardinality(ActiveWorkers(oAt)) - 1
  <2>1. ActiveWorkers(oAt') = ActiveWorkers(oAt) \ {t} /\ t \in ActiveWorkers(oAt)
    BY <1>1, <1>3, Zenon DEF ActiveWorkers
  <2> QED BY <2>1, SetLess, WorkerSets, Zenon
<1>4. ASSUME oAt[t] \notin {"none", "starting"}, l \notin {"none", "starting"}
      PROVE  ActiveWorkers(oAt') = ActiveWorkers(oAt)
  BY <1>1, <1>4, Zenon DEF ActiveWorkers
<1> QED BY <1>1, <1>2, <1>3, <1>4, Zenon

LEMMA WorkerCount ==
  ASSUME numberOfActiveWorkers' = Cardinality(ActiveWorkers(oAt'))
  PROVE  numberOfActiveWorkers' \in 0 .. Workers
BY WorkerSets, Zenon

LEMMA DidStartStep ==
  ASSUME WorkerInv, NEW t \in O!AllThreads, O!threadDidStart(t)
  PROVE  WorkerInv'
<1>0. /\ oAt[t] = "starting" /\ oAt' = [oAt EXCEPT ![t] = "poll"]
      /\ numberOfActiveWorkers' = numberOfActiveWorkers + 1
      /\ UNCHANGED <<oCreated, oIsRunning, oIsWaiting, oHasUnderlyingThread,
                     tasks, task, sleptBefore, owningThread, posted, done>>
  BY Zenon DEF O!threadDidStart, O!didStart
<1>1. /\ oAt' \in [O!AllThreads -> WorkerLabels]
      /\ oAt'[t] = "poll" /\ \A u \in O!AllThreads : u # t => oAt'[u] = oAt[u]
      /\ numberOfActiveWorkers' = Cardinality(ActiveWorkers(oAt'))
  BY <1>0, WorkerMoves, Zenon DEF WorkerInv, WorkerLabels
<1>2. O!TypeOK'
  BY <1>0, <1>1, WorkerCount, Zenon DEF WorkerInv, O!TypeOK, O!ThreadTypeOK, WorkerLabels
<1>3. WorkerThreads' /\ Assigned'
  BY <1>0, <1>1, Zenon DEF WorkerInv, WorkerThreads, O!OnlyRunningThreadsStart, Assigned
<1>4. \E n \in 0 .. posted' : Backlog(n)'
  BY <1>0, BacklogKept, Zenon DEF WorkerInv
<1> QED BY <1>1, <1>2, <1>3, <1>4, Zenon DEF WorkerInv

LEMMA FallAsleepStep ==
  ASSUME WorkerInv, NEW t \in O!AllThreads, O!fallAsleep(t)
  PROVE  WorkerInv'
<1>0. /\ oAt[t] \in {"notified", "timedOut"} /\ oAt' = [oAt EXCEPT ![t] = "none"]
      /\ oIsWaiting' = [oIsWaiting EXCEPT ![t] = FALSE]
      /\ oHasUnderlyingThread' = [oHasUnderlyingThread EXCEPT ![t] = FALSE]
      /\ numberOfActiveWorkers' = numberOfActiveWorkers - 1 /\ sleptBefore' \in BOOLEAN
      /\ UNCHANGED <<oCreated, oIsRunning, tasks, task, owningThread, posted, done>>
  BY Zenon DEF O!fallAsleep, O!WaitedInVain, O!stopForTimeout, O!shouldSleep, WorkerInv, O!TypeOK
<1>1. /\ oAt' \in [O!AllThreads -> WorkerLabels]
      /\ oAt'[t] = "none" /\ \A u \in O!AllThreads : u # t => oAt'[u] = oAt[u]
      /\ numberOfActiveWorkers' = Cardinality(ActiveWorkers(oAt'))
  BY <1>0, WorkerMoves, Zenon DEF WorkerInv, WorkerLabels
<1>2. O!TypeOK'
  BY <1>0, <1>1, WorkerCount, Zenon DEF WorkerInv, O!TypeOK, O!ThreadTypeOK, WorkerLabels
<1>3. ~oHasUnderlyingThread'[t] /\ \A u \in O!AllThreads : u # t => oHasUnderlyingThread'[u] = oHasUnderlyingThread[u]
  BY <1>0, Zenon DEF WorkerInv, O!TypeOK, O!ThreadTypeOK
<1>4. WorkerThreads'
  BY <1>0, <1>1, <1>3, Zenon DEF WorkerInv, WorkerThreads, O!OnlyRunningThreadsStart
<1>5. Assigned'
  BY <1>0, <1>1, Zenon DEF WorkerInv, Assigned
<1>6. \E n \in 0 .. posted' : Backlog(n)'
  BY <1>0, BacklogKept, Zenon DEF WorkerInv
<1> QED BY <1>1, <1>2, <1>4, <1>5, <1>6, Zenon DEF WorkerInv

LEMMA TimesOutStep ==
  ASSUME WorkerInv, NEW t \in O!AllThreads, O!waitTimesOut(t)
  PROVE  WorkerInv'
<1>0. /\ oAt[t] = "wait" /\ oAt' = [oAt EXCEPT ![t] = "timedOut"]
      /\ UNCHANGED <<oCreated, oIsRunning, oIsWaiting, oHasUnderlyingThread, numberOfActiveWorkers,
                     tasks, task, sleptBefore, owningThread, posted, done>>
  BY Zenon DEF O!waitTimesOut, O!timeout
<1>1. /\ oAt' \in [O!AllThreads -> WorkerLabels]
      /\ oAt'[t] = "timedOut" /\ \A u \in O!AllThreads : u # t => oAt'[u] = oAt[u]
      /\ ActiveWorkers(oAt') = ActiveWorkers(oAt)
  BY <1>0, WorkerMoves, Zenon DEF WorkerInv, WorkerLabels
<1>2. O!TypeOK'
  BY <1>0, <1>1, Zenon DEF WorkerInv, O!TypeOK, O!ThreadTypeOK, WorkerLabels
<1>3. WorkerThreads' /\ Assigned'
  BY <1>0, <1>1, Zenon DEF WorkerInv, WorkerThreads, O!OnlyRunningThreadsStart, Assigned
<1>4. \E n \in 0 .. posted' : Backlog(n)'
  BY <1>0, BacklogKept, Zenon DEF WorkerInv
<1> QED BY <1>0, <1>1, <1>2, <1>3, <1>4, Zenon DEF WorkerInv

\* poll() takes sleptBefore along in a way that its type survives.
LEMMA PollSlept ==
  ASSUME WorkerInv, NEW t \in O!AllThreads, O!poll(t)
  PROVE  /\ oAt[t] \in {"poll", "notified", "timedOut"} /\ sleptBefore' \in BOOLEAN
         /\ UNCHANGED <<owningThread, posted, done>> /\ O!Polls(t)
BY Zenon DEF O!poll, O!MayPoll, O!shouldSleep, WorkerInv, O!TypeOK

LEMMA PollWaitStep ==
  ASSUME WorkerInv, NEW t \in O!AllThreads, O!poll(t), tasks = <<>>
  PROVE  WorkerInv'
<1>0. /\ oAt[t] \in {"poll", "notified", "timedOut"} /\ oAt' = [oAt EXCEPT ![t] = "wait"]
      /\ oIsWaiting' = [oIsWaiting EXCEPT ![t] = TRUE] /\ sleptBefore' \in BOOLEAN
      /\ UNCHANGED <<oCreated, oIsRunning, oHasUnderlyingThread, numberOfActiveWorkers,
                     tasks, task, owningThread, posted, done>>
  BY PollSlept, Zenon DEF O!Polls, O!pollWait
<1>1. /\ oAt' \in [O!AllThreads -> WorkerLabels]
      /\ oAt'[t] = "wait" /\ \A u \in O!AllThreads : u # t => oAt'[u] = oAt[u]
      /\ ActiveWorkers(oAt') = ActiveWorkers(oAt)
  BY <1>0, WorkerMoves, Zenon DEF WorkerInv, WorkerLabels
<1>2. O!TypeOK'
  BY <1>0, <1>1, Zenon DEF WorkerInv, O!TypeOK, O!ThreadTypeOK, WorkerLabels
<1>3. WorkerThreads' /\ Assigned'
  BY <1>0, <1>1, Zenon DEF WorkerInv, WorkerThreads, O!OnlyRunningThreadsStart, Assigned
<1>4. \E n \in 0 .. posted' : Backlog(n)'
  BY <1>0, BacklogKept, Zenon DEF WorkerInv
<1> QED BY <1>0, <1>1, <1>2, <1>3, <1>4, Zenon DEF WorkerInv

\* A worker that finds the null task stops for good, and takes one null task along.
LEMMA PollStopStep ==
  ASSUME WorkerInv, NEW t \in O!AllThreads, O!poll(t), tasks # <<>>, Head(tasks) = Null
  PROVE  WorkerInv'
<1>0. /\ oAt[t] \in {"poll", "notified", "timedOut"} /\ oAt' = [oAt EXCEPT ![t] = "none"]
      /\ oIsRunning' = [oIsRunning EXCEPT ![t] = FALSE]
      /\ oHasUnderlyingThread' = [oHasUnderlyingThread EXCEPT ![t] = FALSE]
      /\ sleptBefore' \in BOOLEAN /\ tasks' = Tail(tasks)
      /\ numberOfActiveWorkers' = numberOfActiveWorkers - 1
      /\ UNCHANGED <<oCreated, oIsWaiting, task, owningThread, posted, done>>
  BY PollSlept, Zenon DEF O!Polls, O!stopPermanently
<1>1. /\ oAt' \in [O!AllThreads -> WorkerLabels]
      /\ oAt'[t] = "none" /\ \A u \in O!AllThreads : u # t => oAt'[u] = oAt[u]
      /\ numberOfActiveWorkers' = Cardinality(ActiveWorkers(oAt'))
  BY <1>0, WorkerMoves, Zenon DEF WorkerInv, WorkerLabels
<1>2. /\ tasks \in Seq(O!TaskIds \cup {Null}) /\ tasks' \in Seq(O!TaskIds \cup {Null})
      /\ Len(tasks') = Len(tasks) - 1 /\ Len(tasks) \in Nat /\ Len(tasks) >= 1 /\ tasks[1] = Null
      /\ \A i \in DOMAIN tasks' : i + 1 \in DOMAIN tasks /\ tasks'[i] = tasks[i + 1]
  <2>1. tasks \in Seq(O!TaskIds \cup {Null})
    BY Zenon DEF WorkerInv, O!TypeOK
  <2> QED BY <1>0, <2>1, QueueTail
<1>3. O!TypeOK'
  BY <1>0, <1>1, <1>2, WorkerCount, Zenon DEF WorkerInv, O!TypeOK, O!ThreadTypeOK, WorkerLabels
<1>4. /\ ~oHasUnderlyingThread'[t] /\ ~oIsRunning'[t] /\ oIsRunning[t]
      /\ \A u \in O!AllThreads : u # t => /\ oHasUnderlyingThread'[u] = oHasUnderlyingThread[u]
                                          /\ oIsRunning'[u] = oIsRunning[u]
  BY <1>0, Zenon DEF WorkerInv, O!TypeOK, O!ThreadTypeOK, WorkerThreads, O!OnlyRunningThreadsStart
<1>5. Cardinality(RunningWorkers(oIsRunning')) = Cardinality(RunningWorkers(oIsRunning)) - 1
  <2>1. RunningWorkers(oIsRunning') = RunningWorkers(oIsRunning) \ {t}
        /\ t \in RunningWorkers(oIsRunning)
    BY <1>4, Zenon DEF RunningWorkers
  <2> QED BY <2>1, SetLess, WorkerSets, Zenon
<1>6. PICK n \in 0 .. posted : Backlog(n)
  BY Zenon DEF WorkerInv
<1>7. posted \in Nat /\ n \in Nat /\ posted <= Tasks /\ Nulls \in Nat
  BY <1>6, WorkerSets, WorkersAssumed DEF WorkerInv, O!TypeOK, Nulls
<1>8. n = posted /\ Len(tasks) = Nulls /\ \A i \in DOMAIN tasks : tasks[i] = Null
  <2>1. tasks[1] = IF 1 <= posted - n THEN n + 1 ELSE Null
    BY <1>2, <1>6 DEF Backlog
  <2>2. 1 <= posted - n => n + 1 \in O!TaskIds
    BY <1>7, WorkersAssumed
  <2>3. n = posted
    BY <1>2, <1>6, <1>7, <2>1, <2>2, WorkersAssumed
  <2>4. Len(tasks) = posted - n + Nulls
          /\ \A i \in DOMAIN tasks : tasks[i] = IF i <= posted - n THEN n + i ELSE Null
    BY <1>6, Zenon DEF Backlog
  <2>5. posted - n = 0 /\ 0 + Nulls = Nulls /\ \A i \in DOMAIN tasks : ~(i <= 0)
    BY <1>2, <1>7, <2>3
  <2> QED BY <2>3, <2>4, <2>5, Zenon
<1>9. owningThread # "posting" /\ Nulls' = Nulls - 1
  BY <1>0, <1>2, <1>5, <1>8 DEF Nulls
<1>10. WorkerThreads' /\ Assigned'
  BY <1>0, <1>1, <1>4, <1>9 DEF WorkerInv, WorkerThreads, O!OnlyRunningThreadsStart, Assigned
<1>11. Backlog(n)'
  <2>1. Len(tasks') = posted' - n + Nulls'
    BY <1>0, <1>2, <1>7, <1>8, <1>9
  <2>2. \A i \in DOMAIN tasks' : tasks'[i] = Null /\ ~(i <= posted' - n)
    BY <1>0, <1>2, <1>7, <1>8
  <2>3. ~(n < posted')
    BY <1>0, <1>7, <1>8
  <2> QED BY <1>0, <1>6, <2>1, <2>2, <2>3, Zenon DEF Backlog
<1>12. n \in 0 .. posted'
  BY <1>0, <1>6, Zenon
<1> QED BY <1>1, <1>3, <1>10, <1>11, <1>12, Zenon DEF WorkerInv

\* A worker that takes a task takes the next one.
LEMMA PollWorkStep ==
  ASSUME WorkerInv, NEW t \in O!AllThreads, O!poll(t), tasks # <<>>, Head(tasks) # Null
  PROVE  WorkerInv'
<1>0. /\ oAt[t] \in {"poll", "notified", "timedOut"} /\ oAt' = [oAt EXCEPT ![t] = "work"]
      /\ sleptBefore' \in BOOLEAN /\ tasks' = Tail(tasks) /\ task' = [task EXCEPT ![t] = Head(tasks)]
      /\ UNCHANGED <<oCreated, oIsRunning, oIsWaiting, oHasUnderlyingThread,
                     numberOfActiveWorkers, owningThread, posted, done>>
  BY PollSlept, Zenon DEF O!Polls, O!pollWork
<1>1. /\ oAt' \in [O!AllThreads -> WorkerLabels]
      /\ oAt'[t] = "work" /\ \A u \in O!AllThreads : u # t => oAt'[u] = oAt[u]
      /\ ActiveWorkers(oAt') = ActiveWorkers(oAt)
  BY <1>0, WorkerMoves, Zenon DEF WorkerInv, WorkerLabels
<1>2. /\ tasks \in Seq(O!TaskIds \cup {Null}) /\ tasks' \in Seq(O!TaskIds \cup {Null})
      /\ Len(tasks') = Len(tasks) - 1 /\ Len(tasks) \in Nat /\ Len(tasks) >= 1 /\ tasks[1] = Head(tasks)
      /\ \A i \in DOMAIN tasks' : i + 1 \in DOMAIN tasks /\ tasks'[i] = tasks[i + 1]
  <2>1. tasks \in Seq(O!TaskIds \cup {Null})
    BY Zenon DEF WorkerInv, O!TypeOK
  <2> QED BY <1>0, <2>1, QueueTail
<1>6. PICK n \in 0 .. posted : Backlog(n)
  BY Zenon DEF WorkerInv
<1>7. posted \in Nat /\ n \in Nat /\ posted <= Tasks /\ Nulls \in Nat /\ Tasks \in Nat
  BY <1>6, WorkerSets, WorkersAssumed DEF WorkerInv, O!TypeOK, Nulls
<1>8. Head(tasks) = n + 1 /\ n < posted /\ n + 1 \in O!TaskIds
  <2>1. tasks[1] = IF 1 <= posted - n THEN n + 1 ELSE Null
    BY <1>2, <1>6 DEF Backlog
  <2>2. 1 <= posted - n
    BY <1>2, <2>1, Zenon
  <2> QED BY <1>2, <1>7, <2>1, <2>2, WorkersAssumed
<1>9. task'[t] = n + 1 /\ \A u \in O!AllThreads : u # t => task'[u] = task[u]
  BY <1>0, <1>8, Zenon DEF WorkerInv, O!TypeOK
<1>10. n + 1 # Null
  BY <1>8, WorkersAssumed, Zenon
<1>11. /\ done[n + 1] = 0 /\ \A u \in O!AllThreads : task[u] # n + 1
       /\ \A u \in O!AllThreads : oIsRunning[u]
  BY <1>6, <1>7, <1>8 DEF Backlog
<1>12. O!TypeOK'
  <2>1. task' \in [O!AllThreads -> O!TaskIds \cup {Null}]
    BY <1>0, <1>8, Zenon DEF WorkerInv, O!TypeOK
  <2> QED BY <1>0, <1>1, <1>2, <2>1, Zenon DEF WorkerInv, O!TypeOK, O!ThreadTypeOK, WorkerLabels
<1>13. WorkerThreads'
  BY <1>0, <1>1, Zenon DEF WorkerInv, WorkerThreads, O!OnlyRunningThreadsStart
<1>14. task[t] = Null
  BY <1>0, Zenon DEF WorkerInv, Assigned
<1>15. Assigned'
  <2>1. \A u \in O!AllThreads : oAt'[u] = "work" <=> task'[u] # Null
    BY <1>1, <1>9, <1>10, Zenon DEF WorkerInv, Assigned
  <2>2. \A u, w \in O!AllThreads : task'[u] = task'[w] /\ task'[u] # Null => u = w
    BY <1>9, <1>11 DEF WorkerInv, Assigned
  <2>3. \A u \in O!AllThreads, k \in O!TaskIds : task'[u] = k => done'[k] = 0
    BY <1>0, <1>9, <1>11 DEF WorkerInv, Assigned
  <2> QED BY <2>1, <2>2, <2>3, Zenon DEF Assigned
<1>16. Backlog(n + 1)'
  <2>0. Nulls' = Nulls
    BY <1>0, Zenon DEF Nulls
  <2>1. Len(tasks') = posted' - (n + 1) + Nulls'
    <3>1. Len(tasks) = posted - n + Nulls
      BY <1>6, Zenon DEF Backlog
    <3> QED BY <1>0, <1>2, <1>7, <2>0, <3>1
  <2>2. ASSUME NEW i \in DOMAIN tasks'
        PROVE  tasks'[i] = IF i <= posted' - (n + 1) THEN (n + 1) + i ELSE Null
    <3>1. i \in Nat /\ i + 1 \in DOMAIN tasks /\ tasks'[i] = tasks[i + 1]
      BY <1>2
    <3>2. tasks[i + 1] = IF i + 1 <= posted - n THEN n + (i + 1) ELSE Null
      BY <1>6, <3>1, Zenon DEF Backlog
    <3>3. n + (i + 1) = (n + 1) + i /\ posted' = posted
      BY <1>0, <1>7, <3>1
    <3>4. i + 1 <= posted - n => i <= posted - (n + 1)
      BY <1>7, <3>1
    <3>5. i <= posted - (n + 1) => i + 1 <= posted - n
      BY <1>7, <3>1
    <3> QED BY <3>1, <3>2, <3>3, <3>4, <3>5, Zenon
  <2>3. \A k \in O!TaskIds : k > n + 1 => done'[k] = 0 /\ \A u \in O!AllThreads : task'[u] # k
    <3>1. \A k \in O!TaskIds : k > n + 1 => k > n /\ k # n + 1
      BY <1>7, WorkersAssumed
    <3>2. \A k \in O!TaskIds : k > n => done[k] = 0 /\ \A u \in O!AllThreads : task[u] # k
      BY <1>6, Zenon DEF Backlog
    <3> QED BY <1>0, <1>9, <3>1, <3>2, Zenon
  <2>4. \A k \in O!TaskIds : k <= n + 1 => done'[k] = 1 \/ \E u \in O!AllThreads : task'[u] = k
    <3>1. \A k \in O!TaskIds : k <= n + 1 => k <= n \/ k = n + 1
      BY <1>7, WorkersAssumed
    <3>2. \A k \in O!TaskIds : k <= n => done[k] = 1 \/ \E u \in O!AllThreads : task[u] = k
      BY <1>6, Zenon DEF Backlog
    <3>3. \A k \in O!TaskIds, u \in O!AllThreads : task[u] = k => task'[u] = k
      BY <1>9, <1>14, WorkersAssumed, Zenon
    <3> QED BY <1>0, <1>9, <3>1, <3>2, <3>3, Zenon
  <2> QED BY <1>0, <1>11, <2>1, <2>2, <2>3, <2>4, Zenon DEF Backlog
<1>17. n + 1 \in 0 .. posted'
  BY <1>0, <1>7, <1>8
<1> QED BY <1>0, <1>1, <1>12, <1>13, <1>15, <1>16, <1>17, Zenon DEF WorkerInv

LEMMA WorkStep ==
  ASSUME WorkerInv, NEW t \in O!AllThreads, O!work(t)
  PROVE  WorkerInv'
<1>0. /\ oAt[t] = "work" /\ oAt' = [oAt EXCEPT ![t] = "poll"]
      /\ done' = [done EXCEPT ![task[t]] = @ + 1] /\ task' = [task EXCEPT ![t] = Null]
      /\ UNCHANGED <<oCreated, oIsRunning, oIsWaiting, oHasUnderlyingThread,
                     tasks, numberOfActiveWorkers, sleptBefore, owningThread, posted>>
  BY Zenon DEF O!work, O!workContinue
<1>1. /\ oAt' \in [O!AllThreads -> WorkerLabels]
      /\ oAt'[t] = "poll" /\ \A u \in O!AllThreads : u # t => oAt'[u] = oAt[u]
      /\ ActiveWorkers(oAt') = ActiveWorkers(oAt)
  BY <1>0, WorkerMoves, Zenon DEF WorkerInv, WorkerLabels
<1>2. task[t] # Null /\ task[t] \in O!TaskIds /\ done[task[t]] = 0
  BY <1>0, Zenon DEF WorkerInv, Assigned, O!TypeOK
<1>3. /\ task'[t] = Null /\ \A u \in O!AllThreads : u # t => task'[u] = task[u]
      /\ task' \in [O!AllThreads -> O!TaskIds \cup {Null}]
  BY <1>0, Zenon DEF WorkerInv, O!TypeOK
<1>4. /\ done'[task[t]] = 1 /\ \A k \in O!TaskIds : k # task[t] => done'[k] = done[k]
      /\ done' \in [O!TaskIds -> 0 .. 1]
  BY <1>0, <1>2 DEF WorkerInv, O!TypeOK
<1>5. O!TypeOK'
  BY <1>0, <1>1, <1>3, <1>4, Zenon DEF WorkerInv, O!TypeOK, O!ThreadTypeOK, WorkerLabels
<1>6. WorkerThreads'
  BY <1>0, <1>1, Zenon DEF WorkerInv, WorkerThreads, O!OnlyRunningThreadsStart
<1>7. Assigned'
  <2>1. \A u \in O!AllThreads : oAt'[u] = "work" <=> task'[u] # Null
    BY <1>1, <1>3, Zenon DEF WorkerInv, Assigned
  <2>2. \A u, w \in O!AllThreads : task'[u] = task'[w] /\ task'[u] # Null => u = w
    BY <1>3, Zenon DEF WorkerInv, Assigned
  <2>3. \A u \in O!AllThreads, k \in O!TaskIds : task'[u] = k => done'[k] = 0
    <3>1. \A k \in O!TaskIds : k # Null
      BY WorkersAssumed, Zenon
    <3>2. \A u \in O!AllThreads : u # t => task[u] # task[t]
      BY <1>2, Zenon DEF WorkerInv, Assigned
    <3> QED BY <1>3, <1>4, <3>1, <3>2 DEF WorkerInv, Assigned
  <2> QED BY <2>1, <2>2, <2>3, Zenon DEF Assigned
<1>8. ASSUME NEW n \in 0 .. posted, Backlog(n) PROVE Backlog(n)'
  <2>1. Nulls' = Nulls
    BY <1>0, Zenon DEF Nulls
  <2>2. \A k \in O!TaskIds : k > n => done'[k] = 0 /\ \A u \in O!AllThreads : task'[u] # k
    <3>1. \A k \in O!TaskIds : k # Null
      BY WorkersAssumed, Zenon
    <3> QED BY <1>2, <1>3, <1>4, <1>8, <3>1 DEF Backlog
  <2>3. \A k \in O!TaskIds : k <= n => done'[k] = 1 \/ \E u \in O!AllThreads : task'[u] = k
    BY <1>3, <1>4, <1>8 DEF Backlog
  <2> QED BY <1>0, <1>8, <2>1, <2>2, <2>3, Zenon DEF Backlog
<1>9. \E n \in 0 .. posted' : Backlog(n)'
  BY <1>0, <1>8, Zenon DEF WorkerInv
<1> QED BY <1>0, <1>1, <1>5, <1>6, <1>7, <1>9, Zenon DEF WorkerInv

\* WorkerPool.cpp: what its queue and its counter of active workers hold in every
\* reachable state, for any number of workers and tasks.
THEOREM WorkerInvariant == O!Spec => []WorkerInv
<1>1. O!Init => WorkerInv
  BY WorkerInit, Zenon
<1>2. WorkerInv /\ [O!Next]_(O!vars) => WorkerInv'
  <2> SUFFICES ASSUME WorkerInv, [O!Next]_(O!vars) PROVE WorkerInv'
    BY Zenon
  <2>1. CASE O!postTask \/ O!destroy \/ O!join
    BY <2>1, PostTaskStep, DestroyStep, JoinStep, Zenon
  <2>2. ASSUME NEW t \in O!AllThreads, O!Worker(t) \/ O!waitTimesOut(t) PROVE WorkerInv'
    <3>1. O!poll(t) => WorkerInv'
      BY PollWaitStep, PollStopStep, PollWorkStep, Zenon
    <3> QED BY <2>2, <3>1, DidStartStep, FallAsleepStep, WorkStep, TimesOutStep, Zenon DEF O!Worker
  <2>3. CASE UNCHANGED O!vars
    BY <2>3 DEF O!vars, O!threadVars, WorkerInv, O!TypeOK, O!ThreadTypeOK, WorkerThreads,
                O!OnlyRunningThreadsStart, Assigned, Backlog, Nulls
  <2> QED BY <2>1, <2>2, <2>3, Zenon DEF O!Next
<1> QED BY <1>1, <1>2, PTL DEF O!Spec

\* When ~WorkerPool has returned, the backlog is empty and nobody has a task.
LEMMA WorkersAreDone ==
  ASSUME WorkerInv
  PROVE  O!DestroyedMeansDone /\ O!OnlyRunningThreadsStart
<1>1. O!OnlyRunningThreadsStart
  BY Zenon DEF WorkerInv, WorkerThreads
<1>2. ASSUME owningThread = "destroyed"
      PROVE  /\ \A k \in 1 .. posted : done[k] = 1
             /\ tasks = <<>> /\ numberOfActiveWorkers = 0
             /\ \A t \in O!AllThreads : oAt[t] = "none"
  <2>1. \A t \in O!AllThreads : ~oIsRunning[t] /\ oAt[t] = "none"
    BY <1>1, <1>2, Zenon DEF WorkerInv, WorkerThreads, O!OnlyRunningThreadsStart
  <2>2. RunningWorkers(oIsRunning) = {} /\ ActiveWorkers(oAt) = {}
    BY <2>1, Zenon DEF RunningWorkers, ActiveWorkers
  <2>3. Nulls = 0 /\ numberOfActiveWorkers = 0
    BY <1>2, <2>2, FS_EmptySet, Zenon DEF WorkerInv, Nulls
  <2>4. PICK n \in 0 .. posted : Backlog(n)
    BY Zenon DEF WorkerInv
  <2>5. posted \in Nat /\ n \in Nat /\ posted <= Tasks /\ tasks \in Seq(O!TaskIds \cup {Null})
    BY <2>4, WorkersAssumed DEF WorkerInv, O!TypeOK
  <2>6. 1 \in O!AllThreads
    BY WorkersAssumed
  <2>7. n = posted
    BY <2>1, <2>4, <2>5, <2>6 DEF Backlog
  <2>8. Len(tasks) = 0
    BY <2>3, <2>4, <2>5, <2>7 DEF Backlog
  <2>9. \A k \in 1 .. posted : k \in O!TaskIds /\ k <= n
    BY <2>5, <2>7, WorkersAssumed
  <2>10. \A t \in O!AllThreads : task[t] = Null
    BY <2>1, Zenon DEF WorkerInv, Assigned
  <2>11. \A k \in 1 .. posted : done[k] = 1
    BY <2>4, <2>9, <2>10, WorkersAssumed DEF Backlog
  <2>12. tasks = <<>>
    BY <2>5, <2>8
  <2> QED BY <2>1, <2>3, <2>11, <2>12, Zenon
<1> QED BY <1>1, <1>2, Zenon DEF O!DestroyedMeansDone

-----------------------------------------------------------------------------
(* ParallelHelperPool: the inductive invariant *)

HelpersOf(c, h) == {i \in H!Helpers : h[i][1] = c}

\* A thread counts as waiting only in waitFor(), has an underlying thread until it
\* stops, and stops for good only when the pool is dying.
HelperThreadsInv ==
    /\ H!OnlyRunningThreadsStart
    /\ \A t \in H!AllThreads : hIsWaiting[t] => hAt[t] \in {"wait", "timedOut"}
    /\ ~isDying => \A t \in H!AllThreads : hIsRunning[t]

\* Who runs a task: a pool thread that works, or a client's thread that helps.
HelpersInv ==
    /\ \A t \in H!AllThreads : hAt[t] = "work" <=> helping[t] # H!Nobody
    /\ \A c \in Clients : clientPc[c] = "helps" <=> helping[c] # H!Nobody
    /\ \A c \in Clients : numActive[c] = Cardinality(HelpersOf(c, helping))

\* What is run is the last task of a client that has not returned from finish().
TasksInv ==
    /\ \A c \in Clients : clientTask[c] # 0 =>
         clientPc[c] \in {"set", "helps"} /\ clientTask[c] = tasksSet[c]
    /\ \A h \in H!Helpers : helping[h] # H!Nobody =>
         /\ clientPc[helping[h][1]] \in {"set", "helps", "finish"}
         /\ helping[h][2] = tasksSet[helping[h][1]]
    /\ \A c \in Clients : clientPc[c] \in {"new", "gone"} <=> c \notin clients
    /\ isDying <=> poolState # "alive"
    /\ isDying => \A c \in Clients : clientPc[c] = "gone"

HelperInv == H!TypeOK /\ HelperThreadsInv /\ HelpersInv /\ TasksInv

HelperLabels == {"none", "starting", "poll", "wait", "notified", "timedOut", "work"}
ClientLabels == {"new", "idle", "set", "helps", "finish", "dying", "gone"}
Claims == Clients \X (1 .. MaxTasks)

LEMMA HelpersAssumed ==
  /\ HelperThreads \in Nat \ {0} /\ MaxTasks \in Nat /\ NoClient \notin Clients
  /\ H!AllThreads = 1 .. HelperThreads /\ Clients \cap H!AllThreads = {}
  /\ H!Helpers = H!AllThreads \cup Clients
  /\ IsFiniteSet(H!Helpers) /\ Cardinality(H!Helpers) \in Nat
<1>1. /\ HelperThreads \in Nat \ {0} /\ MaxTasks \in Nat /\ NoClient \notin Clients
      /\ H!AllThreads = 1 .. HelperThreads /\ Clients \cap H!AllThreads = {}
      /\ H!Helpers = H!AllThreads \cup Clients /\ IsFiniteSet(Clients)
  BY PoolsAssumption, Zenon DEF H!HelperPoolAssumption, H!AutomaticThreadAssumption, H!AllThreads,
     H!Helpers,
                         H!IsFiniteSet, IsFiniteSet
<1>2. IsFiniteSet(1 .. HelperThreads)
  BY <1>1, FS_Interval
<1>3. IsFiniteSet(H!Helpers)
  BY <1>1, <1>2, FS_Union, Zenon
<1> QED BY <1>1, <1>3, FS_CardinalityType, Zenon

LEMMA HelperCount == H!Cardinality(H!Helpers) = Cardinality(H!Helpers)
BY Zenon DEF H!Cardinality, Cardinality, H!IsFiniteSet, IsFiniteSet

LEMMA HelperSets ==
  ASSUME NEW c, NEW p
  PROVE  IsFiniteSet(HelpersOf(c, p)) /\ Cardinality(HelpersOf(c, p)) \in 0 .. Cardinality(H!Helpers)
<1>1. HelpersOf(c, p) \subseteq H!Helpers
  BY Zenon DEF HelpersOf
<1>2. IsFiniteSet(HelpersOf(c, p)) /\ Cardinality(HelpersOf(c, p)) <= Cardinality(H!Helpers)
  BY <1>1, FS_Subset, HelpersAssumed, Zenon
<1>3. Cardinality(HelpersOf(c, p)) \in Nat
  BY <1>2, FS_CardinalityType, Zenon
<1> QED BY <1>2, <1>3, HelpersAssumed

\* Nobody is no claim, and helps no client.
LEMMA NobodyHelps ==
  /\ H!Nobody[1] = NoClient /\ \A c \in Clients : \A k : <<c, k>> # H!Nobody
  /\ H!Nobody \notin Claims
BY HelpersAssumed, Zenon DEF H!Nobody, Claims

LEMMA HelpsSomebody ==
  ASSUME H!TypeOK, NEW h \in H!Helpers, helping[h] # H!Nobody
  PROVE  helping[h] \in Claims /\ helping[h][1] \in Clients /\ helping[h][2] \in 1 .. MaxTasks
<1>1. helping[h] \in Claims
  BY Zenon DEF H!TypeOK, Claims
<1> QED BY <1>1, Zenon DEF Claims

\* A helper that claims the task of a client is counted with it.
LEMMA Claimed ==
  ASSUME H!TypeOK, HelpersInv, NEW h \in H!Helpers, NEW c \in Clients, helping[h] = H!Nobody,
         clientTask[c] # 0, H!claimTask(h, c)
  PROVE  /\ helping' \in [H!Helpers -> Claims \cup {H!Nobody}]
         /\ helping'[h] = <<c, clientTask[c]>> /\ helping'[h] # H!Nobody
         /\ \A i \in H!Helpers : i # h => helping'[i] = helping[i]
         /\ numActive' \in [Clients -> 0 .. Cardinality(H!Helpers)]
         /\ \A d \in Clients : numActive'[d] = Cardinality(HelpersOf(d, helping'))
<1>0. helping' = [helping EXCEPT ![h] = <<c, clientTask[c]>>]
      /\ numActive' = [numActive EXCEPT ![c] = @ + 1]
  BY Zenon DEF H!claimTask
<1>1. <<c, clientTask[c]>> \in Claims
  BY HelpersAssumed DEF H!TypeOK, Claims
<1>2. /\ helping' \in [H!Helpers -> Claims \cup {H!Nobody}]
      /\ helping'[h] = <<c, clientTask[c]>>
      /\ \A i \in H!Helpers : i # h => helping'[i] = helping[i]
  BY <1>0, <1>1, Zenon DEF H!TypeOK, Claims
<1>3. helping'[h] # H!Nobody /\ helping'[h][1] = c
  BY <1>1, <1>2, NobodyHelps
<1>4. ASSUME NEW d \in Clients
      PROVE  numActive'[d] = Cardinality(HelpersOf(d, helping'))
  <2>0. numActive[d] = Cardinality(HelpersOf(d, helping)) /\ helping[h][1] # d
    BY NobodyHelps, HelpersAssumed, Zenon DEF HelpersInv
  <2>1. CASE d = c
    <3>1. HelpersOf(d, helping') = HelpersOf(d, helping) \cup {h} /\ h \notin HelpersOf(d, helping)
      BY <1>2, <1>3, <2>0, <2>1, Zenon DEF HelpersOf
    <3>2. numActive'[d] = numActive[d] + 1
      BY <1>0, <2>1, Zenon DEF H!TypeOK
    <3> QED BY <2>0, <3>1, <3>2, SetMore, HelperSets, Zenon
  <2>2. CASE d # c
    <3>1. HelpersOf(d, helping') = HelpersOf(d, helping)
      BY <1>2, <1>3, <2>0, <2>2, Zenon DEF HelpersOf
    <3>2. numActive'[d] = numActive[d]
      BY <1>0, <2>2, Zenon DEF H!TypeOK
    <3> QED BY <2>0, <3>1, <3>2, Zenon
  <2> QED BY <2>1, <2>2, Zenon
<1>5. numActive' \in [Clients -> 0 .. Cardinality(H!Helpers)]
  <2>1. numActive' = [d \in Clients |-> numActive'[d]]
    BY <1>0, Zenon DEF H!TypeOK
  <2> QED BY <1>4, <2>1, HelperSets, Zenon
<1> QED BY <1>2, <1>3, <1>4, <1>5, Zenon

\* A helper that has run its task is not counted any more, and the task is taken down.
LEMMA Ran ==
  ASSUME H!TypeOK, HelpersInv, NEW h \in H!Helpers, helping[h] # H!Nobody, H!ranTask(h)
  PROVE  /\ helping' \in [H!Helpers -> Claims \cup {H!Nobody}]
         /\ helping'[h] = H!Nobody
         /\ \A i \in H!Helpers : i # h => helping'[i] = helping[i]
         /\ numActive' \in [Clients -> 0 .. Cardinality(H!Helpers)]
         /\ \A d \in Clients : numActive'[d] = Cardinality(HelpersOf(d, helping'))
         /\ clientTask' \in [Clients -> 0 .. MaxTasks]
         /\ \A d \in Clients : clientTask'[d] \in {0, clientTask[d]}
<1> DEFINE c == helping[h][1]
<1>0. /\ helping' = [helping EXCEPT ![h] = H!Nobody] /\ numActive' = [numActive EXCEPT ![c] = @ - 1]
      /\ clientTask' = [clientTask EXCEPT ![c] = 0]
  BY Zenon DEF H!ranTask
<1>1. c \in Clients
  BY HelpsSomebody, Zenon
<1> HIDE DEF c
<1>2. /\ helping' \in [H!Helpers -> Claims \cup {H!Nobody}]
      /\ helping'[h] = H!Nobody
      /\ \A i \in H!Helpers : i # h => helping'[i] = helping[i]
  BY <1>0, Zenon DEF H!TypeOK, Claims
<1>3. ASSUME NEW d \in Clients
      PROVE  numActive'[d] = Cardinality(HelpersOf(d, helping'))
  <2>0. numActive[d] = Cardinality(HelpersOf(d, helping)) /\ helping'[h][1] # d
    BY <1>2, NobodyHelps, HelpersAssumed, Zenon DEF HelpersInv
  <2>1. CASE d = c
    <3>1. HelpersOf(d, helping') = HelpersOf(d, helping) \ {h} /\ h \in HelpersOf(d, helping)
      BY <1>2, <2>0, <2>1, Zenon DEF HelpersOf, c
    <3>2. numActive'[d] = numActive[d] - 1
      BY <1>0, <2>1, Zenon DEF H!TypeOK
    <3> QED BY <2>0, <3>1, <3>2, SetLess, HelperSets, Zenon
  <2>2. CASE d # c
    <3>1. HelpersOf(d, helping') = HelpersOf(d, helping)
      BY <1>2, <2>0, <2>2, Zenon DEF HelpersOf, c
    <3>2. numActive'[d] = numActive[d]
      BY <1>0, <2>2, Zenon DEF H!TypeOK
    <3> QED BY <2>0, <3>1, <3>2, Zenon
  <2> QED BY <2>1, <2>2, Zenon
<1>4. numActive' \in [Clients -> 0 .. Cardinality(H!Helpers)]
  <2>1. numActive' = [d \in Clients |-> numActive'[d]]
    BY <1>0, Zenon DEF H!TypeOK
  <2> QED BY <1>3, <2>1, HelperSets, Zenon
<1>5. /\ clientTask' \in [Clients -> 0 .. MaxTasks]
      /\ \A d \in Clients : clientTask'[d] \in {0, clientTask[d]}
  <2>1. clientTask \in [Clients -> 0 .. MaxTasks] /\ 0 \in 0 .. MaxTasks
    BY HelpersAssumed DEF H!TypeOK
  <2> QED BY <1>0, <1>1, <2>1, Zenon
<1> QED BY <1>2, <1>3, <1>4, <1>5, Zenon

\* What a notification does to the threads: it wakes waiting ones and starts absent ones.
LEMMA HelpersNotified ==
  ASSUME H!TypeOK, HelperThreadsInv, ~isDying, NEW n \in Nat, n <= HelperThreads,
         H!notifyAllAmong(1 .. n)
  PROVE  /\ hIsRunning' \in [H!AllThreads -> BOOLEAN] /\ hIsWaiting' \in [H!AllThreads -> BOOLEAN]
         /\ hHasUnderlyingThread' \in [H!AllThreads -> BOOLEAN]
            /\ hAt' \in [H!AllThreads -> HelperLabels]
         /\ H!OnlyRunningThreadsStart' /\ hIsRunning' = hIsRunning
         /\ \A t \in H!AllThreads : hIsWaiting'[t] => hAt'[t] \in {"wait", "timedOut"}
         /\ \A t \in H!AllThreads : hAt'[t] = "work" <=> hAt[t] = "work"
<1> DEFINE woken == {t \in 1 .. n : H!IsWaiting(t)}
           started == {t \in 1 .. n : ~hHasUnderlyingThread[t]}
<1>0. H!notifyAndStart(woken, started)
  BY Zenon DEF H!notifyAllAmong
<1>a. woken \subseteq H!AllThreads /\ started \subseteq H!AllThreads
  BY HelpersAssumed
<1>b. \A t \in H!AllThreads : /\ t \in woken => hHasUnderlyingThread[t] /\ hIsWaiting[t]
                              /\ t \in started => ~hHasUnderlyingThread[t]
  BY Zenon DEF H!IsWaiting
<1> HIDE DEF woken, started
<1>1. ASSUME NEW t \in H!AllThreads
      PROVE  /\ t \in started => hAt[t] = "none" /\ hAt'[t] = "starting" /\ t \notin woken
             /\ t \in woken /\ hAt[t] = "wait" => hAt'[t] = "notified" /\ t \notin started
             /\ t \notin started /\ ~(t \in woken /\ hAt[t] = "wait") => hAt'[t] = hAt[t]
  BY <1>0, <1>b, Zenon DEF H!notifyAndStart, HelperThreadsInv, H!OnlyRunningThreadsStart
<1>2. hAt' \in [H!AllThreads -> HelperLabels]
  <2>1. DOMAIN hAt' = H!AllThreads /\ hAt' = [t \in H!AllThreads |-> hAt'[t]]
    BY <1>0 DEF H!notifyAndStart
  <2>2. \A t \in H!AllThreads : hAt'[t] \in HelperLabels
    BY <1>1, Zenon DEF H!TypeOK, H!ThreadTypeOK, HelperLabels
  <2> QED BY <2>1, <2>2, Zenon
<1>3. /\ hIsRunning' = hIsRunning /\ hIsRunning' \in [H!AllThreads -> BOOLEAN]
      /\ hIsWaiting' \in [H!AllThreads -> BOOLEAN] /\ hHasUnderlyingThread' \in [H!AllThreads -> BOOLEAN]
  BY <1>0, Zenon DEF H!notifyAndStart, H!TypeOK, H!ThreadTypeOK
<1>4. \A t \in H!AllThreads : /\ hHasUnderlyingThread'[t] <=> hHasUnderlyingThread[t] \/ t \in started
                              /\ hIsWaiting'[t] <=> hIsWaiting[t] /\ t \notin woken
  BY <1>0, Zenon DEF H!notifyAndStart
<1>5. H!OnlyRunningThreadsStart'
  BY <1>1, <1>3, <1>4, Zenon DEF HelperThreadsInv, H!OnlyRunningThreadsStart
<1>6. \A t \in H!AllThreads : hIsWaiting'[t] => hAt'[t] \in {"wait", "timedOut"}
  BY <1>1, <1>4, Zenon DEF HelperThreadsInv, H!OnlyRunningThreadsStart
<1>7. \A t \in H!AllThreads : hAt'[t] = "work" <=> hAt[t] = "work"
  BY <1>1, Zenon
<1> QED BY <1>2, <1>3, <1>5, <1>6, <1>7, Zenon

LEMMA WorkMadeAvailable ==
  ASSUME HelperInv, ~isDying, NEW n \in 0 .. HelperThreads, H!didMakeWorkAvailable(n),
         UNCHANGED isDying
  PROVE  /\ H!ThreadTypeOK' /\ HelperThreadsInv'
         /\ \A t \in H!AllThreads : hAt'[t] = "work" <=> hAt[t] = "work"
<1>1. hCreated' \in 0 .. HelperThreads /\ H!notifyAllAmong(1 .. hCreated')
  BY Zenon DEF H!didMakeWorkAvailable, HelperInv, H!TypeOK, H!ThreadTypeOK
<1>2. hCreated' \in Nat /\ hCreated' <= HelperThreads
  BY <1>1, HelpersAssumed
<1>3. /\ hIsRunning' \in [H!AllThreads -> BOOLEAN] /\ hIsWaiting' \in [H!AllThreads -> BOOLEAN]
      /\ hHasUnderlyingThread' \in [H!AllThreads -> BOOLEAN] /\ hAt' \in [H!AllThreads -> HelperLabels]
      /\ H!OnlyRunningThreadsStart' /\ hIsRunning' = hIsRunning
      /\ \A t \in H!AllThreads : hIsWaiting'[t] => hAt'[t] \in {"wait", "timedOut"}
      /\ \A t \in H!AllThreads : hAt'[t] = "work" <=> hAt[t] = "work"
  BY <1>1, <1>2, HelpersNotified, Zenon DEF HelperInv
<1> QED BY <1>1, <1>3, Zenon DEF HelperInv, HelperThreadsInv, H!ThreadTypeOK, HelperLabels

\* Steps that leave the threads alone.
LEMMA ThreadsKept ==
  ASSUME HelperInv, UNCHANGED <<hCreated, hIsRunning, hIsWaiting, hHasUnderlyingThread, hAt, isDying>>
  PROVE  /\ H!ThreadTypeOK' /\ HelperThreadsInv'
         /\ \A t \in H!AllThreads : hAt'[t] = "work" <=> hAt[t] = "work"
BY Zenon DEF HelperInv, H!TypeOK, H!ThreadTypeOK, HelperThreadsInv, H!OnlyRunningThreadsStart

\* The thread of a client goes on.
LEMMA ClientMoves ==
  ASSUME H!TypeOK, NEW c \in Clients, NEW l \in ClientLabels, H!Goto(c, l)
  PROVE  /\ clientPc' \in [Clients -> ClientLabels] /\ clientPc'[c] = l
         /\ \A d \in Clients : d # c => clientPc'[d] = clientPc[d]
BY Zenon DEF H!Goto, H!TypeOK, ClientLabels

\* A thread of the pool goes on.
LEMMA ThreadMoves ==
  ASSUME H!TypeOK, NEW t \in H!AllThreads, NEW l \in HelperLabels, hAt' = [hAt EXCEPT ![t] = l]
  PROVE  /\ hAt' \in [H!AllThreads -> HelperLabels] /\ hAt'[t] = l
         /\ \A u \in H!AllThreads : u # t => hAt'[u] = hAt[u]
BY Zenon DEF H!TypeOK, H!ThreadTypeOK, HelperLabels

LEMMA HelperInit == H!Init => HelperInv
<1> SUFFICES ASSUME H!Init PROVE HelperInv
  BY Zenon
<1>1. H!TypeOK
  <2>1. H!ThreadTypeOK
    BY HelpersAssumed DEF H!Init, H!ThreadInit, H!ThreadTypeOK
  <2>2. 0 \in 0 .. HelperThreads /\ 0 \in 0 .. MaxTasks /\ 0 \in 0 .. Cardinality(H!Helpers)
    BY HelpersAssumed
  <2> QED BY <2>1, <2>2, HelperCount, Zenon DEF H!Init, H!TypeOK
<1>2. HelperThreadsInv
  BY Zenon DEF H!Init, H!ThreadInit, HelperThreadsInv, H!OnlyRunningThreadsStart
<1>3. HelpersInv
  <2>1. \A h \in H!Helpers : helping[h] = H!Nobody
    BY Zenon DEF H!Init
  <2>2. \A c \in Clients : HelpersOf(c, helping) = {}
    BY <2>1, NobodyHelps, HelpersAssumed, Zenon DEF HelpersOf
  <2>3. \A c \in Clients : numActive[c] = Cardinality(HelpersOf(c, helping))
    BY <2>2, FS_EmptySet, Zenon DEF H!Init
  <2> QED BY <2>1, <2>3, HelpersAssumed, Zenon DEF H!Init, H!ThreadInit, HelpersInv
<1>4. TasksInv
  BY HelpersAssumed, Zenon DEF H!Init, TasksInv
<1> QED BY <1>1, <1>2, <1>3, <1>4, Zenon DEF HelperInv

-----------------------------------------------------------------------------
(* ParallelHelperPool: its steps *)

LEMMA NewClientStep ==
  ASSUME HelperInv, NEW c \in Clients, H!newClient(c)
  PROVE  HelperInv'
<1>0. /\ clientPc[c] = "new" /\ poolState = "alive" /\ clients' = clients \cup {c} /\ H!Goto(c, "idle")
      /\ UNCHANGED <<hCreated, hIsRunning, hIsWaiting, hHasUnderlyingThread, hAt, numThreads, isDying,
                     clientTask, numActive, tasksSet, helping, poolState>>
  BY Zenon DEF H!newClient, H!threadVars
<1>1. /\ clientPc' \in [Clients -> ClientLabels] /\ clientPc'[c] = "idle"
      /\ \A d \in Clients : d # c => clientPc'[d] = clientPc[d]
  BY <1>0, ClientMoves, Zenon DEF HelperInv, ClientLabels
<1>2. H!ThreadTypeOK' /\ HelperThreadsInv' /\ \A t \in H!AllThreads : hAt'[t] = "work" <=> hAt[t] = "work"
  BY <1>0, ThreadsKept, Zenon
<1>3. H!TypeOK'
  BY <1>0, <1>1, <1>2, Zenon DEF HelperInv, H!TypeOK, ClientLabels
<1>4. HelpersInv'
  BY <1>0, <1>1, <1>2, Zenon DEF HelperInv, HelpersInv
<1>5. TasksInv'
  <2>1. ~isDying
    BY <1>0, Zenon DEF HelperInv, TasksInv
  <2>2. \A d \in Clients : clientTask'[d] # 0 =>
            clientPc'[d] \in {"set", "helps"} /\ clientTask'[d] = tasksSet'[d]
    BY <1>0, <1>1, Zenon DEF HelperInv, TasksInv
  <2>3. ASSUME NEW h \in H!Helpers, helping'[h] # H!Nobody
        PROVE  /\ clientPc'[helping'[h][1]] \in {"set", "helps", "finish"}
               /\ helping'[h][2] = tasksSet'[helping'[h][1]]
    BY <1>0, <1>1, <2>3, HelpsSomebody, Zenon DEF HelperInv, TasksInv
  <2>4. \A d \in Clients : clientPc'[d] \in {"new", "gone"} <=> d \notin clients'
    BY <1>0, <1>1, Zenon DEF HelperInv, TasksInv
  <2> QED BY <1>0, <2>1, <2>2, <2>3, <2>4, Zenon DEF HelperInv, TasksInv
<1> QED BY <1>2, <1>3, <1>4, <1>5, Zenon DEF HelperInv

\* setTask() finds nobody at an earlier task of the client.
LEMMA SetTaskStep ==
  ASSUME HelperInv, NEW c \in Clients, H!setTask(c)
  PROVE  HelperInv'
<1>0. /\ clientPc[c] = "idle" /\ tasksSet[c] < MaxTasks /\ tasksSet' = [tasksSet EXCEPT ![c] = @ + 1]
      /\ clientTask' = [clientTask EXCEPT ![c] = tasksSet'[c]]
      /\ H!didMakeWorkAvailable(numThreads) /\ H!Goto(c, "set")
      /\ UNCHANGED <<clients, numThreads, isDying, numActive, helping, poolState>>
  BY Zenon DEF H!setTask
<1>1. /\ clientPc' \in [Clients -> ClientLabels] /\ clientPc'[c] = "set"
      /\ \A d \in Clients : d # c => clientPc'[d] = clientPc[d]
  BY <1>0, ClientMoves, Zenon DEF HelperInv, ClientLabels
<1>2. H!ThreadTypeOK' /\ HelperThreadsInv' /\ \A t \in H!AllThreads : hAt'[t] = "work" <=> hAt[t] = "work"
  <2>1. ~isDying /\ numThreads \in 0 .. HelperThreads
    BY <1>0, Zenon DEF HelperInv, TasksInv, H!TypeOK
  <2> QED BY <1>0, <2>1, WorkMadeAvailable, Zenon
<1>3. /\ tasksSet' \in [Clients -> 0 .. MaxTasks] /\ clientTask' \in [Clients -> 0 .. MaxTasks]
      /\ clientTask'[c] = tasksSet'[c]
      /\ \A d \in Clients : d # c => tasksSet'[d] = tasksSet[d] /\ clientTask'[d] = clientTask[d]
  <2>1. tasksSet \in [Clients -> 0 .. MaxTasks] /\ clientTask \in [Clients -> 0 .. MaxTasks]
    BY Zenon DEF HelperInv, H!TypeOK
  <2>2. tasksSet[c] + 1 \in 0 .. MaxTasks
    BY <1>0, <2>1, HelpersAssumed
  <2>3. /\ tasksSet' \in [Clients -> 0 .. MaxTasks]
        /\ \A d \in Clients : d # c => tasksSet'[d] = tasksSet[d]
    BY <1>0, <2>1, <2>2, Zenon
  <2> QED BY <1>0, <2>1, <2>3, Zenon
<1>4. H!TypeOK'
  BY <1>0, <1>1, <1>2, <1>3, Zenon DEF HelperInv, H!TypeOK, ClientLabels
<1>5. HelpersInv'
  BY <1>0, <1>1, <1>2, Zenon DEF HelperInv, HelpersInv
<1>6. TasksInv'
  <2>2. \A d \in Clients : clientTask'[d] # 0 =>
            clientPc'[d] \in {"set", "helps"} /\ clientTask'[d] = tasksSet'[d]
    BY <1>1, <1>3 DEF HelperInv, TasksInv
  <2>3. ASSUME NEW h \in H!Helpers, helping'[h] # H!Nobody
        PROVE  /\ clientPc'[helping'[h][1]] \in {"set", "helps", "finish"}
               /\ helping'[h][2] = tasksSet'[helping'[h][1]]
    <3>1. helping[h][1] \in Clients /\ helping[h][1] # c
      BY <1>0, <2>3, HelpsSomebody, Zenon DEF HelperInv, TasksInv
    <3> QED BY <1>0, <1>1, <1>3, <2>3, <3>1, Zenon DEF HelperInv, TasksInv
  <2>4. \A d \in Clients : clientPc'[d] \in {"new", "gone"} <=> d \notin clients'
    BY <1>0, <1>1, Zenon DEF HelperInv, TasksInv
  <2>5. ~isDying
    BY <1>0, Zenon DEF HelperInv, TasksInv
  <2> QED BY <1>0, <2>2, <2>3, <2>4, <2>5, Zenon DEF HelperInv, TasksInv
<1> QED BY <1>2, <1>4, <1>5, <1>6, Zenon DEF HelperInv

\* The pool state and the clients' registration under a step that changes neither.
LEMMA TasksKept ==
  ASSUME HelperInv, UNCHANGED <<clients, isDying, poolState, tasksSet>>,
         \A d \in Clients : clientTask'[d] \in {0, clientTask[d]},
         \A d \in Clients : /\ clientPc[d] \in {"set", "helps"} => clientPc'[d] \in {"set", "helps", "finish"}
                            /\ clientPc'[d] \in {"new", "gone"} <=> clientPc[d] \in {"new", "gone"}
                            /\ clientPc[d] = "gone" => clientPc'[d] = "gone"
                            /\ clientPc[d] = "finish" => clientPc'[d] = "finish"
                            /\ clientTask'[d] # 0 => clientPc'[d] \in {"set", "helps"},
         \A h \in H!Helpers : helping'[h] # H!Nobody =>
            \/ helping'[h] = helping[h]
            \/ \E d \in Clients : helping'[h] = <<d, clientTask[d]>> /\ clientTask[d] # 0
  PROVE  TasksInv'
<1>1. \A d \in Clients : clientTask'[d] # 0 =>
          clientPc'[d] \in {"set", "helps"} /\ clientTask'[d] = tasksSet'[d]
  BY DEF HelperInv, TasksInv
<1>2. ASSUME NEW h \in H!Helpers, helping'[h] # H!Nobody
      PROVE  /\ clientPc'[helping'[h][1]] \in {"set", "helps", "finish"}
             /\ helping'[h][2] = tasksSet'[helping'[h][1]]
  <2>1. CASE helping'[h] = helping[h]
    <3>1. helping[h][1] \in Clients
      BY <1>2, <2>1, HelpsSomebody, Zenon DEF HelperInv
    <3>2. /\ clientPc[helping[h][1]] \in {"set", "helps", "finish"}
          /\ helping[h][2] = tasksSet[helping[h][1]]
      BY <1>2, <2>1, Zenon DEF HelperInv, TasksInv
    <3> QED BY <2>1, <3>1, <3>2, Zenon
  <2>2. ASSUME NEW d \in Clients, helping'[h] = <<d, clientTask[d]>>, clientTask[d] # 0
        PROVE  /\ clientPc'[helping'[h][1]] \in {"set", "helps", "finish"}
               /\ helping'[h][2] = tasksSet'[helping'[h][1]]
    <3>1. clientPc[d] \in {"set", "helps"} /\ clientTask[d] = tasksSet[d]
      BY <2>2, Zenon DEF HelperInv, TasksInv
    <3> QED BY <2>2, <3>1
  <2> QED BY <1>2, <2>1, <2>2, Zenon
<1>3. \A d \in Clients : clientPc'[d] \in {"new", "gone"} <=> d \notin clients'
  BY Zenon DEF HelperInv, TasksInv
<1> QED BY <1>1, <1>2, <1>3, Zenon DEF HelperInv, TasksInv

LEMMA DoSomeHelpingStep ==
  ASSUME HelperInv, NEW c \in Clients, NEW from \in Clients, H!doSomeHelping(c, from)
  PROVE  HelperInv'
<1>0. /\ clientPc[c] = "set" /\ clientTask[from] # 0 /\ H!claimTask(c, from) /\ H!Goto(c, "helps")
      /\ UNCHANGED <<hCreated, hIsRunning, hIsWaiting, hHasUnderlyingThread, hAt, clients, numThreads,
                     isDying, clientTask, tasksSet, poolState>>
  BY Zenon DEF H!doSomeHelping, H!getClientWithTask, H!WithTask, H!threadVars
<1>1. /\ clientPc' \in [Clients -> ClientLabels] /\ clientPc'[c] = "helps"
      /\ \A d \in Clients : d # c => clientPc'[d] = clientPc[d]
  BY <1>0, ClientMoves, Zenon DEF HelperInv, ClientLabels
<1>2. H!ThreadTypeOK' /\ HelperThreadsInv' /\ \A t \in H!AllThreads : hAt'[t] = "work" <=> hAt[t] = "work"
  BY <1>0, ThreadsKept, Zenon
<1>3. c \in H!Helpers /\ helping[c] = H!Nobody /\ \A t \in H!AllThreads : t \in H!Helpers /\ t # c
  BY <1>0, HelpersAssumed, Zenon DEF HelperInv, HelpersInv
<1>4. /\ helping' \in [H!Helpers -> Claims \cup {H!Nobody}]
      /\ helping'[c] = <<from, clientTask[from]>> /\ helping'[c] # H!Nobody
      /\ \A i \in H!Helpers : i # c => helping'[i] = helping[i]
      /\ numActive' \in [Clients -> 0 .. Cardinality(H!Helpers)]
      /\ \A d \in Clients : numActive'[d] = Cardinality(HelpersOf(d, helping'))
  BY <1>0, <1>3, Claimed, Zenon DEF HelperInv
<1>5. H!TypeOK'
  BY <1>0, <1>1, <1>2, <1>4, HelperCount, Zenon DEF HelperInv, H!TypeOK, ClientLabels, Claims
<1>6. HelpersInv'
  <2>1. \A t \in H!AllThreads : hAt'[t] = "work" <=> helping'[t] # H!Nobody
    BY <1>2, <1>3, <1>4, Zenon DEF HelperInv, HelpersInv
  <2>2. \A d \in Clients : d \in H!Helpers
    BY HelpersAssumed, Zenon
  <2>3. \A d \in Clients : clientPc'[d] = "helps" <=> helping'[d] # H!Nobody
    BY <1>1, <1>4, <2>2, Zenon DEF HelperInv, HelpersInv
  <2> QED BY <1>4, <2>1, <2>3, Zenon DEF HelpersInv
<1>7. TasksInv'
  <2>1. \A d \in Clients : /\ clientPc[d] \in {"set", "helps"} => clientPc'[d] \in {"set", "helps", "finish"}
                           /\ clientPc'[d] \in {"new", "gone"} <=> clientPc[d] \in {"new", "gone"}
                           /\ clientPc[d] = "gone" => clientPc'[d] = "gone"
                           /\ clientPc[d] = "finish" => clientPc'[d] = "finish"
                           /\ clientTask'[d] # 0 => clientPc'[d] \in {"set", "helps"}
    BY <1>0, <1>1, Zenon DEF HelperInv, TasksInv
  <2>2. \A h \in H!Helpers : helping'[h] # H!Nobody =>
            \/ helping'[h] = helping[h]
            \/ \E d \in Clients : helping'[h] = <<d, clientTask[d]>> /\ clientTask[d] # 0
    BY <1>0, <1>4, Zenon
  <2> QED BY <1>0, <2>1, <2>2, TasksKept, Zenon
<1> QED BY <1>2, <1>5, <1>6, <1>7, Zenon DEF HelperInv

LEMMA HelpedStep ==
  ASSUME HelperInv, NEW c \in Clients, H!helped(c)
  PROVE  HelperInv'
<1>0. /\ clientPc[c] = "helps" /\ H!ranTask(c) /\ H!Goto(c, "set")
      /\ UNCHANGED <<hCreated, hIsRunning, hIsWaiting, hHasUnderlyingThread, hAt, clients, numThreads,
                     isDying, tasksSet, poolState>>
  BY Zenon DEF H!helped, H!threadVars
<1>1. /\ clientPc' \in [Clients -> ClientLabels] /\ clientPc'[c] = "set"
      /\ \A d \in Clients : d # c => clientPc'[d] = clientPc[d]
  BY <1>0, ClientMoves, Zenon DEF HelperInv, ClientLabels
<1>2. H!ThreadTypeOK' /\ HelperThreadsInv' /\ \A t \in H!AllThreads : hAt'[t] = "work" <=> hAt[t] = "work"
  BY <1>0, ThreadsKept, Zenon
<1>3. c \in H!Helpers /\ helping[c] # H!Nobody /\ \A t \in H!AllThreads : t \in H!Helpers /\ t # c
  BY <1>0, HelpersAssumed, Zenon DEF HelperInv, HelpersInv
<1>4. /\ helping' \in [H!Helpers -> Claims \cup {H!Nobody}]
      /\ helping'[c] = H!Nobody
      /\ \A i \in H!Helpers : i # c => helping'[i] = helping[i]
      /\ numActive' \in [Clients -> 0 .. Cardinality(H!Helpers)]
      /\ \A d \in Clients : numActive'[d] = Cardinality(HelpersOf(d, helping'))
      /\ clientTask' \in [Clients -> 0 .. MaxTasks]
      /\ \A d \in Clients : clientTask'[d] \in {0, clientTask[d]}
  BY <1>0, <1>3, Ran, Zenon DEF HelperInv
<1>5. H!TypeOK'
  BY <1>0, <1>1, <1>2, <1>4, HelperCount, Zenon DEF HelperInv, H!TypeOK, ClientLabels, Claims
<1>6. HelpersInv'
  <2>1. \A t \in H!AllThreads : hAt'[t] = "work" <=> helping'[t] # H!Nobody
    BY <1>2, <1>3, <1>4, Zenon DEF HelperInv, HelpersInv
  <2>2. \A d \in Clients : d \in H!Helpers
    BY HelpersAssumed, Zenon
  <2>3. \A d \in Clients : clientPc'[d] = "helps" <=> helping'[d] # H!Nobody
    BY <1>1, <1>4, <2>2, Zenon DEF HelperInv, HelpersInv
  <2> QED BY <1>4, <2>1, <2>3, Zenon DEF HelpersInv
<1>7. TasksInv'
  <2>1. \A d \in Clients : /\ clientPc[d] \in {"set", "helps"} => clientPc'[d] \in {"set", "helps", "finish"}
                           /\ clientPc'[d] \in {"new", "gone"} <=> clientPc[d] \in {"new", "gone"}
                           /\ clientPc[d] = "gone" => clientPc'[d] = "gone"
                           /\ clientPc[d] = "finish" => clientPc'[d] = "finish"
                           /\ clientTask'[d] # 0 => clientPc'[d] \in {"set", "helps"}
    BY <1>0, <1>1, <1>4, Zenon DEF HelperInv, TasksInv
  <2>2. \A h \in H!Helpers : helping'[h] # H!Nobody => helping'[h] = helping[h]
    BY <1>4, Zenon
  <2> QED BY <1>0, <1>4, <2>1, <2>2, TasksKept, Zenon
<1> QED BY <1>2, <1>5, <1>6, <1>7, Zenon DEF HelperInv

LEMMA FinishStep ==
  ASSUME HelperInv, NEW c \in Clients, H!finish(c)
  PROVE  HelperInv'
<1>0. /\ \/ clientPc[c] = "set" /\ H!Goto(c, "finish")
         \/ clientPc[c] = "idle" /\ H!Goto(c, "dying")
      /\ clientTask' = [clientTask EXCEPT ![c] = 0]
      /\ UNCHANGED <<hCreated, hIsRunning, hIsWaiting, hHasUnderlyingThread, hAt, clients, numThreads,
                     isDying, numActive, tasksSet, helping, poolState>>
  BY Zenon DEF H!finish, H!threadVars
<1>1. /\ clientPc' \in [Clients -> ClientLabels]
      /\ \/ clientPc[c] = "set" /\ clientPc'[c] = "finish"
         \/ clientPc[c] = "idle" /\ clientPc'[c] = "dying"
      /\ \A d \in Clients : d # c => clientPc'[d] = clientPc[d]
  <2>1. CASE clientPc[c] = "set" /\ H!Goto(c, "finish")
    BY <2>1, ClientMoves, Zenon DEF HelperInv, ClientLabels
  <2>2. CASE clientPc[c] = "idle" /\ H!Goto(c, "dying")
    BY <2>2, ClientMoves, Zenon DEF HelperInv, ClientLabels
  <2> QED BY <1>0, <2>1, <2>2, Zenon
<1>2. H!ThreadTypeOK' /\ HelperThreadsInv' /\ \A t \in H!AllThreads : hAt'[t] = "work" <=> hAt[t] = "work"
  BY <1>0, ThreadsKept, Zenon
<1>3. /\ clientTask' \in [Clients -> 0 .. MaxTasks] /\ clientTask'[c] = 0
      /\ \A d \in Clients : d # c => clientTask'[d] = clientTask[d]
  <2>1. 0 \in 0 .. MaxTasks
    BY HelpersAssumed
  <2> QED BY <1>0, <2>1, Zenon DEF HelperInv, H!TypeOK
<1>4. H!TypeOK'
  BY <1>0, <1>1, <1>2, <1>3, Zenon DEF HelperInv, H!TypeOK, ClientLabels
<1>5. HelpersInv'
  <2>1. \A d \in Clients : clientPc'[d] = "helps" <=> clientPc[d] = "helps"
    BY <1>1, Zenon
  <2> QED BY <1>0, <1>2, <2>1, Zenon DEF HelperInv, HelpersInv
<1>6. TasksInv'
  <2>1. \A d \in Clients : /\ clientPc[d] \in {"set", "helps"} => clientPc'[d] \in {"set", "helps", "finish"}
                           /\ clientPc'[d] \in {"new", "gone"} <=> clientPc[d] \in {"new", "gone"}
                           /\ clientPc[d] = "gone" => clientPc'[d] = "gone"
                           /\ clientPc[d] = "finish" => clientPc'[d] = "finish"
                           /\ clientTask'[d] # 0 => clientPc'[d] \in {"set", "helps"}
    BY <1>1, <1>3, Zenon DEF HelperInv, TasksInv
  <2>2. \A d \in Clients : clientTask'[d] \in {0, clientTask[d]}
    BY <1>3, Zenon
  <2> QED BY <1>0, <2>1, <2>2, TasksKept, Zenon
<1> QED BY <1>2, <1>4, <1>5, <1>6, Zenon DEF HelperInv

\* finish() and the destructor return when nobody is counted with the client.
LEMMA FinishedStep ==
  ASSUME HelperInv, NEW c \in Clients, H!finished(c)
  PROVE  HelperInv'
<1>0. /\ numActive[c] = 0
      /\ \/ clientPc[c] = "finish" /\ H!Goto(c, "idle") /\ UNCHANGED clients
         \/ clientPc[c] = "dying" /\ H!Goto(c, "gone") /\ clients' = clients \ {c}
      /\ UNCHANGED <<hCreated, hIsRunning, hIsWaiting, hHasUnderlyingThread, hAt, numThreads,
                     isDying, clientTask, numActive, tasksSet, helping, poolState>>
  BY Zenon DEF H!finished, H!threadVars
<1>1. /\ clientPc' \in [Clients -> ClientLabels]
      /\ \/ clientPc[c] = "finish" /\ clientPc'[c] = "idle" /\ UNCHANGED clients
         \/ clientPc[c] = "dying" /\ clientPc'[c] = "gone" /\ clients' = clients \ {c}
      /\ \A d \in Clients : d # c => clientPc'[d] = clientPc[d]
  <2>1. CASE clientPc[c] = "finish" /\ H!Goto(c, "idle") /\ UNCHANGED clients
    BY <2>1, ClientMoves, Zenon DEF HelperInv, ClientLabels
  <2>2. CASE clientPc[c] = "dying" /\ H!Goto(c, "gone") /\ clients' = clients \ {c}
    BY <2>2, ClientMoves, Zenon DEF HelperInv, ClientLabels
  <2> QED BY <1>0, <2>1, <2>2, Zenon
<1>2. H!ThreadTypeOK' /\ HelperThreadsInv' /\ \A t \in H!AllThreads : hAt'[t] = "work" <=> hAt[t] = "work"
  BY <1>0, ThreadsKept, Zenon
<1>3. H!TypeOK'
  <2>1. clients' \subseteq Clients
    BY <1>1, Zenon DEF HelperInv, H!TypeOK
  <2> QED BY <1>0, <1>1, <1>2, <2>1, Zenon DEF HelperInv, H!TypeOK, ClientLabels
<1>4. \A h \in H!Helpers : helping[h][1] # c
  <2>1. Cardinality(HelpersOf(c, helping)) = 0
    BY <1>0, Zenon DEF HelperInv, HelpersInv
  <2>2. HelpersOf(c, helping) = {}
    BY <2>1, HelperSets, FS_EmptySet, Zenon
  <2> QED BY <2>2, Zenon DEF HelpersOf
<1>5. HelpersInv'
  <2>1. \A d \in Clients : clientPc'[d] = "helps" <=> clientPc[d] = "helps"
    BY <1>1, Zenon
  <2> QED BY <1>0, <1>2, <2>1, Zenon DEF HelperInv, HelpersInv
<1>6. TasksInv'
  <2>1. clientTask[c] = 0 /\ ~isDying
    BY <1>1, Zenon DEF HelperInv, TasksInv
  <2>2. \A d \in Clients : clientTask'[d] # 0 =>
            clientPc'[d] \in {"set", "helps"} /\ clientTask'[d] = tasksSet'[d]
    BY <1>0, <1>1, <2>1, Zenon DEF HelperInv, TasksInv
  <2>3. ASSUME NEW h \in H!Helpers, helping'[h] # H!Nobody
        PROVE  /\ clientPc'[helping'[h][1]] \in {"set", "helps", "finish"}
               /\ helping'[h][2] = tasksSet'[helping'[h][1]]
    <3>1. helping[h][1] \in Clients /\ helping[h][1] # c
      BY <1>0, <1>4, <2>3, HelpsSomebody, Zenon DEF HelperInv
    <3> QED BY <1>0, <1>1, <2>3, <3>1, Zenon DEF HelperInv, TasksInv
  <2>4. \A d \in Clients : clientPc'[d] \in {"new", "gone"} <=> d \notin clients'
    BY <1>1, Zenon DEF HelperInv, TasksInv
  <2> QED BY <1>0, <2>1, <2>2, <2>3, <2>4, Zenon DEF HelperInv, TasksInv
<1> QED BY <1>2, <1>3, <1>5, <1>6, Zenon DEF HelperInv

LEMMA EnsureThreadsStep ==
  ASSUME HelperInv, NEW n \in H!AllThreads, H!ensureThreads(n)
  PROVE  HelperInv'
<1>0. /\ poolState = "alive" /\ numThreads' = n
      /\ H!didMakeWorkAvailable(n) \/ UNCHANGED <<hCreated, hIsRunning, hIsWaiting, hHasUnderlyingThread, hAt>>
      /\ UNCHANGED <<clients, isDying, clientTask, numActive, clientPc, tasksSet, helping, poolState>>
  BY Zenon DEF H!ensureThreads, H!threadVars
<1>1. n \in 0 .. HelperThreads /\ ~isDying
  BY <1>0, HelpersAssumed DEF HelperInv, TasksInv
<1>2. H!ThreadTypeOK' /\ HelperThreadsInv' /\ \A t \in H!AllThreads : hAt'[t] = "work" <=> hAt[t] = "work"
  BY <1>0, <1>1, ThreadsKept, WorkMadeAvailable, Zenon
<1>3. H!TypeOK'
  BY <1>0, <1>1, <1>2, Zenon DEF HelperInv, H!TypeOK
<1>4. HelpersInv' /\ TasksInv'
  BY <1>0, <1>2, Zenon DEF HelperInv, HelpersInv, TasksInv
<1> QED BY <1>2, <1>3, <1>4, Zenon DEF HelperInv

LEMMA DestroyPoolStep ==
  ASSUME HelperInv, H!destroy
  PROVE  HelperInv'
<1>0. /\ poolState = "alive" /\ poolState' = "joining" /\ isDying' /\ \A c \in Clients : clientPc[c] = "gone"
      /\ H!notifyAllAmong(1 .. hCreated)
      /\ UNCHANGED <<hCreated, clients, numThreads, clientTask, numActive, clientPc, tasksSet, helping>>
  BY Zenon DEF H!destroy, H!notifyAll, H!Created
<1>1. hCreated \in Nat /\ hCreated <= HelperThreads /\ ~isDying
  BY <1>0, HelpersAssumed DEF HelperInv, TasksInv, H!TypeOK, H!ThreadTypeOK
<1>2. /\ hIsRunning' \in [H!AllThreads -> BOOLEAN] /\ hIsWaiting' \in [H!AllThreads -> BOOLEAN]
      /\ hHasUnderlyingThread' \in [H!AllThreads -> BOOLEAN] /\ hAt' \in [H!AllThreads -> HelperLabels]
      /\ H!OnlyRunningThreadsStart'
      /\ \A t \in H!AllThreads : hIsWaiting'[t] => hAt'[t] \in {"wait", "timedOut"}
      /\ \A t \in H!AllThreads : hAt'[t] = "work" <=> hAt[t] = "work"
  BY <1>0, <1>1, HelpersNotified, Zenon DEF HelperInv
<1>3. HelperThreadsInv'
  BY <1>0, <1>2, Zenon DEF HelperThreadsInv
<1>4. H!TypeOK'
  <2>1. H!ThreadTypeOK'
    BY <1>0, <1>2, Zenon DEF HelperInv, H!TypeOK, H!ThreadTypeOK, HelperLabels
  <2>2. isDying' \in BOOLEAN
    BY Zenon DEF H!destroy
  <2> QED BY <1>0, <2>1, <2>2, Zenon DEF HelperInv, H!TypeOK
<1>5. HelpersInv' /\ TasksInv'
  BY <1>0, <1>2, Zenon DEF HelperInv, HelpersInv, TasksInv
<1> QED BY <1>3, <1>4, <1>5, Zenon DEF HelperInv

LEMMA JoinPoolStep ==
  ASSUME HelperInv, H!join
  PROVE  HelperInv'
<1>0. /\ poolState = "joining" /\ poolState' = "destroyed"
      /\ UNCHANGED <<hCreated, hIsRunning, hIsWaiting, hHasUnderlyingThread, hAt, isDying,
                     clients, numThreads, clientTask, numActive, clientPc, tasksSet, helping>>
  BY Zenon DEF H!join, H!threadVars
<1>1. H!ThreadTypeOK' /\ HelperThreadsInv'
  BY <1>0, ThreadsKept, Zenon
<1>2. H!TypeOK'
  BY <1>0, <1>1, Zenon DEF HelperInv, H!TypeOK
<1>3. HelpersInv' /\ TasksInv'
  BY <1>0, Zenon DEF HelperInv, HelpersInv, TasksInv
<1> QED BY <1>1, <1>2, <1>3, Zenon DEF HelperInv

\* A step of a pool thread that is about no task.
LEMMA ThreadStep ==
  ASSUME HelperInv, NEW t \in H!AllThreads, NEW l \in HelperLabels \ {"work"}, hAt[t] # "work",
         hAt' = [hAt EXCEPT ![t] = l], H!ThreadTypeOK', HelperThreadsInv', UNCHANGED H!poolVars
  PROVE  HelperInv'
<1>0. UNCHANGED <<clients, numThreads, isDying, clientTask, numActive, clientPc, tasksSet, helping, poolState>>
  BY Zenon DEF H!poolVars
<1>1. hAt'[t] = l /\ \A u \in H!AllThreads : u # t => hAt'[u] = hAt[u]
  BY ThreadMoves, Zenon DEF HelperInv
<1>2. H!TypeOK'
  BY <1>0, Zenon DEF HelperInv, H!TypeOK
<1>3. HelpersInv' /\ TasksInv'
  BY <1>0, <1>1 DEF HelperInv, HelpersInv, TasksInv
<1> QED BY <1>2, <1>3, Zenon DEF HelperInv

\* A thread that starts, times out or falls asleep.
LEMMA UnderlyingThreadStep ==
  ASSUME HelperInv, NEW t \in H!AllThreads, H!threadDidStart(t) \/ H!fallAsleep(t) \/ H!waitTimesOut(t)
  PROVE  HelperInv'
<1>t. HelperInv /\ HelperThreadsInv /\ H!TypeOK /\ H!ThreadTypeOK
  BY Zenon DEF HelperInv, H!TypeOK
<1>1. CASE H!threadDidStart(t)
  <2>0. /\ hAt[t] = "starting" /\ hAt' = [hAt EXCEPT ![t] = "poll"] /\ UNCHANGED H!poolVars
        /\ UNCHANGED <<hCreated, hIsRunning, hIsWaiting, hHasUnderlyingThread, isDying>>
    BY <1>1, Zenon DEF H!threadDidStart, H!didStart, H!poolVars
  <2>1. /\ hAt' \in [H!AllThreads -> HelperLabels] /\ hAt'[t] = "poll"
        /\ \A u \in H!AllThreads : u # t => hAt'[u] = hAt[u]
    BY <1>t, <2>0, ThreadMoves, Zenon DEF HelperLabels
  <2>2. H!ThreadTypeOK'
    BY <1>t, <2>0, <2>1, Zenon DEF H!ThreadTypeOK, HelperLabels
  <2>3. HelperThreadsInv'
    BY <1>t, <2>0, <2>1, Zenon DEF HelperThreadsInv, H!OnlyRunningThreadsStart
  <2>4. "poll" \in HelperLabels \ {"work"} /\ hAt[t] # "work"
    BY <2>0, Zenon DEF HelperLabels
  <2> QED BY <2>0, <2>2, <2>3, <2>4, ThreadStep, Zenon
<1>2. CASE H!fallAsleep(t)
  <2>0. /\ hAt[t] \in {"notified", "timedOut"} /\ hAt' = [hAt EXCEPT ![t] = "none"]
        /\ hIsWaiting' = [hIsWaiting EXCEPT ![t] = FALSE]
        /\ hHasUnderlyingThread' = [hHasUnderlyingThread EXCEPT ![t] = FALSE] /\ UNCHANGED H!poolVars
        /\ UNCHANGED <<hCreated, hIsRunning, isDying>>
    BY <1>2, Zenon DEF H!fallAsleep, H!WaitedInVain, H!stopForTimeout, H!poolVars
  <2>1. /\ hAt' \in [H!AllThreads -> HelperLabels] /\ hAt'[t] = "none"
        /\ \A u \in H!AllThreads : u # t => hAt'[u] = hAt[u]
    BY <1>t, <2>0, ThreadMoves, Zenon DEF HelperLabels
  <2>2. H!ThreadTypeOK'
    BY <1>t, <2>0, <2>1, Zenon DEF H!ThreadTypeOK, HelperLabels
  <2>3. /\ ~hIsWaiting'[t] /\ ~hHasUnderlyingThread'[t]
        /\ \A u \in H!AllThreads : u # t => /\ hIsWaiting'[u] = hIsWaiting[u]
                                            /\ hHasUnderlyingThread'[u] = hHasUnderlyingThread[u]
    BY <1>t, <2>0, Zenon DEF H!ThreadTypeOK
  <2>4. HelperThreadsInv'
    BY <1>t, <2>0, <2>1, <2>3, Zenon DEF HelperThreadsInv, H!OnlyRunningThreadsStart
  <2>5. "none" \in HelperLabels \ {"work"} /\ hAt[t] # "work"
    BY <2>0, Zenon DEF HelperLabels
  <2> QED BY <2>0, <2>2, <2>4, <2>5, ThreadStep, Zenon
<1>3. CASE H!waitTimesOut(t)
  <2>0. /\ hAt[t] = "wait" /\ hAt' = [hAt EXCEPT ![t] = "timedOut"] /\ UNCHANGED H!poolVars
        /\ UNCHANGED <<hCreated, hIsRunning, hIsWaiting, hHasUnderlyingThread, isDying>>
    BY <1>3, Zenon DEF H!waitTimesOut, H!timeout, H!poolVars
  <2>1. /\ hAt' \in [H!AllThreads -> HelperLabels] /\ hAt'[t] = "timedOut"
        /\ \A u \in H!AllThreads : u # t => hAt'[u] = hAt[u]
    BY <1>t, <2>0, ThreadMoves, Zenon DEF HelperLabels
  <2>2. H!ThreadTypeOK'
    BY <1>t, <2>0, <2>1, Zenon DEF H!ThreadTypeOK, HelperLabels
  <2>3. HelperThreadsInv'
    BY <1>t, <2>0, <2>1, Zenon DEF HelperThreadsInv, H!OnlyRunningThreadsStart
  <2>4. "timedOut" \in HelperLabels \ {"work"} /\ hAt[t] # "work"
    BY <2>0, Zenon DEF HelperLabels
  <2> QED BY <2>0, <2>2, <2>3, <2>4, ThreadStep, Zenon
<1> QED BY <1>1, <1>2, <1>3, Zenon

\* poll(): a thread that is not waiting stops with the pool, claims a task or waits.
LEMMA PollPoolStep ==
  ASSUME HelperInv, NEW t \in H!AllThreads, H!poll(t)
  PROVE  HelperInv'
<1>t. HelperThreadsInv /\ H!TypeOK /\ H!ThreadTypeOK
  BY Zenon DEF HelperInv, H!TypeOK
<1>0. /\ hAt[t] \in {"poll", "notified", "timedOut"} /\ ~hIsWaiting[t]
      /\ UNCHANGED <<clients, numThreads, isDying, clientTask, clientPc, tasksSet, poolState>>
  BY <1>t, Zenon DEF H!poll, H!MayPoll, H!WaitedInVain, HelperThreadsInv
<1>1. CASE isDying /\ H!stopPermanently(t) /\ UNCHANGED <<numActive, helping>>
  <2>0. /\ hAt' = [hAt EXCEPT ![t] = "none"] /\ hIsRunning' = [hIsRunning EXCEPT ![t] = FALSE]
        /\ hHasUnderlyingThread' = [hHasUnderlyingThread EXCEPT ![t] = FALSE] /\ UNCHANGED H!poolVars
        /\ UNCHANGED <<hCreated, hIsWaiting>>
    BY <1>0, <1>1, Zenon DEF H!stopPermanently, H!poolVars
  <2>1. /\ hAt' \in [H!AllThreads -> HelperLabels] /\ hAt'[t] = "none"
        /\ \A u \in H!AllThreads : u # t => hAt'[u] = hAt[u]
    BY <1>t, <2>0, ThreadMoves, Zenon DEF HelperLabels
  <2>2. H!ThreadTypeOK'
    BY <1>t, <2>0, <2>1, Zenon DEF H!ThreadTypeOK, HelperLabels
  <2>3. /\ ~hHasUnderlyingThread'[t]
        /\ \A u \in H!AllThreads : u # t => /\ hIsRunning'[u] = hIsRunning[u]
                                            /\ hHasUnderlyingThread'[u] = hHasUnderlyingThread[u]
    BY <1>t, <2>0, Zenon DEF H!ThreadTypeOK
  <2>4. HelperThreadsInv'
    BY <1>t, <1>0, <1>1, <2>0, <2>1, <2>3, Zenon DEF HelperThreadsInv, H!OnlyRunningThreadsStart
  <2>5. "none" \in HelperLabels \ {"work"} /\ hAt[t] # "work"
    BY <1>0, Zenon DEF HelperLabels
  <2> QED BY <2>0, <2>2, <2>4, <2>5, ThreadStep, Zenon
<1>2. ASSUME NEW c \in Clients, H!getClientWithTask(c), H!claimTask(t, c), H!pollWork(t)
      PROVE  HelperInv'
  <2>0. /\ clientTask[c] # 0 /\ hAt' = [hAt EXCEPT ![t] = "work"]
        /\ UNCHANGED <<hCreated, hIsRunning, hIsWaiting, hHasUnderlyingThread>>
    BY <1>2, Zenon DEF H!getClientWithTask, H!WithTask, H!pollWork
  <2>1. /\ hAt' \in [H!AllThreads -> HelperLabels] /\ hAt'[t] = "work"
        /\ \A u \in H!AllThreads : u # t => hAt'[u] = hAt[u]
    BY <1>t, <2>0, ThreadMoves, Zenon DEF HelperLabels
  <2>2. H!ThreadTypeOK'
    BY <1>t, <2>0, <2>1, Zenon DEF H!ThreadTypeOK, HelperLabels
  <2>3. HelperThreadsInv'
    BY <1>t, <1>0, <2>0, <2>1, Zenon DEF HelperThreadsInv, H!OnlyRunningThreadsStart
  <2>4. /\ t \in H!Helpers /\ helping[t] = H!Nobody
        /\ \A u \in H!AllThreads : u \in H!Helpers
        /\ \A d \in Clients : d \in H!Helpers /\ d # t
    BY <1>0, HelpersAssumed, Zenon DEF HelperInv, HelpersInv
  <2>5. /\ helping' \in [H!Helpers -> Claims \cup {H!Nobody}]
        /\ helping'[t] = <<c, clientTask[c]>> /\ helping'[t] # H!Nobody
        /\ \A i \in H!Helpers : i # t => helping'[i] = helping[i]
        /\ numActive' \in [Clients -> 0 .. Cardinality(H!Helpers)]
        /\ \A d \in Clients : numActive'[d] = Cardinality(HelpersOf(d, helping'))
    BY <1>2, <2>0, <2>4, Claimed, Zenon DEF HelperInv
  <2>6. H!TypeOK'
    BY <1>0, <2>2, <2>5, HelperCount, Zenon DEF HelperInv, H!TypeOK, Claims
  <2>7. HelpersInv'
    BY <1>0, <2>1, <2>4, <2>5, Zenon DEF HelperInv, HelpersInv
  <2>8. TasksInv'
    <3>1. \A h \in H!Helpers : helping'[h] # H!Nobody =>
            \/ helping'[h] = helping[h]
            \/ \E d \in Clients : helping'[h] = <<d, clientTask[d]>> /\ clientTask[d] # 0
      BY <2>0, <2>5, Zenon
    <3>2. \A d \in Clients : clientTask[d] # 0 => clientPc[d] \in {"set", "helps"}
      BY Zenon DEF HelperInv, TasksInv
    <3> QED BY <1>0, <3>1, <3>2, TasksKept, Zenon
  <2> QED BY <2>3, <2>6, <2>7, <2>8, Zenon DEF HelperInv
<1>3. CASE H!pollWait(t) /\ UNCHANGED <<numActive, helping>>
  <2>0. /\ hAt' = [hAt EXCEPT ![t] = "wait"] /\ hIsWaiting' = [hIsWaiting EXCEPT ![t] = TRUE]
        /\ UNCHANGED H!poolVars /\ UNCHANGED <<hCreated, hIsRunning, hHasUnderlyingThread>>
    BY <1>0, <1>3, Zenon DEF H!pollWait, H!poolVars
  <2>1. /\ hAt' \in [H!AllThreads -> HelperLabels] /\ hAt'[t] = "wait"
        /\ \A u \in H!AllThreads : u # t => hAt'[u] = hAt[u]
    BY <1>t, <2>0, ThreadMoves, Zenon DEF HelperLabels
  <2>2. H!ThreadTypeOK'
    BY <1>t, <2>0, <2>1, Zenon DEF H!ThreadTypeOK, HelperLabels
  <2>3. \A u \in H!AllThreads : u # t => hIsWaiting'[u] = hIsWaiting[u]
    BY <1>t, <2>0, Zenon DEF H!ThreadTypeOK
  <2>4. HelperThreadsInv'
    BY <1>t, <1>0, <2>0, <2>1, <2>3, Zenon DEF HelperThreadsInv, H!OnlyRunningThreadsStart
  <2>5. "wait" \in HelperLabels \ {"work"} /\ hAt[t] # "work"
    BY <1>0, Zenon DEF HelperLabels
  <2> QED BY <2>0, <2>2, <2>4, <2>5, ThreadStep, Zenon
<1> QED BY <1>1, <1>2, <1>3, Zenon DEF H!poll

LEMMA WorkPoolStep ==
  ASSUME HelperInv, NEW t \in H!AllThreads, H!work(t)
  PROVE  HelperInv'
<1>t. HelperThreadsInv /\ H!TypeOK /\ H!ThreadTypeOK
  BY Zenon DEF HelperInv, H!TypeOK
<1>0. /\ hAt[t] = "work" /\ hAt' = [hAt EXCEPT ![t] = "poll"] /\ H!ranTask(t)
      /\ UNCHANGED <<hCreated, hIsRunning, hIsWaiting, hHasUnderlyingThread,
                     clients, numThreads, isDying, clientPc, tasksSet, poolState>>
  BY Zenon DEF H!work, H!workContinue
<1>1. /\ hAt' \in [H!AllThreads -> HelperLabels] /\ hAt'[t] = "poll"
      /\ \A u \in H!AllThreads : u # t => hAt'[u] = hAt[u]
  BY <1>t, <1>0, ThreadMoves, Zenon DEF HelperLabels
<1>2. H!ThreadTypeOK'
  BY <1>t, <1>0, <1>1, Zenon DEF H!ThreadTypeOK, HelperLabels
<1>3. HelperThreadsInv'
  BY <1>t, <1>0, <1>1, Zenon DEF HelperThreadsInv, H!OnlyRunningThreadsStart
<1>4. /\ t \in H!Helpers /\ helping[t] # H!Nobody
      /\ \A u \in H!AllThreads : u \in H!Helpers
      /\ \A d \in Clients : d \in H!Helpers /\ d # t
  BY <1>0, HelpersAssumed, Zenon DEF HelperInv, HelpersInv
<1>5. /\ helping' \in [H!Helpers -> Claims \cup {H!Nobody}]
      /\ helping'[t] = H!Nobody
      /\ \A i \in H!Helpers : i # t => helping'[i] = helping[i]
      /\ numActive' \in [Clients -> 0 .. Cardinality(H!Helpers)]
      /\ \A d \in Clients : numActive'[d] = Cardinality(HelpersOf(d, helping'))
      /\ clientTask' \in [Clients -> 0 .. MaxTasks]
      /\ \A d \in Clients : clientTask'[d] \in {0, clientTask[d]}
  BY <1>0, <1>4, Ran, Zenon DEF HelperInv
<1>6. H!TypeOK'
  BY <1>0, <1>2, <1>5, HelperCount, Zenon DEF HelperInv, H!TypeOK, Claims
<1>7. HelpersInv'
  BY <1>0, <1>1, <1>4, <1>5 DEF HelperInv, HelpersInv
<1>8. TasksInv'
  <2>1. \A h \in H!Helpers : helping'[h] # H!Nobody => helping'[h] = helping[h]
    BY <1>5, Zenon
  <2>2. \A d \in Clients : clientTask'[d] # 0 => clientPc[d] \in {"set", "helps"}
    BY <1>5, Zenon DEF HelperInv, TasksInv
  <2> QED BY <1>0, <1>5, <2>1, <2>2, TasksKept, Zenon
<1> QED BY <1>3, <1>6, <1>7, <1>8, Zenon DEF HelperInv

\* ParallelHelperPool.cpp: who is counted with a client and what they run, in every
\* reachable state, for any number of threads, clients and tasks.
THEOREM HelperInvariant == H!Spec => []HelperInv
<1>1. H!Init => HelperInv
  BY HelperInit, Zenon
<1>2. HelperInv /\ [H!Next]_(H!vars) => HelperInv'
  <2> SUFFICES ASSUME HelperInv, [H!Next]_(H!vars) PROVE HelperInv'
    BY Zenon
  <2>1. ASSUME NEW c \in Clients, H!Client(c) PROVE HelperInv'
    BY <2>1, NewClientStep, SetTaskStep, HelpedStep, FinishStep, FinishedStep, DoSomeHelpingStep,
       Zenon DEF H!Client
  <2>2. ASSUME NEW n \in H!AllThreads, H!ensureThreads(n) PROVE HelperInv'
    BY <2>2, EnsureThreadsStep, Zenon
  <2>3. CASE H!destroy \/ H!join
    BY <2>3, DestroyPoolStep, JoinPoolStep, Zenon
  <2>4. ASSUME NEW t \in H!AllThreads, H!Worker(t) \/ H!waitTimesOut(t) PROVE HelperInv'
    BY <2>4, UnderlyingThreadStep, PollPoolStep, WorkPoolStep, Zenon DEF H!Worker
  <2>5. CASE UNCHANGED H!vars
    <3>0. /\ UNCHANGED <<hCreated, hIsRunning, hIsWaiting, hHasUnderlyingThread, hAt>>
          /\ UNCHANGED <<clients, numThreads, isDying, clientTask, numActive, clientPc, tasksSet, helping, poolState>>
      BY <2>5, Zenon DEF H!vars, H!threadVars, H!poolVars
    <3>1. H!ThreadTypeOK' /\ HelperThreadsInv'
      BY <3>0, ThreadsKept, Zenon
    <3>2. H!TypeOK'
      BY <3>0, <3>1, Zenon DEF HelperInv, H!TypeOK
    <3>3. HelpersInv' /\ TasksInv'
      BY <3>0, Zenon DEF HelperInv, HelpersInv, TasksInv
    <3> QED BY <3>1, <3>2, <3>3, Zenon DEF HelperInv
  <2> QED BY <2>1, <2>2, <2>3, <2>4, <2>5, Zenon DEF H!Next
<1> QED BY <1>1, <1>2, PTL DEF H!Spec

LEMMA HelpersAreQuiet ==
  ASSUME HelperInv
  PROVE  H!FinishedMeansQuiet /\ H!WaitingFlagIsExact /\ H!OnlyRunningThreadsStart /\ H!AssertsHold
<1>1. H!FinishedMeansQuiet
  <2> SUFFICES ASSUME NEW c \in Clients, clientPc[c] \in {"idle", "gone"}, NEW h \in H!Helpers
               PROVE  helping[h][1] # c
    BY Zenon DEF H!FinishedMeansQuiet
  <2>1. CASE helping[h] = H!Nobody
    BY <2>1, NobodyHelps, HelpersAssumed, Zenon
  <2>2. CASE helping[h] # H!Nobody
    BY <2>2, Zenon DEF HelperInv, TasksInv
  <2> QED BY <2>1, <2>2, Zenon
<1>2. H!WaitingFlagIsExact /\ H!OnlyRunningThreadsStart
  BY Zenon DEF HelperInv, HelperThreadsInv, H!WaitingFlagIsExact, H!IsWaiting
<1>3. \A c \in Clients : clientPc[c] = "idle" => clientTask[c] = 0
  BY Zenon DEF HelperInv, TasksInv
<1>4. ASSUME NEW h \in H!Helpers, helping[h] # H!Nobody
      PROVE  /\ numActive[helping[h][1]] > 0
             /\ clientTask[helping[h][1]] \in {0, helping[h][2]}
  <2> DEFINE c == helping[h][1]
  <2>1. c \in Clients
    BY <1>4, HelpsSomebody, Zenon DEF HelperInv
  <2>2. HelpersOf(c, helping) # {}
    BY Zenon DEF HelpersOf
  <2> HIDE DEF c
  <2>3. numActive[c] = Cardinality(HelpersOf(c, helping)) /\ Cardinality(HelpersOf(c, helping)) \in Nat
    BY <2>1, HelperSets, HelpersAssumed DEF HelperInv, HelpersInv
  <2>4. Cardinality(HelpersOf(c, helping)) # 0
    BY <2>2, HelperSets, FS_EmptySet, Zenon
  <2>5. clientTask[c] \in {0, helping[h][2]}
    BY <1>4, <2>1, Zenon DEF HelperInv, TasksInv, c
  <2> QED BY <2>3, <2>4, <2>5 DEF c
<1>5. isDying => clients = {}
  BY Zenon DEF HelperInv, TasksInv, H!TypeOK
<1> QED BY <1>1, <1>2, <1>3, <1>4, <1>5, Zenon DEF H!AssertsHold

\* When ~WorkerPool has returned, every posted task has run exactly once and no worker
\* is left; when a client's finish() or destructor has returned, nobody runs its task;
\* the RELEASE_ASSERTs of AutomaticThread::start(), ParallelHelperClient and
\* ~ParallelHelperPool hold.  For any number of threads, clients and tasks.
THEOREM PoolsQuiet == O!Spec /\ H!Spec => []PoolsAreQuiet
<1>1. WorkerInv /\ HelperInv => PoolsAreQuiet
  BY WorkersAreDone, HelpersAreQuiet, Zenon DEF PoolsAreQuiet
<1> QED BY <1>1, WorkerInvariant, HelperInvariant, PTL
=============================================================================

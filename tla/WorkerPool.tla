----------------------------- MODULE WorkerPool -----------------------------
(***************************************************************************)
(* WorkerPool.cpp: a queue of tasks served by AutomaticThreads, one thread *)
(* that posts tasks and then destroys the pool.                            *)
(***************************************************************************)
EXTENDS AutomaticThread, Sequences

CONSTANTS
    Tasks,      \* the tasks are 1 .. Tasks, posted in this order
    Null        \* the null task that tells a worker to terminate

\* What the constants have to satisfy.
WorkerPoolAssumption == AutomaticThreadAssumption /\ Tasks \in Nat /\ Null \notin 1 .. Tasks

VARIABLES
    tasks,                  \* m_tasks
    task,                   \* m_task of each worker
    numberOfActiveWorkers,  \* m_numberOfActiveWorkers
    sleptBefore,            \* m_lastTimeoutTime is not NaN
    owner,                  \* "posting", "joining" or "destroyed"
    posted, done            \* tasks posted so far; times each one has run

vars == <<threadVars, tasks, task, numberOfActiveWorkers, sleptBefore, owner, posted, done>>

TaskIds == 1 .. Tasks

TypeOK ==
    /\ ThreadTypeOK
    /\ tasks \in Seq(TaskIds \cup {Null})
    /\ task \in [AllThreads -> TaskIds \cup {Null}]
    /\ numberOfActiveWorkers \in 0 .. MaxThreads
    /\ sleptBefore \in BOOLEAN
    /\ owner \in {"posting", "joining", "destroyed"}
    /\ posted \in 0 .. Tasks
    /\ done \in [TaskIds -> 0 .. 1]

Init ==
    /\ ThreadInit(MaxThreads)
    /\ tasks = <<>>
    /\ task = [t \in AllThreads |-> Null]
    /\ numberOfActiveWorkers = 0
    /\ sleptBefore = FALSE
    /\ owner = "posting"
    /\ posted = 0
    /\ done = [k \in TaskIds |-> 0]

----------------------------------------------------------------------------
(* The owner of the pool *)

postTask ==
    /\ owner = "posting" /\ posted < Tasks
    /\ posted' = posted + 1
    /\ tasks' = Append(tasks, posted + 1)
    /\ notifyOne
    /\ UNCHANGED <<created, task, numberOfActiveWorkers, sleptBefore, owner, done>>

\* ~WorkerPool: one null task per worker, and everybody is told.
destroy ==
    /\ owner = "posting"
    /\ owner' = "joining"
    /\ tasks' = tasks \o [i \in AllThreads |-> Null]
    /\ notifyAll
    /\ UNCHANGED <<created, task, numberOfActiveWorkers, sleptBefore, posted, done>>

\* The loop of join() calls: each returns when its worker is not running.
join ==
    /\ owner = "joining"
    /\ \A t \in AllThreads : ~isRunning[t]
    /\ owner' = "destroyed"
    /\ UNCHANGED <<threadVars, tasks, task, numberOfActiveWorkers, sleptBefore, posted, done>>

----------------------------------------------------------------------------
(* The workers *)

threadDidStart(t) ==
    /\ didStart(t)
    /\ numberOfActiveWorkers' = numberOfActiveWorkers + 1
    /\ UNCHANGED <<tasks, task, sleptBefore, owner, posted, done>>

\* The first timeout may always sleep; a later one, when m_timeout has passed since.
shouldSleep(sleep) ==
    /\ CanTimeOut
    /\ ~sleptBefore => sleep
    /\ sleptBefore' = (sleptBefore \/ sleep)

fallAsleep(t) ==
    /\ WaitedInVain(t)
    /\ shouldSleep(TRUE)
    /\ stopForTimeout(t)
    /\ numberOfActiveWorkers' = numberOfActiveWorkers - 1
    /\ UNCHANGED <<tasks, task, owner, posted, done>>

Polls(t) ==
    \/ /\ tasks = <<>>
       /\ pollWait(t)
       /\ UNCHANGED <<tasks, task, numberOfActiveWorkers>>
    \/ /\ tasks # <<>> /\ Head(tasks) = Null
       /\ tasks' = Tail(tasks)
       /\ numberOfActiveWorkers' = numberOfActiveWorkers - 1
       /\ stopPermanently(t)
       /\ UNCHANGED task
    \/ /\ tasks # <<>> /\ Head(tasks) # Null
       /\ tasks' = Tail(tasks)
       /\ task' = [task EXCEPT ![t] = Head(tasks)]
       /\ pollWork(t)
       /\ UNCHANGED numberOfActiveWorkers

poll(t) ==
    /\ MayPoll(t)
    /\ IF WaitedInVain(t) THEN shouldSleep(FALSE) ELSE UNCHANGED sleptBefore
    /\ Polls(t)
    /\ UNCHANGED <<owner, posted, done>>

work(t) ==
    /\ workContinue(t)
    /\ done' = [done EXCEPT ![task[t]] = @ + 1]
    /\ task' = [task EXCEPT ![t] = Null]
    /\ UNCHANGED <<tasks, numberOfActiveWorkers, sleptBefore, owner, posted>>

waitTimesOut(t) ==
    /\ timeout(t)
    /\ UNCHANGED <<tasks, task, numberOfActiveWorkers, sleptBefore, owner, posted, done>>

Worker(t) == threadDidStart(t) \/ fallAsleep(t) \/ poll(t) \/ work(t)

Next ==
    \/ postTask \/ destroy \/ join
    \/ \E t \in AllThreads : Worker(t) \/ waitTimesOut(t)

Spec == Init /\ [][Next]_vars

----------------------------------------------------------------------------
(* ~WorkerPool returns with every posted task run exactly once and nothing   *)
(* left of the workers: its ASSERT(!m_numberOfActiveWorkers).                *)
DestroyedMeansDone ==
    owner = "destroyed" =>
        /\ \A k \in 1 .. posted : done[k] = 1
        /\ tasks = <<>> /\ numberOfActiveWorkers = 0
        /\ \A t \in AllThreads : at[t] = "none"

(* Every posted task runs, whatever threads time out meanwhile: posting is   *)
(* bounded, so from some time on all are done.                               *)
PostedTasksRun == <>[](\A k \in 1 .. posted : done[k] = 1)

(* ~WorkerPool returns: the notify race that AutomaticThread.cpp warns of    *)
(* ("manifests as a deadlock on VM shutdown") does not happen.               *)
DestructorReturns == owner = "joining" ~> owner = "destroyed"
=============================================================================

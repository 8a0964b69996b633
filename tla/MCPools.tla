------------------------------ MODULE MCPools ------------------------------
(***************************************************************************)
(* The clients of AutomaticThread: an instance each of WorkerPool and      *)
(* ParallelHelperPool, with what the runs check of them.                   *)
(***************************************************************************)
CONSTANTS
    Workers, Tasks, Null,
    HelperThreads, Clients, NoClient, MaxTasks

VARIABLES
    oCreated, oIsRunning, oIsWaiting, oHasUnderlyingThread, oAt,
    tasks, task, numberOfActiveWorkers, sleptBefore, owningThread, posted, done,
    hCreated, hIsRunning, hIsWaiting, hHasUnderlyingThread, hAt,
    clients, numThreads, isDying, clientTask, numActive, clientPc, tasksSet, helping, poolState

oVars == <<oCreated, oIsRunning, oIsWaiting, oHasUnderlyingThread, oAt,
           tasks, task, numberOfActiveWorkers, sleptBefore, owningThread, posted, done>>
hVars == <<hCreated, hIsRunning, hIsWaiting, hHasUnderlyingThread, hAt,
           clients, numThreads, isDying, clientTask, numActive, clientPc, tasksSet, helping, poolState>>

O == INSTANCE WorkerPool WITH
       MaxThreads <- Workers, CanTimeOut <- TRUE,
       created <- oCreated, isRunning <- oIsRunning, isWaiting <- oIsWaiting,
       hasUnderlyingThread <- oHasUnderlyingThread, at <- oAt, owner <- owningThread
H == INSTANCE ParallelHelperPool WITH
       MaxThreads <- HelperThreads, CanTimeOut <- TRUE,
       created <- hCreated, isRunning <- hIsRunning, isWaiting <- hIsWaiting,
       hasUnderlyingThread <- hHasUnderlyingThread, at <- hAt, pc <- clientPc

ASSUME PoolsAssumption == O!WorkerPoolAssumption /\ H!HelperPoolAssumption

\* The pools: after finish() nobody runs the client's task any more, ~WorkerPool
\* returns with every posted task run exactly once, no notification is wasted on a
\* helper that counts as waiting and is busy, start() is only called on a thread
\* that has not stopped for good, and the assertions of setTask and runTask hold.
PoolsAreQuiet ==
    /\ O!DestroyedMeansDone /\ O!OnlyRunningThreadsStart
    /\ H!FinishedMeansQuiet /\ H!WaitingFlagIsExact /\ H!OnlyRunningThreadsStart
    /\ H!AssertsHold
=============================================================================

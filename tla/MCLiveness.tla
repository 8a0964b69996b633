----------------------------- MODULE MCLiveness -----------------------------
(***************************************************************************)
(* That collections come to an end.  HeapConductor itself is the build for *)
(* wasm: no thread can be created, and the mutator polls or awaits every   *)
(* request it makes, so that it is finished in the call.  The instance T   *)
(* is a build with a concurrent collector, where it is finished in the     *)
(* end, under fair scheduling.  Init chooses which of the two runs; the    *)
(* variables of the other keep their values.                               *)
(***************************************************************************)
EXTENDS MCHeapConductor

VARIABLES
    part,
    tWorldState, tCurrentPhase, tNextPhase, tWorldIsStopped, tCollectionScope,
    tCurrentRequest, tSchedulerState, tTimeToStop, tReloops, tRequests, tServed, tGranted,
    tThreadLock, tThreadShouldStop, tTimer, tPc, tRet, tJob, tRequest, tGoal, tDone,
    tOldState, tFinRet, tContinuous, tShouldStopContinuous, tPrevented, tRaced, tCrashed

tVars ==
    <<tWorldState, tCurrentPhase, tNextPhase, tWorldIsStopped, tCollectionScope,
      tCurrentRequest, tSchedulerState, tTimeToStop, tReloops, tRequests, tServed,
      tGranted, tThreadLock, tThreadShouldStop, tTimer, tPc, tRet, tJob, tRequest, tGoal,
      tDone, tOldState, tFinRet, tContinuous, tShouldStopContinuous, tPrevented, tRaced,
      tCrashed>>
mcVars == <<part, vars, tVars>>

T == INSTANCE HeapConductor WITH
       Requests <- MCRequests,
       Calls <- {"stopIfNecessary", "collectAsync", "collectSync", "releaseAccess",
                 "preventCollection", "lastChanceToFinalize"},
       ConcurrentGC <- TRUE, ThreadsAvailable <- TRUE, CollectContinuously <- FALSE,
       MaxTickets <- 1, MaxReloops <- 1,
       worldState <- tWorldState, currentPhase <- tCurrentPhase, nextPhase <- tNextPhase,
       worldIsStopped <- tWorldIsStopped, collectionScope <- tCollectionScope,
       currentRequest <- tCurrentRequest, schedulerState <- tSchedulerState,
       timeToStop <- tTimeToStop, reloops <- tReloops, requests <- tRequests,
       served <- tServed, granted <- tGranted, threadLock <- tThreadLock,
       threadShouldStop <- tThreadShouldStop, timer <- tTimer, pc <- tPc, ret <- tRet,
       job <- tJob, request <- tRequest, goal <- tGoal, done <- tDone,
       oldState <- tOldState, finRet <- tFinRet, continuous <- tContinuous,
       shouldStopContinuous <- tShouldStopContinuous, prevented <- tPrevented,
       raced <- tRaced, crashed <- tCrashed

ASSUME InstanceAssumption == T!ConductorAssumption

MCInit == part \in {"wasm", "threads"} /\ Init /\ T!Init

MCNext ==
    \/ part = "wasm" /\ Next /\ UNCHANGED <<part, tVars>>
    \/ part = "threads" /\ T!Next /\ UNCHANGED <<part, vars>>

Runs(step) == part = "threads" /\ step /\ UNCHANGED <<part, vars>>
MCSpec ==
    /\ MCInit /\ [][MCNext]_mcVars
    /\ WF_mcVars(Runs(T!MutatorProgress))
    /\ WF_mcVars(Runs(T!CollectorProgress))
    /\ WF_mcVars(Runs(T!ContinuousProgress))
    /\ WF_mcVars(Runs(T!SchedulerProgress))
    /\ WF_mcVars(Runs(T!TimerProgress))
    /\ WF_mcVars(Runs(T!PollProgress))

-----------------------------------------------------------------------------
\* Every granted ticket is served, whoever has the conn and whatever the mutator does,
\* unless the conn bounces back forever (waitForCollector relinquishes it each time).
TicketsAreServed == T!EveryTicketIsServed

\* The waits of collectSync, preventCollection and lastChanceToFinalize end, and the
\* collector thread is joined, unless the conn bounces back forever.
CallersReturn == T!WaitersReturn

\* The finalizers of a finished collection run, even when the mutator had left the heap:
\* setNeedFinalize schedules the timer that comes back.
FinalizersComeToRun == T!FinalizersRun

=============================================================================

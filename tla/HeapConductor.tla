--------------------------- MODULE HeapConductor ---------------------------
(***************************************************************************)
(* The "conn" protocol of JSC::Heap (JavaScriptCore/heap/Heap.cpp): the    *)
(* mutator thread and the collector thread trade the right to conduct a    *)
(* collection through the bits of m_worldState, the ticket queue guarded   *)
(* by m_threadLock, and parking on &m_worldState.                          *)
(*                                                                         *)
(* One step is one access to m_worldState, one critical section of         *)
(* m_threadLock, or one write of a plain field the other thread may read.  *)
(* A load followed by a compareExchangeWeak of the loaded value is one     *)
(* step (a failed exchange only repeats the load), except where the code   *)
(* keeps using the loaded value afterwards (oldState in waitForCollector). *)
(* A RELEASE_ASSERT that fails takes the process down: crashed.            *)
(***************************************************************************)
EXTENDS Naturals, Sequences, GCRequest

CONSTANTS
    Requests,            \* the GCRequests the mutator passes to collectAsync and collectSync
    Calls,               \* the entry points of Heap this embedding uses
    ConcurrentGC,        \* Options::useConcurrentGC()
    ThreadsAvailable,    \* whether Thread::create can start a thread
    CollectContinuously, \* Options::collectContinuously()
    MaxTickets,          \* bound: requests granted in a behaviour
    MaxReloops           \* bound: times one collection resumes the mutator before it converges

AllCalls == {"stopIfNecessary", "collectAsync", "collectNowAsync", "collectSync",
             "releaseAccess", "preventCollection", "lastChanceToFinalize"}

ASSUME ConductorAssumption ==
    /\ Requests \subseteq GCRequest
    /\ Calls \subseteq AllCalls
    /\ ConcurrentGC \in BOOLEAN
    /\ ThreadsAvailable \in BOOLEAN
    /\ CollectContinuously \in BOOLEAN
    /\ MaxTickets \in Nat
    /\ MaxReloops \in Nat

(* GCConductor *)
Mutator == "Mutator"
Collector == "Collector"
Conductors == {Mutator, Collector}

VARIABLES
    worldState,        \* m_worldState, as the set of its bits
    currentPhase,      \* m_currentPhase
    nextPhase,         \* m_nextPhase
    worldIsStopped,    \* m_worldIsStopped
    collectionScope,   \* m_collectionScope, "none" when disengaged
    currentRequest,    \* m_currentRequest
    schedulerState,    \* the state of m_scheduler
    timeToStop,        \* whether the scheduler's time for the running mutator is over
    reloops,           \* how often this collection resumed the mutator
    requests,          \* m_requests
    served,            \* m_lastServedTicket
    granted,           \* m_lastGrantedTicket
    threadLock,        \* the mutator holds m_threadLock across two steps
    threadShouldStop,  \* m_threadShouldStop
    timer,             \* m_stopIfNecessaryTimer is scheduled
    pc,                \* where each thread is
    ret,               \* where finishChangingPhase returns to, for each thread
    job,               \* the call the mutator is executing
    request,           \* its GCRequest
    goal,              \* the ticket waitForCollection waits for
    done,              \* the local done of waitForCollector
    oldState,          \* the local oldState of waitForCollector
    finRet,            \* where handleNeedFinalize returns to
    continuous,        \* the collectContinuously thread
    shouldStopContinuous, \* m_shouldStopCollectingContinuously
    prevented,         \* the mutator holds m_collectContinuouslyLock
    raced,             \* history: the conn was taken from a running collector thread
    crashed            \* a RELEASE_ASSERT failed

phaseVars == <<currentPhase, nextPhase, worldIsStopped>>
cycleVars == <<collectionScope, currentRequest, schedulerState, timeToStop, reloops>>
ticketVars == <<requests, served, granted>>
threadVars == <<threadLock, threadShouldStop>>
callVars == <<job, request, goal, done, oldState, finRet>>
continuousVars == <<continuous, shouldStopContinuous, prevented>>
faultVars == <<raced, crashed>>

vars == <<worldState, phaseVars, cycleVars, ticketVars, threadVars, timer, pc, ret,
          callVars, continuousVars, faultVars>>

-----------------------------------------------------------------------------
(* Types *)

Bits == {"mutatorHasConn", "stopped", "hasAccess", "needFinalize", "mutatorWaiting"}

Phases == {"NotRunning", "Begin", "Fixpoint", "Concurrent", "Reloop", "End"}

(* Where a conductor is inside runCurrentPhase. *)
ConductorPCs == {"check", "finishChange", "dispatch", "serve", "serveUnpark", "needFinalize",
                 "needFinalizeUnpark", "needFinalizeTimer", "endChange", "resume",
                 "resumeUnpark", "setPhase", "suspend", "stop", "periphery"}

CollectorPCs == ConductorPCs \cup {"off", "poll", "sleep", "stopped", "finalizeParked",
                                   "handoff", "handoffUnpark"}

MutatorPCs == ConductorPCs \cup
    {"out", "run", "acquire", "acquireParked", "acquireFinalize", "cancelTimer",
     "stopFast", "stopSlow", "stopEnd", "request", "requestLocked", "wait", "waitLoad",
     "relinquish", "relinquishNotify", "waitEnd", "waitParked", "release",
     "releaseNotify", "finalize", "stopContinuous", "isCollecting", "stopThread",
     "join", "unlock", "dead"}

Jobs == {"none", "poll", "acquire", "timer", "timerWork", "async", "asyncNow", "sync", "wait",
         "prevent", "shutdown"}

TypeOK ==
    /\ worldState \subseteq Bits
    /\ currentPhase \in Phases
    /\ nextPhase \in Phases
    /\ worldIsStopped \in BOOLEAN
    /\ collectionScope \in CollectionScope \cup {"none"}
    /\ currentRequest \in GCRequest
    /\ schedulerState \in {"Normal", "Stopped", "Resumed"}
    /\ timeToStop \in BOOLEAN
    /\ reloops \in 0..MaxReloops
    /\ requests \in Seq(GCRequest)
    /\ served \in Nat
    /\ granted \in Nat
    /\ threadLock \in BOOLEAN
    /\ threadShouldStop \in BOOLEAN
    /\ timer \in BOOLEAN
    /\ pc \in [Conductors -> MutatorPCs \cup CollectorPCs]
    /\ pc[Mutator] \in MutatorPCs
    /\ pc[Collector] \in CollectorPCs
    /\ ret \in [Conductors -> {"check", "dispatch"}]
    /\ job \in Jobs
    /\ request \in GCRequest
    /\ goal \in Nat
    /\ done \in BOOLEAN
    /\ oldState \subseteq Bits
    /\ finRet \in {"acquireFinalize", "stopSlow", "stopEnd", "wait", "release", "resume", "suspend"}
    /\ continuous \in {"off", "request", "pause", "done"}
    /\ shouldStopContinuous \in BOOLEAN
    /\ prevented \in BOOLEAN
    /\ raced \in BOOLEAN
    /\ crashed \in BOOLEAN

Init ==
    /\ worldState = {}
    /\ currentPhase = "NotRunning"
    /\ nextPhase = "NotRunning"
    /\ worldIsStopped = FALSE
    /\ collectionScope = "none"
    /\ currentRequest = AnyRequest
    /\ schedulerState = "Normal"
    /\ timeToStop = FALSE
    /\ reloops = 0
    /\ requests = <<>>
    /\ served = 0
    /\ granted = 0
    /\ threadLock = FALSE
    /\ threadShouldStop = FALSE
    /\ timer = FALSE
    /\ pc = [c \in Conductors |-> IF c = Mutator THEN "out" ELSE "off"]
    /\ ret = [c \in Conductors |-> "check"]
    /\ job = "none"
    /\ request = AnyRequest
    /\ goal = 0
    /\ done = FALSE
    /\ oldState = {}
    /\ finRet = "wait"
    /\ continuous = IF CollectContinuously THEN "request" ELSE "off"
    /\ shouldStopContinuous = FALSE
    /\ prevented = FALSE
    /\ raced = FALSE
    /\ crashed = FALSE

-----------------------------------------------------------------------------
(* Helpers *)

Has(bit) == bit \in worldState

worldShouldBeSuspended(phase) == phase \in {"Begin", "Fixpoint", "Reloop", "End"}

Goto(c, label) == pc' = [pc EXCEPT ![c] = label]

(* ParkingLot::unparkAll(&m_worldState): every parked thread returns from   *)
(* compareAndPark and repeats the loop it is in.                           *)
Unparked(label) ==
    CASE label = "acquireParked" -> "acquire"
      [] label = "waitParked" -> "wait"
      [] label = "finalizeParked" -> "suspend"
      [] OTHER -> label

unparkAllAndGoto(c, label) ==
    pc' = [d \in Conductors |-> IF d = c THEN label ELSE Unparked(pc[d])]

(* AutomaticThreadCondition::notifyOne: a waiting thread is woken, one     *)
(* without an underlying thread is started; one that runs will poll again  *)
(* before it waits.                                                        *)
Notified(label) == IF label \in {"sleep", "off"} THEN "poll" ELSE label

(* AutomaticThread::start: the automatic thread is running, and             *)
(* Thread::create succeeds.                                                *)
CanNotify == pc[Collector] # "stopped" /\ (pc[Collector] = "off" => ThreadsAvailable)

checkConn(c) == IF c = Mutator THEN Has("mutatorHasConn") ELSE ~Has("mutatorHasConn")

(* The mutator drives the collection itself: it is inside                  *)
(* collectInMutatorThread, finalizers it runs there included.              *)
MutatorConducts ==
    \/ pc[Mutator] \in ConductorPCs
    \/ pc[Mutator] = "finalize" /\ finRet \in {"resume", "suspend"}

(* The collector thread is inside collectInCollectorThread and has not      *)
(* handed the conn over.                                                   *)
CollectorConducts == pc[Collector] \in ConductorPCs \cup {"finalizeParked"}

(* RunCurrentPhaseResult::Finished: collectInCollectorThread returns to     *)
(* poll(); collectInMutatorThread returns to stopIfNecessarySlow.          *)
WaitJobs == {"wait", "prevent", "shutdown"}

(* Mutant: waitForCollector starts over after it conducted, the conn kept.   *)
FinishedStartsOver(c) ==
    CASE c = Collector -> "poll"
      [] c = Mutator /\ job \in WaitJobs -> "wait"
      [] c = Mutator /\ job \notin WaitJobs -> "stopEnd"

Finished(c) ==
    CASE c = Collector -> "poll"
      [] c = Mutator /\ job \in WaitJobs -> "relinquish"
      [] c = Mutator /\ job \notin WaitJobs -> "stopEnd"

-----------------------------------------------------------------------------
(* Running a phase, by either conductor *)

runCurrentPhase(c) ==
    /\ pc[c] = "check"
    /\ ret' = [ret EXCEPT ![c] = "dispatch"]
    /\ Goto(c, "finishChange")
    /\ UNCHANGED <<worldState, phaseVars, cycleVars, ticketVars, threadVars, timer,
                   callVars, continuousVars, faultVars>>

(* The common end of the run...Phase functions: changePhase(conn, phase).   *)
changePhase(c, phase) ==
    /\ nextPhase' = phase
    /\ ret' = [ret EXCEPT ![c] = "check"]
    /\ Goto(c, "finishChange")
    /\ UNCHANGED <<currentPhase, worldIsStopped>>

runNotRunningPhase(c) ==
    /\ pc[c] = "dispatch" /\ currentPhase = "NotRunning" /\ ~threadLock
    /\ \/ /\ requests = <<>>
          /\ Goto(c, Finished(c))
          /\ UNCHANGED <<phaseVars, ret>>
       \/ requests # <<>> /\ changePhase(c, "Begin")
    /\ UNCHANGED <<worldState, cycleVars, ticketVars, threadVars, timer, callVars,
                   continuousVars, faultVars>>

(* shouldDoFullCollection: a request without a scope leaves the choice to   *)
(* the heap's size.                                                        *)
ScopesFor(r) == IF r.scope = "any" THEN CollectionScope ELSE {r.scope}

(* Mutant: the newest request instead of the oldest.                         *)
runBeginPhaseNewest(c) ==
    /\ pc[c] = "dispatch" /\ currentPhase = "Begin" /\ ~threadLock
    /\ currentRequest' = requests[Len(requests)]
    /\ collectionScope' \in ScopesFor(requests[Len(requests)])
    /\ schedulerState' = "Stopped"
    /\ reloops' = 0
    /\ changePhase(c, "Fixpoint")
    /\ UNCHANGED <<timeToStop, worldState, ticketVars, threadVars, timer, callVars,
                   continuousVars, faultVars>>

runBeginPhase(c) ==
    /\ pc[c] = "dispatch" /\ currentPhase = "Begin" /\ ~threadLock
    /\ currentRequest' = Head(requests)
    /\ collectionScope' \in ScopesFor(Head(requests))
    /\ schedulerState' = "Stopped"
    /\ reloops' = 0
    /\ changePhase(c, "Fixpoint")
    /\ UNCHANGED <<timeToStop, worldState, ticketVars, threadVars, timer, callVars,
                   continuousVars, faultVars>>

(* Marking either converges or, when the scheduler lets the mutator resume, *)
(* goes on concurrently.  Staying in Fixpoint changes nothing here.         *)
runFixpointPhase(c) ==
    /\ pc[c] = "dispatch" /\ currentPhase = "Fixpoint"
    /\ \/ changePhase(c, "End") /\ UNCHANGED <<schedulerState, timeToStop, reloops>>
       \/ /\ ConcurrentGC /\ reloops < MaxReloops
          /\ schedulerState' = "Resumed"
          /\ timeToStop' = FALSE
          /\ reloops' = reloops + 1
          /\ changePhase(c, "Concurrent")
    /\ UNCHANGED <<collectionScope, currentRequest, worldState, ticketVars, threadVars,
                   timer, callVars, continuousVars, faultVars>>

(* Mutant: the mutator does not look at the time.                            *)
runConcurrentPhaseTimeless(c) ==
    /\ pc[c] = "dispatch" /\ currentPhase = "Concurrent"
    /\ \/ changePhase(c, "Reloop")
       \/ /\ c = Mutator
          /\ Goto(c, Finished(c))
          /\ UNCHANGED <<phaseVars, ret>>
    /\ UNCHANGED <<cycleVars, worldState, ticketVars, threadVars, timer, callVars,
                   continuousVars, faultVars>>

(* The mutator only polls: it goes on to Reloop when marking terminated or  *)
(* its time is over.  The collector drains until one of the two.            *)
runConcurrentPhase(c) ==
    /\ pc[c] = "dispatch" /\ currentPhase = "Concurrent"
    /\ \/ changePhase(c, "Reloop")
       \/ /\ c = Mutator /\ ~timeToStop
          /\ Goto(c, Finished(c))
          /\ UNCHANGED <<phaseVars, ret>>
    /\ UNCHANGED <<cycleVars, worldState, ticketVars, threadVars, timer, callVars,
                   continuousVars, faultVars>>

runReloopPhase(c) ==
    /\ pc[c] = "dispatch" /\ currentPhase = "Reloop"
    /\ schedulerState' = "Stopped"
    /\ changePhase(c, "Fixpoint")
    /\ UNCHANGED <<collectionScope, currentRequest, timeToStop, reloops, worldState,
                   ticketVars, threadVars, timer, callVars, continuousVars, faultVars>>

(* Mutant: the finalizers become due before the scope is reset.              *)
runEndPhaseFinalizersFirst(c) ==
    /\ pc[c] = "dispatch" /\ currentPhase = "End"
    /\ worldState' = worldState \cup {"needFinalize"}
    /\ schedulerState' = "Normal"
    /\ Goto(c, "serve")
    /\ UNCHANGED <<collectionScope, currentRequest, timeToStop, reloops, phaseVars, ret,
                   ticketVars, threadVars, timer, callVars, continuousVars, faultVars>>

(* runEndPhase, up to didFinishCollection and the request's callback.       *)
runEndPhase(c) ==
    /\ pc[c] = "dispatch" /\ currentPhase = "End"
    /\ collectionScope' = "none"
    /\ schedulerState' = "Normal"
    /\ Goto(c, "serve")
    /\ UNCHANGED <<currentRequest, timeToStop, reloops, phaseVars, ret, worldState,
                   ticketVars, threadVars, timer, callVars, continuousVars, faultVars>>

(* Its critical section: the ticket is served and the waiting bit cleared... *)
serveTicket(c) ==
    /\ pc[c] = "serve" /\ ~threadLock
    /\ requests' = Tail(requests)
    /\ served' = served + 1
    /\ worldState' = worldState \ {"mutatorWaiting"}
    /\ Goto(c, "serveUnpark")
    /\ UNCHANGED <<granted, phaseVars, cycleVars, threadVars, timer, ret, callVars,
                   continuousVars, faultVars>>

(* ... and then whoever waits for it is woken.                              *)
serveUnpark(c) ==
    /\ pc[c] = "serveUnpark"
    /\ unparkAllAndGoto(c, "needFinalize")
    /\ UNCHANGED <<worldState, phaseVars, cycleVars, ticketVars, threadVars, timer, ret,
                   callVars, continuousVars, faultVars>>

setNeedFinalize(c) ==
    /\ pc[c] = "needFinalize"
    /\ worldState' = worldState \cup {"needFinalize"}
    /\ Goto(c, "needFinalizeUnpark")
    /\ UNCHANGED <<phaseVars, cycleVars, ticketVars, threadVars, timer, ret, callVars,
                   continuousVars, faultVars>>

setNeedFinalizeUnpark(c) ==
    /\ pc[c] = "needFinalizeUnpark"
    /\ unparkAllAndGoto(c, "needFinalizeTimer")
    /\ UNCHANGED <<worldState, phaseVars, cycleVars, ticketVars, threadVars, timer, ret,
                   callVars, continuousVars, faultVars>>

(* Mutant: the timer is not scheduled.                                       *)
setNeedFinalizeNoTimer(c) ==
    /\ pc[c] = "needFinalizeTimer"
    /\ Goto(c, "endChange")
    /\ UNCHANGED <<worldState, phaseVars, cycleVars, ticketVars, threadVars, timer, ret,
                   callVars, continuousVars, faultVars>>

setNeedFinalizeTimer(c) ==
    /\ pc[c] = "needFinalizeTimer"
    /\ timer' = TRUE
    /\ Goto(c, "endChange")
    /\ UNCHANGED <<worldState, phaseVars, cycleVars, ticketVars, threadVars, ret, callVars,
                   continuousVars, faultVars>>

endChange(c) ==
    /\ pc[c] = "endChange"
    /\ changePhase(c, "NotRunning")
    /\ UNCHANGED <<worldState, cycleVars, ticketVars, threadVars, timer, callVars,
                   continuousVars, faultVars>>

-----------------------------------------------------------------------------
(* Changing phase, by either conductor *)

finishChangingPhase(c) ==
    /\ pc[c] = "finishChange"
    /\ \/ /\ worldShouldBeSuspended(currentPhase) = worldShouldBeSuspended(nextPhase)
          /\ currentPhase' = nextPhase
          /\ Goto(c, ret[c])
          /\ UNCHANGED worldIsStopped
       \/ /\ worldShouldBeSuspended(currentPhase) /\ ~worldShouldBeSuspended(nextPhase)
          /\ worldIsStopped' = FALSE                            \* resumeThePeriphery
          /\ Goto(c, "resume")
          /\ UNCHANGED currentPhase
       \/ /\ ~worldShouldBeSuspended(currentPhase) /\ worldShouldBeSuspended(nextPhase)
          /\ Goto(c, "suspend")
          /\ UNCHANGED <<currentPhase, worldIsStopped>>
    /\ UNCHANGED <<nextPhase, worldState, cycleVars, ticketVars, threadVars, timer, ret,
                   callVars, continuousVars, faultVars>>

(* resumeTheMutator *)
resumeTheMutator ==
    /\ pc[Collector] = "resume"
    /\ worldState' = worldState \ {"stopped"}
    /\ Goto(Collector, IF Has("stopped") THEN "resumeUnpark" ELSE "setPhase")
    /\ UNCHANGED <<phaseVars, cycleVars, ticketVars, threadVars, timer, ret, callVars,
                   continuousVars, faultVars>>

resumeTheMutatorUnpark ==
    /\ pc[Collector] = "resumeUnpark"
    /\ unparkAllAndGoto(Collector, "setPhase")
    /\ UNCHANGED <<worldState, phaseVars, cycleVars, ticketVars, threadVars, timer, ret,
                   callVars, continuousVars, faultVars>>

(* m_currentPhase = m_nextPhase, after the mutator was let go. *)
setPhase(c) ==
    /\ pc[c] = "setPhase"
    /\ currentPhase' = nextPhase
    /\ Goto(c, ret[c])
    /\ UNCHANGED <<nextPhase, worldIsStopped, worldState, cycleVars, ticketVars,
                   threadVars, timer, ret, callVars, continuousVars, faultVars>>

waitWhileNeedFinalize ==
    /\ pc[Collector] = "suspend"
    /\ Goto(Collector, IF Has("needFinalize") THEN "finalizeParked" ELSE "stop")
    /\ UNCHANGED <<worldState, phaseVars, cycleVars, ticketVars, threadVars, timer, ret,
                   callVars, continuousVars, faultVars>>

stopTheMutator ==
    /\ pc[Collector] = "stop"
    /\ \/ /\ Has("stopped")
          /\ Goto(Collector, "periphery")
          /\ UNCHANGED worldState
       \/ /\ ~Has("stopped") /\ Has("mutatorHasConn")
          /\ Goto(Collector, Finished(Collector))
          /\ UNCHANGED worldState
       \/ /\ ~Has("stopped") /\ ~Has("mutatorHasConn") /\ ~Has("hasAccess")
          /\ worldState' = worldState \cup {"stopped"}
          /\ Goto(Collector, "periphery")
       \/ /\ ~Has("stopped") /\ ~Has("mutatorHasConn") /\ Has("hasAccess")
          /\ worldState' = (worldState \cup {"mutatorHasConn"}) \ {"mutatorWaiting"}
          /\ Goto(Collector, "handoff")
    /\ UNCHANGED <<phaseVars, cycleVars, ticketVars, threadVars, timer, ret, callVars,
                   continuousVars, faultVars>>

(* The rest of the hand-off: the timer is scheduled and the mutator woken.  *)
stopTheMutatorHandoff ==
    /\ pc[Collector] = "handoff"
    /\ timer' = TRUE
    /\ Goto(Collector, "handoffUnpark")
    /\ UNCHANGED <<worldState, phaseVars, cycleVars, ticketVars, threadVars, ret,
                   callVars, continuousVars, faultVars>>

stopTheMutatorUnpark ==
    /\ pc[Collector] = "handoffUnpark"
    /\ unparkAllAndGoto(Collector, Finished(Collector))
    /\ UNCHANGED <<worldState, phaseVars, cycleVars, ticketVars, threadVars, timer, ret,
                   callVars, continuousVars, faultVars>>

stopThePeriphery(c) ==
    /\ pc[c] = "periphery"
    /\ worldIsStopped' = TRUE
    /\ currentPhase' = nextPhase
    /\ Goto(c, ret[c])
    /\ UNCHANGED <<nextPhase, worldState, cycleVars, ticketVars, threadVars, timer, ret,
                   callVars, continuousVars, faultVars>>

(* handleNeedFinalize at the given point of the mutator: the bit is cleared *)
(* and finalize() runs; the caller goes on at finRet'.                      *)
handleNeedFinalize(at, back) ==
    /\ pc[Mutator] = at /\ Has("needFinalize")
    /\ worldState' = worldState \ {"needFinalize"}
    /\ finRet' = back
    /\ Goto(Mutator, "finalize")
    /\ UNCHANGED <<phaseVars, cycleVars, ticketVars, threadVars, timer, ret, job, request,
                   goal, done, oldState, continuousVars, faultVars>>

(* The loop around it in finishChangingPhase and its callers.               *)
handleNeedFinalizeLoop ==
    \E at \in {"acquireFinalize", "stopSlow", "stopEnd", "release", "resume", "suspend"} :
        handleNeedFinalize(at, at)

finalize ==
    /\ pc[Mutator] = "finalize"
    /\ unparkAllAndGoto(Mutator, finRet)
    /\ UNCHANGED <<worldState, phaseVars, cycleVars, ticketVars, threadVars, timer, ret,
                   callVars, continuousVars, faultVars>>

(* The mutator's side of finishChangingPhase, once nothing is left to       *)
(* finalize.                                                               *)
mutatorResumes ==
    /\ pc[Mutator] \in {"resume", "suspend"} /\ ~Has("needFinalize")
    /\ Goto(Mutator, IF pc[Mutator] = "resume" THEN "setPhase" ELSE "periphery")
    /\ UNCHANGED <<worldState, phaseVars, cycleVars, ticketVars, threadVars, timer, ret,
                   callVars, continuousVars, faultVars>>

-----------------------------------------------------------------------------
(* The collector thread: AutomaticThread around Heap::Thread *)

(* Mutant: shouldCollectInCollectorThread ignores the conn.                  *)
pollIgnoresConn ==
    /\ pc[Collector] = "poll" /\ ~threadLock
    /\ \/ /\ threadShouldStop
          /\ worldState' = worldState \ {"mutatorWaiting"}
          /\ unparkAllAndGoto(Collector, "stopped")
       \/ /\ ~threadShouldStop
          /\ Goto(Collector, IF requests # <<>> THEN "check" ELSE "sleep")
          /\ UNCHANGED worldState
    /\ UNCHANGED <<phaseVars, cycleVars, ticketVars, threadVars, timer, ret, callVars,
                   continuousVars, faultVars>>

poll ==
    /\ pc[Collector] = "poll" /\ ~threadLock
    /\ \/ /\ threadShouldStop                                   \* notifyThreadStopping
          /\ worldState' = worldState \ {"mutatorWaiting"}
          /\ unparkAllAndGoto(Collector, "stopped")
       \/ /\ ~threadShouldStop
          /\ Goto(Collector, IF requests # <<>> /\ ~Has("mutatorHasConn") THEN "check" ELSE "sleep")
          /\ UNCHANGED worldState
    /\ UNCHANGED <<phaseVars, cycleVars, ticketVars, threadVars, timer, ret, callVars,
                   continuousVars, faultVars>>

(* waitFor times out: the underlying thread ends, under the lock.           *)
stopForTimeout ==
    /\ pc[Collector] = "sleep" /\ ~threadLock
    /\ Goto(Collector, "off")
    /\ UNCHANGED <<worldState, phaseVars, cycleVars, ticketVars, threadVars, timer, ret,
                   callVars, continuousVars, faultVars>>

(* Time passes for m_scheduler->shouldStop().                               *)
schedulerTick ==
    /\ schedulerState = "Resumed" /\ ~timeToStop
    /\ timeToStop' = TRUE
    /\ UNCHANGED <<collectionScope, currentRequest, schedulerState, reloops, worldState,
                   phaseVars, ticketVars, threadVars, timer, pc, ret, callVars,
                   continuousVars, faultVars>>

-----------------------------------------------------------------------------
(* The mutator: heap access *)

(* The state left alone by a step of the mutator that only moves on.        *)
Rest == <<phaseVars, cycleVars, ticketVars, threadVars, ret, continuousVars, faultVars>>

(* After acquireAccess: the timer's callback goes on to cancelTimer.        *)
AfterAcquire == IF job' = "timer" THEN "cancelTimer" ELSE "run"

acquireAccess(why) ==
    /\ pc[Mutator] = "out"
    /\ job' = why
    /\ \/ /\ worldState = {}
          /\ worldState' = {"hasAccess"}
          /\ Goto(Mutator, AfterAcquire)
       \/ /\ worldState # {}
          /\ Goto(Mutator, "acquire")
          /\ UNCHANGED worldState
    /\ UNCHANGED <<request, goal, done, oldState, finRet, timer, Rest>>

(* JSRunLoopTimer::timerDidFire takes the JSLock, which acquires access,    *)
(* runs StopIfNecessaryTimer::doWork, and unlocks, which releases access.   *)
timerDidFire == timer /\ acquireAccess("timer")

cancelTimer ==
    /\ pc[Mutator] = "cancelTimer"
    /\ timer' = FALSE
    /\ job' = "timerWork"
    /\ Goto(Mutator, "stopFast")
    /\ UNCHANGED <<worldState, request, goal, done, oldState, finRet, Rest>>

(* Mutant: access is taken while the world is stopped.                       *)
acquireAccessStopped ==
    /\ pc[Mutator] = "acquire"
    /\ worldState' = worldState \cup {"hasAccess"}
    /\ Goto(Mutator, "acquireFinalize")
    /\ UNCHANGED <<callVars, timer, Rest>>

acquireAccessSlow ==
    /\ pc[Mutator] = "acquire"
    /\ \/ /\ Has("stopped")
          /\ Goto(Mutator, "acquireParked")
          /\ UNCHANGED worldState
       \/ /\ ~Has("stopped")
          /\ worldState' = worldState \cup {"hasAccess"}
          /\ Goto(Mutator, "acquireFinalize")
    /\ UNCHANGED <<callVars, timer, Rest>>

acquireAccessFinalized ==
    /\ pc[Mutator] = "acquireFinalize" /\ ~Has("needFinalize")
    /\ Goto(Mutator, "stopFast")
    /\ UNCHANGED <<worldState, callVars, timer, Rest>>

releaseAccess ==
    /\ \/ pc[Mutator] = "run" /\ "releaseAccess" \in Calls /\ ~prevented
       \/ pc[Mutator] = "unlock"
    /\ \/ /\ worldState = {"hasAccess"}
          /\ worldState' = {}
          /\ Goto(Mutator, "out")
       \/ /\ worldState # {"hasAccess"}
          /\ Goto(Mutator, "release")
          /\ UNCHANGED worldState
    /\ UNCHANGED <<callVars, timer, Rest>>

releaseAccessSlow ==
    /\ pc[Mutator] = "release" /\ ~Has("needFinalize")
    /\ worldState' = (worldState \ {"hasAccess", "mutatorHasConn"}) \cup
                     (IF Has("mutatorHasConn") /\ nextPhase # currentPhase THEN {"stopped"} ELSE {})
    /\ Goto(Mutator, IF Has("mutatorHasConn") THEN "releaseNotify" ELSE "out")
    /\ UNCHANGED <<callVars, timer, Rest>>

(* finishRelinquishingConn, called from releaseAccessSlow or relinquishConn *)
finishRelinquishingConn ==
    /\ pc[Mutator] \in {"releaseNotify", "relinquishNotify"}
    /\ pc' = [c \in Conductors |->
                IF c = Mutator
                THEN IF pc[Mutator] = "releaseNotify" THEN "out" ELSE "relinquish"
                ELSE IF requests # <<>> THEN Notified(Unparked(pc[c])) ELSE Unparked(pc[c])]
    /\ UNCHANGED <<worldState, callVars, timer, Rest>>

-----------------------------------------------------------------------------
(* The mutator: stopIfNecessary *)

AfterStop ==
    CASE job \in {"async", "asyncNow", "sync"} -> "request"
      [] job = "timer" -> "cancelTimer"
      [] job = "timerWork" -> "unlock"
      [] OTHER -> "run"

callStopIfNecessary ==
    /\ pc[Mutator] = "run" /\ "stopIfNecessary" \in Calls
    /\ job' = "poll"
    /\ Goto(Mutator, "stopFast")
    /\ UNCHANGED <<worldState, request, goal, done, oldState, finRet, timer, Rest>>

stopIfNecessary ==
    /\ pc[Mutator] = "stopFast"
    /\ Goto(Mutator, IF worldState = {"hasAccess"} THEN AfterStop ELSE "stopSlow")
    /\ UNCHANGED <<worldState, callVars, timer, Rest>>

(* Mutant: the mutator does not use the conn it has.                         *)
stopIfNecessaryIdle ==
    /\ pc[Mutator] = "stopSlow" /\ ~Has("needFinalize")
    /\ Goto(Mutator, "stopEnd")
    /\ UNCHANGED <<worldState, callVars, timer, Rest>>

stopIfNecessarySlow ==
    /\ pc[Mutator] = "stopSlow" /\ ~Has("needFinalize")
    /\ Goto(Mutator, IF Has("mutatorHasConn") THEN "check" ELSE "stopEnd")
    /\ UNCHANGED <<worldState, callVars, timer, Rest>>

stopIfNecessaryEnd ==
    /\ pc[Mutator] = "stopEnd" /\ ~Has("needFinalize")
    /\ Goto(Mutator, AfterStop)
    /\ UNCHANGED <<worldState, callVars, timer, Rest>>

-----------------------------------------------------------------------------
(* The mutator: requesting and awaiting collections *)

(* collectAsync, alone or followed by stopIfNecessary (collectNow with      *)
(* Async, collectIfNecessaryOrDefer): the queue is searched under the lock. *)
collectAsync(kind, r) ==
    /\ pc[Mutator] = "run"
    /\ \/ kind = "async" /\ "collectAsync" \in Calls
       \/ kind = "asyncNow" /\ "collectNowAsync" \in Calls
    /\ \/ /\ \E i \in DOMAIN requests : subsumedBy(r, requests[i])
          /\ job' = "poll"
          /\ Goto(Mutator, IF kind = "async" THEN "run" ELSE "stopFast")
          /\ UNCHANGED request
       \/ /\ ~\E i \in DOMAIN requests : subsumedBy(r, requests[i])
          /\ granted < MaxTickets
          /\ job' = kind
          /\ request' = r
          /\ Goto(Mutator, "stopFast")
    /\ UNCHANGED <<worldState, goal, done, oldState, finRet, timer, Rest>>

collectSync(r) ==
    /\ pc[Mutator] = "run" /\ "collectSync" \in Calls /\ granted < MaxTickets
    /\ job' = "sync"
    /\ request' = r
    /\ Goto(Mutator, "stopFast")
    /\ UNCHANGED <<worldState, goal, done, oldState, finRet, timer, Rest>>

(* requestCollection takes the lock and may steal the conn...               *)
requestCollection ==
    /\ pc[Mutator] = "request" /\ ~threadLock
    /\ threadLock' = TRUE
    /\ \/ /\ served = granted /\ currentPhase = "NotRunning"
          /\ worldState' = worldState \cup {"mutatorHasConn"}
          /\ raced' = (raced \/ CollectorConducts)
       \/ /\ ~(served = granted /\ currentPhase = "NotRunning")
          /\ UNCHANGED <<worldState, raced>>
    /\ Goto(Mutator, "requestLocked")
    /\ UNCHANGED <<phaseVars, cycleVars, ticketVars, threadShouldStop, timer, ret, callVars,
                   continuousVars, crashed>>

(* ... then appends the request and, without the conn, wakes the collector. *)
requestCollectionAppend ==
    /\ pc[Mutator] = "requestLocked"
    /\ threadLock' = FALSE
    /\ requests' = Append(requests, request)
    /\ granted' = granted + 1
    /\ goal' = granted'
    /\ job' = CASE job = "sync" -> "wait" [] OTHER -> "poll"
    /\ pc' = [c \in Conductors |->
                IF c = Mutator
                THEN CASE job = "sync" -> "wait" [] job = "asyncNow" -> "stopFast" [] OTHER -> "run"
                ELSE IF Has("mutatorHasConn") THEN pc[c] ELSE Notified(pc[c])]
    /\ UNCHANGED <<worldState, request, done, oldState, finRet, timer, served,
                   threadShouldStop, phaseVars, cycleVars, ret, continuousVars, faultVars>>

(* Mutant: one ticket too early. *)
CollectorIsDoneEarly == IF job = "wait" THEN served + 1 >= goal ELSE served = granted

(* The predicate waitForCollector was called with. *)
CollectorIsDone == IF job = "wait" THEN served >= goal ELSE served = granted

waitForCollector ==
    /\ pc[Mutator] = "wait" /\ ~threadLock
    /\ done' = CollectorIsDone
    /\ worldState' = IF done' THEN worldState ELSE worldState \cup {"mutatorWaiting"}
    /\ Goto(Mutator, "waitLoad")
    /\ UNCHANGED <<job, request, goal, oldState, finRet, timer, Rest>>

waitForCollectorLoad ==
    /\ pc[Mutator] = "waitLoad" /\ ~Has("needFinalize")
    /\ oldState' = worldState
    /\ Goto(Mutator, IF Has("mutatorHasConn") THEN "check" ELSE "relinquish")
    /\ UNCHANGED <<worldState, job, request, goal, done, finRet, timer, Rest>>

relinquishConn ==
    /\ pc[Mutator] = "relinquish"
    /\ \/ /\ Has("mutatorHasConn") /\ ~threadShouldStop
          /\ worldState' = worldState \ {"mutatorHasConn"}
          /\ Goto(Mutator, "relinquishNotify")
       \/ /\ ~Has("mutatorHasConn") \/ threadShouldStop
          /\ Goto(Mutator, "waitEnd")
          /\ UNCHANGED worldState
    /\ UNCHANGED <<callVars, timer, Rest>>

(* Mutant: parks whatever m_worldState is by now.                            *)
waitForCollectorBlind ==
    /\ pc[Mutator] = "waitEnd"
    /\ \/ /\ done
          /\ worldState' = worldState \ {"mutatorWaiting"}
          /\ job' = IF job = "shutdown" THEN job ELSE "none"
          /\ Goto(Mutator, IF job = "shutdown" THEN "stopThread" ELSE "run")
       \/ /\ ~done
          /\ Goto(Mutator, "waitParked")
          /\ UNCHANGED <<worldState, job>>
    /\ UNCHANGED <<request, goal, done, oldState, finRet, timer, Rest>>

waitForCollectorEnd ==
    /\ pc[Mutator] = "waitEnd"
    /\ \/ /\ done
          /\ worldState' = worldState \ {"mutatorWaiting"}
          /\ job' = IF job = "shutdown" THEN job ELSE "none"
          /\ Goto(Mutator, IF job = "shutdown" THEN "stopThread" ELSE "run")
       \/ /\ ~done
          /\ Goto(Mutator, IF worldState = oldState \cup {"mutatorWaiting"}
                           THEN "waitParked" ELSE "wait")
          /\ UNCHANGED <<worldState, job>>
    /\ UNCHANGED <<request, goal, done, oldState, finRet, timer, Rest>>

preventCollection ==
    /\ pc[Mutator] = "run" /\ "preventCollection" \in Calls /\ ~prevented
    /\ prevented' = TRUE
    /\ job' = "prevent"
    /\ Goto(Mutator, "wait")
    /\ UNCHANGED <<worldState, request, goal, done, oldState, finRet, timer, phaseVars,
                   cycleVars, ticketVars, threadVars, ret, continuous, shouldStopContinuous,
                   faultVars>>

allowCollection ==
    /\ pc[Mutator] = "run" /\ prevented
    /\ prevented' = FALSE
    /\ UNCHANGED <<worldState, pc, callVars, timer, phaseVars, cycleVars, ticketVars,
                   threadVars, ret, continuous, shouldStopContinuous, faultVars>>

-----------------------------------------------------------------------------
(* The mutator: lastChanceToFinalize *)

lastChanceToFinalize ==
    /\ pc[Mutator] = "run" /\ "lastChanceToFinalize" \in Calls /\ ~prevented
    /\ job' = "shutdown"
    /\ shouldStopContinuous' = TRUE
    /\ Goto(Mutator, "stopContinuous")
    /\ UNCHANGED <<worldState, request, goal, done, oldState, finRet, timer, phaseVars,
                   cycleVars, ticketVars, threadVars, ret, continuous, prevented, faultVars>>

(* Mutant: the continuous thread is not joined.                              *)
forgetContinuousThread ==
    /\ pc[Mutator] = "stopContinuous"
    /\ Goto(Mutator, "isCollecting")
    /\ UNCHANGED <<worldState, callVars, timer, Rest>>

joinContinuousThread ==
    /\ pc[Mutator] = "stopContinuous" /\ continuous \in {"off", "done"}
    /\ Goto(Mutator, "isCollecting")
    /\ UNCHANGED <<worldState, callVars, timer, Rest>>

checkIsCollecting ==
    /\ pc[Mutator] = "isCollecting"
    /\ Goto(Mutator, IF served < granted THEN "wait" ELSE "stopThread")
    /\ UNCHANGED <<worldState, callVars, timer, Rest>>

(* tryStop succeeds when the automatic thread has no underlying thread. *)
stopThread ==
    /\ pc[Mutator] = "stopThread"
    /\ threadShouldStop' = TRUE
    /\ pc' = IF pc[Collector] = "off"
             THEN [pc EXCEPT ![Mutator] = "dead", ![Collector] = "stopped"]
             ELSE [pc EXCEPT ![Mutator] = "join", ![Collector] = Notified(@)]
    /\ UNCHANGED <<worldState, callVars, timer, phaseVars, cycleVars, ticketVars, threadLock,
                   ret, continuousVars, faultVars>>

join ==
    /\ pc[Mutator] = "join" /\ pc[Collector] = "stopped"
    /\ Goto(Mutator, "dead")
    /\ UNCHANGED <<worldState, callVars, timer, Rest>>

-----------------------------------------------------------------------------
(* The collectContinuously thread of notifyIsSafeToCollect *)

continuousRequest ==
    /\ continuous = "request" /\ ~threadLock
    /\ \/ /\ requests = <<>> /\ granted < MaxTickets
          /\ requests' = Append(requests, AnyRequest)
          /\ granted' = granted + 1
          /\ Goto(Collector, Notified(pc[Collector]))
       \/ /\ requests # <<>> \/ granted >= MaxTickets
          /\ UNCHANGED <<requests, granted, pc>>
    /\ continuous' = "pause"
    /\ UNCHANGED <<served, worldState, callVars, timer, phaseVars, cycleVars, threadVars, ret,
                   shouldStopContinuous, prevented, faultVars>>

(* It waits on m_collectContinuouslyCondition, and needs the lock to go on. *)
continuousPause ==
    /\ continuous = "pause" /\ ~prevented
    /\ continuous' = IF shouldStopContinuous THEN "done" ELSE "request"
    /\ UNCHANGED <<shouldStopContinuous, prevented, worldState, pc, callVars, timer, phaseVars,
                   cycleVars, ticketVars, threadVars, ret, faultVars>>

-----------------------------------------------------------------------------
(* The RELEASE_ASSERTs the next step of each thread evaluates *)

AccessHeld == Has("hasAccess") /\ ~Has("stopped")

PhaseAsserts(c) ==
    /\ pc[c] \in {"check", "finishChange", "endChange"} => checkConn(c)
    /\ pc[c] = "dispatch" /\ currentPhase \notin {"NotRunning", "End"} => checkConn(c)
    /\ pc[c] = "dispatch" /\ currentPhase = "NotRunning" /\ requests # <<>> => checkConn(c)
    /\ pc[c] = "dispatch" /\ currentPhase = "Begin" =>
          requests # <<>> /\ collectionScope = "none" /\ schedulerState = "Normal"
    /\ pc[c] = "dispatch" /\ currentPhase \in {"Fixpoint", "Reloop"} => schedulerState # "Normal"
    /\ pc[c] = "dispatch" /\ currentPhase = "End" => ConcurrentGC \/ schedulerState = "Stopped"
    /\ pc[c] = "serve" => requests # <<>>
    /\ pc[c] = "finishChange" /\ worldShouldBeSuspended(currentPhase)
          /\ ~worldShouldBeSuspended(nextPhase) => worldIsStopped
    /\ pc[c] = "periphery" => ~worldIsStopped

CollectorAsserts ==
    /\ pc[Collector] = "resume" => Has("hasAccess") # Has("stopped") /\ ~Has("mutatorHasConn")
    /\ pc[Collector] = "stop" =>
          /\ Has("stopped") => worldState \cap {"hasAccess", "mutatorWaiting", "mutatorHasConn"} = {}
          /\ Has("mutatorHasConn") => ~Has("hasAccess")
          /\ ~Has("hasAccess") => ~Has("mutatorWaiting")
    /\ pc[Collector] = "poll" /\ ~threadShouldStop =>
          (requests = <<>>) = (served = granted) /\ served <= granted

MutatorAsserts ==
    /\ pc[Mutator] \in {"stopSlow", "stopEnd", "waitLoad", "relinquish", "release", "resume",
                        "suspend", "acquireFinalize"} => AccessHeld
    /\ pc[Mutator] = "acquire" => ~Has("hasAccess")
    /\ pc[Mutator] = "requestLocked" /\ ~Has("mutatorHasConn") => CanNotify
    /\ pc[Mutator] \in {"releaseNotify", "relinquishNotify"} /\ requests # <<>> => CanNotify
    /\ pc[Mutator] = "waitEnd" /\ done /\ job = "prevent" => collectionScope = "none"
    /\ pc[Mutator] = "stopThread" => requests = <<>> /\ served = granted

ContinuousAsserts == continuous = "request" /\ requests = <<>> => CanNotify

AssertsHold(c) ==
    /\ PhaseAsserts(c)
    /\ c = Collector => CollectorAsserts
    /\ c = Mutator => MutatorAsserts

(* A failed RELEASE_ASSERT. *)
crash ==
    /\ crashed' = TRUE
    /\ UNCHANGED <<worldState, phaseVars, cycleVars, ticketVars, threadVars, timer, pc, ret,
                   callVars, continuousVars, raced>>

-----------------------------------------------------------------------------
(* The specification *)

(* A step of runCurrentPhase. *)
ConductorStep(c) ==
    \/ runCurrentPhase(c)
    \/ runNotRunningPhase(c)
    \/ runBeginPhase(c)
    \/ runFixpointPhase(c)
    \/ runConcurrentPhase(c)
    \/ runReloopPhase(c)
    \/ runEndPhase(c)
    \/ serveTicket(c)
    \/ serveUnpark(c)
    \/ setNeedFinalize(c)
    \/ setNeedFinalizeUnpark(c)
    \/ setNeedFinalizeTimer(c)
    \/ endChange(c)
    \/ finishChangingPhase(c)
    \/ setPhase(c)
    \/ stopThePeriphery(c)

CollectorStep ==
    \/ ConductorStep(Collector)
    \/ resumeTheMutator
    \/ resumeTheMutatorUnpark
    \/ waitWhileNeedFinalize
    \/ stopTheMutator
    \/ stopTheMutatorHandoff
    \/ stopTheMutatorUnpark
    \/ poll

(* A step of a call the mutator has begun. *)
MutatorStep ==
    \/ ConductorStep(Mutator)
    \/ handleNeedFinalizeLoop
    \/ handleNeedFinalize("waitLoad", "wait")
    \/ finalize
    \/ mutatorResumes
    \/ cancelTimer
    \/ acquireAccessSlow
    \/ acquireAccessFinalized
    \/ pc[Mutator] = "unlock" /\ releaseAccess
    \/ releaseAccessSlow
    \/ finishRelinquishingConn
    \/ stopIfNecessary
    \/ stopIfNecessarySlow
    \/ stopIfNecessaryEnd
    \/ requestCollection
    \/ requestCollectionAppend
    \/ waitForCollector
    \/ waitForCollectorLoad
    \/ relinquishConn
    \/ waitForCollectorEnd
    \/ joinContinuousThread
    \/ checkIsCollecting
    \/ stopThread
    \/ join

(* The mutator begins a call. *)
MutatorCall ==
    \/ acquireAccess("acquire")
    \/ timerDidFire
    \/ pc[Mutator] = "run" /\ releaseAccess
    \/ callStopIfNecessary
    \/ \E r \in Requests : \/ collectAsync("async", r)
                           \/ collectAsync("asyncNow", r)
                           \/ collectSync(r)
    \/ preventCollection
    \/ allowCollection
    \/ lastChanceToFinalize

ContinuousStep == continuousRequest \/ continuousPause

(* The heap is gone, or a failed assertion ended the process.               *)
Ended == pc[Mutator] = "dead" \/ crashed

Next ==
    \/ /\ ~crashed
       /\ \/ AssertsHold(Mutator) /\ (MutatorStep \/ MutatorCall)
          \/ AssertsHold(Collector) /\ CollectorStep
          \/ ContinuousAsserts /\ ContinuousStep
          \/ stopForTimeout
          \/ schedulerTick
          \/ ~(AssertsHold(Mutator) /\ AssertsHold(Collector) /\ ContinuousAsserts) /\ crash
    \/ Ended /\ UNCHANGED vars

Spec == Init /\ [][Next]_vars

(* What liveness takes to be weakly fair: a thread that is not waiting     *)
(* keeps running; time passes; the run loop fires a scheduled timer once   *)
(* no JavaScript runs; running JavaScript polls stopIfNecessary on its     *)
(* allocation slow paths.                                                  *)
MutatorProgress == ~crashed /\ AssertsHold(Mutator) /\ MutatorStep
CollectorProgress == ~crashed /\ AssertsHold(Collector) /\ CollectorStep
ContinuousProgress == ~crashed /\ ContinuousAsserts /\ ContinuousStep
SchedulerProgress == ~crashed /\ schedulerTick
TimerProgress == ~crashed /\ AssertsHold(Mutator) /\ timerDidFire
PollProgress == ~crashed /\ AssertsHold(Mutator) /\ worldState # {"hasAccess"} /\ callStopIfNecessary

-----------------------------------------------------------------------------
(* Properties *)

(* Every RELEASE_ASSERT of the protocol (checkConn, stopTheMutator,        *)
(* resumeTheMutator, stop/resumeThePeriphery, the schedulers, poll, ...)    *)
(* holds, unless requestCollection took the conn while the collector       *)
(* thread was still inside runCurrentPhase.                                *)
CrashOnlyByRace == crashed => raced

(* The conn is exclusive: the two threads are never both inside            *)
(* runCurrentPhase, and each is there only with the conn on its side.      *)
OneConductor ==
    ~raced => /\ ~(MutatorConducts /\ CollectorConducts)
              /\ MutatorConducts => Has("mutatorHasConn")
              /\ CollectorConducts => ~Has("mutatorHasConn")

(* Stop the world means it: while the collector believes that the world is *)
(* stopped, the mutator has no heap access unless it conducts itself, so   *)
(* no JavaScript and no finalizer runs.                                    *)
WorldStopIsReal == ~raced /\ worldIsStopped => ~Has("hasAccess") \/ MutatorConducts

(* A collection begins only after the finalizers of the one before have    *)
(* run: waitWhileNeedFinalize and handleNeedFinalize on every way into     *)
(* Begin.                                                                  *)
FinalizedBeforeNextCycle ==
    ~raced /\ collectionScope # "none" => ~Has("needFinalize") /\ pc[Mutator] # "finalize"

(* The collection that ends serves the request it began with, and the      *)
(* queue holds exactly the granted tickets that are not served.            *)
ServesItsRequest ==
    ~raced => /\ granted = served + Len(requests)
              /\ collectionScope # "none" => requests # <<>> /\ currentRequest = Head(requests)

(* The conn protocol implements the service it is there for (see           *)
(* CollectionService): requestCollection appends, stopThePeriphery stops,  *)
(* the critical section of runEndPhase serves, setNeedFinalize and         *)
(* handleNeedFinalize frame the finalizers, waitForCollection returns.     *)
Stage ==
    CASE worldIsStopped ->
            IF currentPhase = "End" /\ collectionScope = "none"
               /\ \A c \in Conductors : pc[c] # "serve" THEN "served" ELSE "stopped"
      [] ~worldIsStopped -> IF collectionScope = "none" THEN "idle" ELSE "concurrent"

Service == INSTANCE CollectionService WITH
    Requests <- GCRequest,
    queue <- requests,
    stage <- Stage,
    unfinalized <- Has("needFinalize") \/ pc[Mutator] = "finalize",
    waiting <- IF job = "wait" THEN goal ELSE 0,
    failed <- raced \/ crashed

ImplementsService == Service!Spec

(* The mutator in waitForCollector never sleeps through its wake-up: when  *)
(* it is parked the waiting bit that the collector will clear is set, or   *)
(* the unpark is about to come.                                            *)
ParkedMutatorIsExpected ==
    ~raced /\ pc[Mutator] = "waitParked" =>
        Has("mutatorWaiting") \/ pc[Collector] \in {"handoff", "handoffUnpark", "serveUnpark"}

(* Without threads (the single-threaded wasm build) the mutator never      *)
(* needs the collector thread: it always steals the conn and gives it back *)
(* with nothing left to do, so that Thread::create is not called and no    *)
(* assertion fails; and a requested collection, finalizers included, is    *)
(* over when the requesting call returns.                                  *)
CollectsAlone ==
    /\ ~crashed /\ pc[Collector] \in {"off", "stopped"}
    /\ pc[Mutator] \in {"run", "out"} => served = granted /\ ~Has("needFinalize")

(* What requestCollection says of stealing the conn: "That only works if   *)
(* the collector is definitely not running right now."                     *)
NeverCrashes == ~crashed

(* preventCollection: "Now a collection can only start if this thread      *)
(* starts it."  (For a mutator that requests none itself.)                 *)
PreventedMeansNoCollection ==
    prevented /\ pc[Mutator] = "run" => requests = <<>> /\ collectionScope = "none"

(* "Conn bounce-back": waitForCollector relinquishes a conn that the       *)
(* collector gave the mutator to have the world stopped, before it did     *)
(* that.  runCurrentPhase: "A mischevious mutator could repeatedly         *)
(* relinquish the conn back to us."                                        *)
Bounced == pc[Mutator] = "relinquishNotify" /\ nextPhase # currentPhase

(* Every granted ticket is served, whoever has the conn and whatever the   *)
(* mutator does, unless the conn bounces back forever.                     *)
EveryTicketIsServed ==
    <>[]~Bounced => \A t \in 1..MaxTickets : granted >= t ~> (served >= t \/ raced)

(* The waits of collectSync, preventCollection and lastChanceToFinalize    *)
(* end, and the collector thread is joined, unless the conn bounces back   *)
(* forever.                                                                *)
WaitersReturn ==
    <>[]~Bounced => (job \in WaitJobs ~> (job \notin WaitJobs \/ pc[Mutator] = "dead" \/ raced))

(* The finalizers of a finished collection run, even when the mutator had  *)
(* left the heap: setNeedFinalize schedules the timer that comes back.     *)
FinalizersRun == Has("needFinalize") ~> (~Has("needFinalize") \/ raced \/ pc[Mutator] = "dead")

=============================================================================

----------------------- MODULE HeapConductorAsserts ------------------------
(***************************************************************************)
(* No RELEASE_ASSERT of the conn protocol fails, and no wake-up of the     *)
(* waiting mutator is lost, as long as requestCollection does not take the *)
(* conn from a running collector thread: for every set of requests and of  *)
(* calls and every bound.  Where the protocol itself does not exclude a    *)
(* failed assertion the theorem says what it needs.  And the protocol      *)
(* implements CollectionService: each of its steps is a step of the        *)
(* service, or invisible to it, or puts an assertion at risk.              *)
(***************************************************************************)
EXTENDS HeapConductorProofs

-----------------------------------------------------------------------------
(* The inductive invariants *)

Over == \E c \in Conductors : pc[c] \in Ending

\* A collection has its scope and its scheduler from runBeginPhase until
\* runEndPhase, and a request to serve as long.
CycleInv == ~raced =>
    /\ nextPhase \in {"NotRunning", "Begin"} \/ Over =>
          collectionScope = "none" /\ schedulerState = "Normal"
    /\ nextPhase \notin {"NotRunning", "Begin"} /\ ~Over =>
          collectionScope # "none" /\ schedulerState # "Normal"
    /\ nextPhase = "Begin" => requests # <<>>
    /\ \A c \in Conductors :
          /\ pc[c] = "serve" => requests # <<>>
          /\ pc[c] \in Ending \cup {"dispatch"} => nextPhase = currentPhase
    /\ ~ConcurrentGC => schedulerState # "Resumed"

Resuming == {"resume", "resumeUnpark", "setPhase"}

\* The world is stopped for a phase that needs it until it is resumed; the
\* conn is given to a mutator with heap access only.
WorldInv == ~raced =>
    /\ Has("mutatorHasConn") => Has("hasAccess")
    /\ pc[Mutator] \in {"out", "acquire", "acquireParked", "releaseNotify"} => ~Has("hasAccess")
    /\ pc[Collector] = "resume" => Has("stopped")
    /\ worldShouldBeSuspended(currentPhase) /\ (\A c \in Conductors : ~At(c, Resuming)) =>
          worldIsStopped

WaitPCs == {"wait", "waitLoad", "relinquish", "relinquishNotify", "waitEnd", "waitParked"}
ShutdownPCs == {"stopContinuous", "isCollecting", "stopThread", "join", "dead"}

\* The mutator is in waitForCollector, conducting included, exactly while its
\* job says so, and mutatorWaitingBit is only set there.
WaitInv ==
    /\ At(Mutator, WaitPCs) => job \in WaitJobs
    /\ job \in WaitJobs => At(Mutator, WaitPCs \cup ConductorPCs) \/ pc[Mutator] \in ShutdownPCs
    /\ pc[Mutator] \in ShutdownPCs => job = "shutdown"
    /\ ~raced /\ Has("mutatorWaiting") =>
          job \in WaitJobs /\ At(Mutator, WaitPCs \cup ConductorPCs)

Quiet == continuous \in {"off", "done"}

\* lastChanceToFinalize joins the continuous thread before it stops the
\* collector thread; and when only the mutator makes requests, a wait for all
\* tickets that is done stays done.
ShutdownInv ==
    /\ threadShouldStop => pc[Mutator] \in {"join", "dead"}
    /\ pc[Collector] = "stopped" => threadShouldStop
    /\ job = "shutdown" /\ pc[Mutator] # "stopContinuous" => Quiet
    /\ ~CollectContinuously => continuous = "off"
    /\ "preventCollection" \notin Calls => job # "prevent"
    /\ job = "prevent" => prevented
    /\ ~raced /\ pc[Mutator] = "stopThread" => served = granted
    /\ ~raced /\ done /\ Quiet /\ job \in {"prevent", "shutdown"}
          /\ At(Mutator, (WaitPCs \ {"wait", "waitParked"}) \cup ConductorPCs) => served = granted

\* A build that collects on the calling thread: no concurrent collector, no
\* collectContinuously thread, and every request is followed by a poll or a wait.
SingleThreaded == ~ConcurrentGC /\ ~CollectContinuously /\ "collectAsync" \notin Calls

\* The mutator that collects alone: a request and its finalizers are pending
\* only while it conducts, or has the conn and is on its way to do so.
AloneInv ==
    /\ ~raced /\ ~crashed /\ continuous = "off" /\ job # "async"
    /\ pc[Collector] \in {"off", "stopped"}
    /\ currentPhase # "Concurrent" /\ nextPhase # "Concurrent"
    /\ ~MutatorConducts => currentPhase = "NotRunning" /\ nextPhase = "NotRunning"
    /\ Has("needFinalize") =>
          /\ currentPhase = "End"
          /\ \/ pc[Mutator] \in Finishing
             \/ pc[Mutator] \in {"finishChange", "resume"} /\ nextPhase = "NotRunning"
    /\ requests # <<>> => \/ MutatorConducts
                          \/ Has("mutatorHasConn") /\ pc[Mutator] \in {"stopFast", "stopSlow", "wait", "waitLoad"}
    /\ pc[Mutator] = "requestLocked" => Has("mutatorHasConn")
    /\ pc[Mutator] \in {"request", "requestLocked"} => job \in {"asyncNow", "sync"}

-----------------------------------------------------------------------------
(* The collection and its phases *)

(* A step of runCurrentPhase preserves CycleInv. *)
LEMMA CycleConductor ==
    ASSUME TypeOK, OneConductor, ServesInv, PhaseInv, CycleInv, NEW c \in Conductors,
           PhaseAsserts(c), ConductorStep(c)
    PROVE  CycleInv'
<1> USE DEF CycleInv, Over, Ending, Conductors, Mutator, Collector, Has, phaseVars, cycleVars,
            ticketVars, threadVars, callVars, continuousVars, faultVars
<1>a. /\ pc \in [Conductors -> MutatorPCs \cup CollectorPCs]
      /\ ret \in [Conductors -> {"check", "dispatch"}]
      /\ pc[Mutator] # "finalizeParked"
      /\ finRet \in {"acquireFinalize", "stopSlow", "stopEnd", "wait", "release", "resume", "suspend"}
  BY Zenon DEF TypeOK, MutatorPCs, ConductorPCs
<1>b. ~raced /\ pc[c] \in ConductorPCs => \A d \in Conductors : d # c => pc[d] \notin ConductorPCs
  BY DEF OneConductor, MutatorConducts, CollectorConducts
<1>1. CASE runCurrentPhase(c)
  BY <1>a, <1>1, Zenon DEF runCurrentPhase, Goto
<1>2. CASE runNotRunningPhase(c)
  <2>1. /\ pc[c] = "dispatch" /\ currentPhase = "NotRunning" /\ \A d \in Conductors : d # c => pc'[d] = pc[d]
        /\ \/ pc'[c] \in {"poll", "relinquish", "stopEnd"} /\ UNCHANGED nextPhase
           \/ pc'[c] = "finishChange" /\ nextPhase' = "Begin" /\ requests # <<>>
        /\ UNCHANGED <<currentPhase, collectionScope, schedulerState, requests, raced>>
    BY <1>a, <1>2, Zenon DEF runNotRunningPhase, Goto, changePhase, Finished
  <2>2. QED
    BY <1>b, <2>1, Zenon DEF ConductorPCs
<1>3. CASE runBeginPhase(c)
  <2>1. /\ pc[c] = "dispatch" /\ currentPhase = "Begin" /\ \A d \in Conductors : d # c => pc'[d] = pc[d]
        /\ pc'[c] = "finishChange" /\ nextPhase' = "Fixpoint"
        /\ schedulerState' = "Stopped" /\ collectionScope' \in ScopesFor(Head(requests))
        /\ UNCHANGED <<currentPhase, requests, raced>> /\ requests # <<>>
    BY <1>a, <1>3, Zenon DEF runBeginPhase, Goto, changePhase, PhaseAsserts
  <2>2. Head(requests) \in GCRequest
    BY <2>1 DEF TypeOK
  <2>3. collectionScope' # "none"
    BY <2>1, <2>2, Zenon DEF ScopesFor, GCRequest, CollectionScope
  <2>4. QED
    BY <1>b, <2>1, <2>3 DEF ConductorPCs
<1>4. CASE runFixpointPhase(c)
  <2>1. /\ pc[c] = "dispatch" /\ currentPhase = "Fixpoint" /\ \A d \in Conductors : d # c => pc'[d] = pc[d]
        /\ pc'[c] = "finishChange"
        /\ \/ nextPhase' = "End" /\ schedulerState' = schedulerState
           \/ nextPhase' = "Concurrent" /\ schedulerState' = "Resumed" /\ ConcurrentGC
        /\ UNCHANGED <<currentPhase, collectionScope, requests, raced>>
    BY <1>a, <1>4, Zenon DEF runFixpointPhase, Goto, changePhase
  <2>2. QED
    BY <1>b, <2>1, Zenon DEF ConductorPCs
<1>5. CASE runConcurrentPhase(c)
  <2>1. /\ pc[c] = "dispatch" /\ currentPhase = "Concurrent" /\ \A d \in Conductors : d # c => pc'[d] = pc[d]
        /\ \/ pc'[c] \in {"poll", "relinquish", "stopEnd"} /\ UNCHANGED nextPhase
           \/ pc'[c] = "finishChange" /\ nextPhase' = "Reloop"
        /\ UNCHANGED <<currentPhase, collectionScope, schedulerState, requests, raced>>
    BY <1>a, <1>5, Zenon DEF runConcurrentPhase, Goto, changePhase, Finished
  <2>2. QED
    BY <1>b, <2>1, Zenon DEF ConductorPCs
<1>6. CASE runReloopPhase(c)
  <2>1. /\ pc[c] = "dispatch" /\ currentPhase = "Reloop" /\ \A d \in Conductors : d # c => pc'[d] = pc[d]
        /\ pc'[c] = "finishChange" /\ nextPhase' = "Fixpoint" /\ schedulerState' = "Stopped"
        /\ UNCHANGED <<currentPhase, collectionScope, requests, raced>>
    BY <1>a, <1>6, Zenon DEF runReloopPhase, Goto, changePhase
  <2>2. QED
    BY <1>b, <2>1, Zenon DEF ConductorPCs
<1>7. CASE runEndPhase(c)
  <2>1. /\ pc[c] = "dispatch" /\ currentPhase = "End" /\ \A d \in Conductors : d # c => pc'[d] = pc[d]
        /\ pc'[c] = "serve" /\ collectionScope' = "none" /\ schedulerState' = "Normal"
        /\ UNCHANGED <<currentPhase, nextPhase, requests, raced>>
    BY <1>a, <1>7, Zenon DEF runEndPhase, Goto
  <2>2. QED
    BY <1>b, <2>1, Zenon DEF ConductorPCs, ServesInv
<1>8. CASE serveTicket(c)
  <2>1. /\ pc[c] = "serve" /\ \A d \in Conductors : d # c => pc'[d] = pc[d]
        /\ pc'[c] = "serveUnpark"
        /\ UNCHANGED <<currentPhase, nextPhase, collectionScope, schedulerState, raced>>
    BY <1>a, <1>8, Zenon DEF serveTicket, Goto
  <2>2. QED
    BY <1>b, <2>1, Zenon DEF ConductorPCs, PhaseInv
<1>9. CASE serveUnpark(c)
  BY <1>a, <1>9, Zenon DEF serveUnpark, unparkAllAndGoto, Unparked
<1>10. CASE setNeedFinalize(c)
  BY <1>a, <1>10, Zenon DEF setNeedFinalize, Goto
<1>11. CASE setNeedFinalizeUnpark(c)
  BY <1>a, <1>11, Zenon DEF setNeedFinalizeUnpark, unparkAllAndGoto, Unparked
<1>12. CASE setNeedFinalizeTimer(c)
  BY <1>a, <1>12, Zenon DEF setNeedFinalizeTimer, Goto
<1>13. CASE endChange(c)
  <2>1. /\ pc[c] = "endChange" /\ \A d \in Conductors : d # c => pc'[d] = pc[d]
        /\ pc'[c] = "finishChange" /\ nextPhase' = "NotRunning"
        /\ UNCHANGED <<currentPhase, collectionScope, schedulerState, requests, raced>>
    BY <1>a, <1>13, Zenon DEF endChange, changePhase, Goto
  <2>2. QED
    BY <1>b, <2>1 DEF ConductorPCs, PhaseInv
<1>14. CASE finishChangingPhase(c)
  BY <1>a, <1>14 DEF finishChangingPhase, Goto, worldShouldBeSuspended
<1>15. CASE setPhase(c)
  BY <1>a, <1>15, Zenon DEF setPhase, Goto
<1>16. CASE stopThePeriphery(c)
  BY <1>a, <1>16, Zenon DEF stopThePeriphery, Goto
<1> QED
  BY <1>1, <1>2, <1>3, <1>4, <1>5, <1>6, <1>7, <1>8, <1>9, <1>10, <1>11, <1>12, <1>13, <1>14,
     <1>15, <1>16, Zenon DEF ConductorStep

(* A step of the collector thread preserves CycleInv. *)
LEMMA CycleCollector ==
    ASSUME TypeOK, OneConductor, ServesInv, PhaseInv, CycleInv, AssertsHold(Collector), CollectorStep
    PROVE  CycleInv'
<1> USE DEF CycleInv, Over, Ending, Conductors, Mutator, Collector, Has, phaseVars, cycleVars,
            ticketVars, threadVars, callVars, continuousVars, faultVars
<1>a. /\ pc \in [Conductors -> MutatorPCs \cup CollectorPCs]
      /\ ret \in [Conductors -> {"check", "dispatch"}]
      /\ pc[Mutator] # "finalizeParked"
      /\ finRet \in {"acquireFinalize", "stopSlow", "stopEnd", "wait", "release", "resume", "suspend"}
  BY Zenon DEF TypeOK, MutatorPCs, ConductorPCs
<1>1. CASE ConductorStep(Collector)
  BY <1>1, CycleConductor, Zenon DEF AssertsHold
<1>2. CASE resumeTheMutator
  BY <1>a, <1>2, Zenon DEF resumeTheMutator, Goto
<1>3. CASE resumeTheMutatorUnpark
  BY <1>a, <1>3, Zenon DEF resumeTheMutatorUnpark, unparkAllAndGoto, Unparked
<1>4. CASE waitWhileNeedFinalize
  BY <1>a, <1>4, Zenon DEF waitWhileNeedFinalize, Goto
<1>5. CASE stopTheMutator
  BY <1>a, <1>5 DEF stopTheMutator, Goto, Finished
<1>6. CASE stopTheMutatorHandoff
  BY <1>a, <1>6, Zenon DEF stopTheMutatorHandoff, Goto
<1>7. CASE stopTheMutatorUnpark
  BY <1>a, <1>7, Zenon DEF stopTheMutatorUnpark, unparkAllAndGoto, Finished, Unparked
<1>8. CASE poll
  BY <1>a, <1>8 DEF poll, Goto, unparkAllAndGoto, Unparked
<1> QED
  BY <1>1, <1>2, <1>3, <1>4, <1>5, <1>6, <1>7, <1>8, Zenon DEF CollectorStep

(* A step of a call of the mutator preserves CycleInv. *)
LEMMA CycleMutator ==
    ASSUME TypeOK, OneConductor, ServesInv, PhaseInv, CycleInv, AssertsHold(Mutator), MutatorStep
    PROVE  CycleInv'
<1> USE DEF CycleInv, Over, Ending, Conductors, Mutator, Collector, Has, phaseVars, cycleVars,
            ticketVars, threadVars, callVars, continuousVars, faultVars
<1>a. /\ pc \in [Conductors -> MutatorPCs \cup CollectorPCs]
      /\ ret \in [Conductors -> {"check", "dispatch"}]
      /\ pc[Mutator] # "finalizeParked"
      /\ finRet \in {"acquireFinalize", "stopSlow", "stopEnd", "wait", "release", "resume", "suspend"}
  BY Zenon DEF TypeOK, MutatorPCs, ConductorPCs
<1>1. CASE ConductorStep(Mutator)
  BY <1>1, CycleConductor, Zenon DEF AssertsHold
<1>2. CASE handleNeedFinalizeLoop \/ handleNeedFinalize("waitLoad", "wait")
  BY <1>a, <1>2, Zenon DEF handleNeedFinalizeLoop, handleNeedFinalize, Goto
<1>3. CASE finalize
  BY <1>a, <1>3, Zenon DEF finalize, unparkAllAndGoto, Unparked
<1>4. CASE mutatorResumes
  BY <1>a, <1>4, Zenon DEF mutatorResumes, Goto
<1>5. CASE cancelTimer
  BY <1>a, <1>5, Zenon DEF cancelTimer, Goto, Rest
<1>6. CASE acquireAccessSlow
  BY <1>a, <1>6, Zenon DEF acquireAccessSlow, Goto, Rest
<1>7. CASE acquireAccessFinalized
  BY <1>a, <1>7, Zenon DEF acquireAccessFinalized, Goto, Rest
<1>8. CASE releaseAccessSlow
  BY <1>a, <1>8, Zenon DEF releaseAccessSlow, Goto, Rest
<1>9. CASE finishRelinquishingConn
  BY <1>a, <1>9, Zenon DEF finishRelinquishingConn, Unparked, Notified, Rest
<1>10. CASE stopIfNecessary
  BY <1>a, <1>10, Zenon DEF stopIfNecessary, Goto, AfterStop, Rest
<1>11. CASE stopIfNecessarySlow
  BY <1>a, <1>11, Zenon DEF stopIfNecessarySlow, Goto, Rest
<1>12. CASE stopIfNecessaryEnd
  BY <1>a, <1>12, Zenon DEF stopIfNecessaryEnd, Goto, AfterStop, Rest
<1>13. CASE requestCollection
  <2>1. ~raced' => ~raced
    BY <1>13, Zenon DEF requestCollection
  <2>2. /\ pc[Mutator] = "request" /\ pc'[Mutator] = "requestLocked" /\ pc'[Collector] = pc[Collector]
        /\ UNCHANGED <<currentPhase, nextPhase, collectionScope, schedulerState, requests>>
    BY <1>a, <1>13, Zenon DEF requestCollection, Goto
  <2>3. QED
    BY <2>1, <2>2, Zenon
<1>14. CASE requestCollectionAppend
  BY <1>a, <1>14 DEF requestCollectionAppend, Notified
<1>15. CASE waitForCollector
  BY <1>a, <1>15, Zenon DEF waitForCollector, Goto, CollectorIsDone, Rest
<1>16. CASE waitForCollectorLoad
  BY <1>a, <1>16, Zenon DEF waitForCollectorLoad, Goto, Rest
<1>17. CASE relinquishConn
  BY <1>a, <1>17, Zenon DEF relinquishConn, Goto, Rest
<1>18. CASE waitForCollectorEnd
  BY <1>a, <1>18, Zenon DEF waitForCollectorEnd, Goto, Rest
<1>19. CASE joinContinuousThread
  BY <1>a, <1>19, Zenon DEF joinContinuousThread, Goto, Rest
<1>20. CASE checkIsCollecting
  BY <1>a, <1>20, Zenon DEF checkIsCollecting, Goto, Rest
<1>21. CASE stopThread
  BY <1>a, <1>21, Zenon DEF stopThread, Notified
<1>22. CASE join
  BY <1>a, <1>22, Zenon DEF join, Goto, Rest
<1>23. CASE pc[Mutator] = "unlock" /\ releaseAccess
  BY <1>a, <1>23, Zenon DEF releaseAccess, Goto, Rest
<1> QED
  BY <1>1, <1>2, <1>3, <1>4, <1>5, <1>6, <1>7, <1>8, <1>9, <1>10, <1>11, <1>12, <1>13, <1>14,
     <1>15, <1>16, <1>17, <1>18, <1>19, <1>20, <1>21, <1>22, <1>23, Zenon DEF MutatorStep

(* The beginning of a call preserves CycleInv. *)
LEMMA CycleCall ==
    ASSUME TypeOK, OneConductor, ServesInv, PhaseInv, CycleInv, MutatorCall
    PROVE  CycleInv'
<1> USE DEF CycleInv, Over, Ending, Conductors, Mutator, Collector, Has, phaseVars, cycleVars,
            ticketVars, threadVars, callVars, continuousVars, faultVars
<1>a. /\ pc \in [Conductors -> MutatorPCs \cup CollectorPCs]
      /\ ret \in [Conductors -> {"check", "dispatch"}]
      /\ pc[Mutator] # "finalizeParked"
      /\ finRet \in {"acquireFinalize", "stopSlow", "stopEnd", "wait", "release", "resume", "suspend"}
  BY Zenon DEF TypeOK, MutatorPCs, ConductorPCs
<1>1. CASE acquireAccess("acquire")
  BY <1>a, <1>1, Zenon DEF acquireAccess, Goto, AfterAcquire, Rest
<1>2. CASE timerDidFire
  BY <1>a, <1>2, Zenon DEF timerDidFire, acquireAccess, Goto, AfterAcquire, Rest
<1>3. CASE pc[Mutator] = "run" /\ releaseAccess
  BY <1>a, <1>3, Zenon DEF releaseAccess, Goto, Rest
<1>4. CASE callStopIfNecessary
  BY <1>a, <1>4, Zenon DEF callStopIfNecessary, Goto, Rest
<1>5. ASSUME NEW r \in Requests, NEW kind \in {"async", "asyncNow"}, collectAsync(kind, r)
      PROVE  CycleInv'
  BY <1>a, <1>5, Zenon DEF collectAsync, Goto, Rest
<1>6. ASSUME NEW r \in Requests, collectSync(r)
      PROVE  CycleInv'
  BY <1>a, <1>6, Zenon DEF collectSync, Goto, Rest
<1>7. CASE preventCollection
  BY <1>a, <1>7, Zenon DEF preventCollection, Goto
<1>8. CASE allowCollection
  BY <1>a, <1>8, Zenon DEF allowCollection
<1>9. CASE lastChanceToFinalize
  BY <1>a, <1>9, Zenon DEF lastChanceToFinalize, Goto
<1> QED
  BY <1>1, <1>2, <1>3, <1>4, <1>5, <1>6, <1>7, <1>8, <1>9, Zenon DEF MutatorCall

(* CycleInv holds in every state of the conn protocol.                      *)
THEOREM CycleInvariant == Spec => []CycleInv
<1>1. Init => CycleInv
  BY Zenon DEF Init, CycleInv, Over, Ending, Conductors, Mutator, Collector, Has
<1>2. TypeOK /\ OneConductor /\ ServesInv /\ PhaseInv /\ CycleInv /\ [Next]_vars => CycleInv'
  <2> SUFFICES ASSUME TypeOK, OneConductor, ServesInv, PhaseInv, CycleInv, [Next]_vars PROVE CycleInv'
    BY Zenon
  <2> USE DEF CycleInv, Over, Ending, Conductors, Mutator, Collector, Has, phaseVars,
              cycleVars, ticketVars, threadVars, callVars, continuousVars, faultVars
  <2>a. pc \in [Conductors -> MutatorPCs \cup CollectorPCs]
    BY Zenon DEF TypeOK
  <2>1. CASE AssertsHold(Mutator) /\ MutatorStep
    BY <2>1, CycleMutator, Zenon
  <2>2. CASE MutatorCall
    BY <2>2, CycleCall, Zenon
  <2>3. CASE AssertsHold(Collector) /\ CollectorStep
    BY <2>3, CycleCollector, Zenon
  <2>4. CASE continuousRequest
    BY <2>a, <2>4, Zenon DEF continuousRequest, Goto, Notified
  <2>5. CASE continuousPause
    BY <2>a, <2>5, Zenon DEF continuousPause
  <2>6. CASE stopForTimeout
    BY <2>a, <2>6, Zenon DEF stopForTimeout, Goto
  <2>7. CASE schedulerTick
    BY <2>a, <2>7, Zenon DEF schedulerTick
  <2>8. CASE crash
    BY <2>a, <2>8, Zenon DEF crash
  <2>9. CASE UNCHANGED vars
    BY <2>9, Zenon DEF vars
  <2>10. QED
    BY <2>1, <2>2, <2>3, <2>4, <2>5, <2>6, <2>7, <2>8, <2>9, Zenon DEF Next, ContinuousStep
<1>3. QED
  BY <1>1, <1>2, TypeCorrect, ConnIsExclusive, TicketInvariant, PhaseOrder, PTL DEF Spec

-----------------------------------------------------------------------------
(* The world state *)

(* A step of runCurrentPhase preserves WorldInv. *)
LEMMA WorldConductor ==
    ASSUME TypeOK, OneConductor, StopInv, AccessInv, WorldInv, NEW c \in Conductors,
           PhaseAsserts(c), ConductorStep(c)
    PROVE  WorldInv'
<1> USE DEF WorldInv, Resuming, At, worldShouldBeSuspended, Conductors, Mutator, Collector,
            Has, phaseVars, cycleVars, ticketVars, threadVars, callVars, continuousVars,
            faultVars
<1>a. /\ pc \in [Conductors -> MutatorPCs \cup CollectorPCs]
      /\ ret \in [Conductors -> {"check", "dispatch"}]
      /\ pc[Mutator] # "finalizeParked"
      /\ finRet \in {"acquireFinalize", "stopSlow", "stopEnd", "wait", "release", "resume", "suspend"}
  BY Zenon DEF TypeOK, MutatorPCs, ConductorPCs
<1>b. ~raced /\ pc[c] \in ConductorPCs => \A d \in Conductors : d # c => ~At(d, ConductorPCs)
  BY <1>a DEF OneConductor, MutatorConducts, CollectorConducts, ConductorPCs
<1>1. CASE runCurrentPhase(c)
  BY <1>a, <1>1, Zenon DEF runCurrentPhase, Goto
<1>2. CASE runNotRunningPhase(c)
  BY <1>a, <1>2, Zenon DEF runNotRunningPhase, Goto, changePhase, Finished
<1>3. CASE runBeginPhase(c)
  BY <1>a, <1>3, Zenon DEF runBeginPhase, changePhase, ScopesFor, Goto
<1>4. CASE runFixpointPhase(c)
  BY <1>a, <1>4, Zenon DEF runFixpointPhase, changePhase, Goto
<1>5. CASE runConcurrentPhase(c)
  BY <1>a, <1>5, Zenon DEF runConcurrentPhase, Goto, changePhase, Finished
<1>6. CASE runReloopPhase(c)
  BY <1>a, <1>6, Zenon DEF runReloopPhase, changePhase, Goto
<1>7. CASE runEndPhase(c)
  BY <1>a, <1>7, Zenon DEF runEndPhase, Goto
<1>8. CASE serveTicket(c)
  BY <1>a, <1>8, Zenon DEF serveTicket, Goto
<1>9. CASE serveUnpark(c)
  BY <1>a, <1>9, Zenon DEF serveUnpark, unparkAllAndGoto, Unparked
<1>10. CASE setNeedFinalize(c)
  BY <1>a, <1>10, Zenon DEF setNeedFinalize, Goto
<1>11. CASE setNeedFinalizeUnpark(c)
  BY <1>a, <1>11, Zenon DEF setNeedFinalizeUnpark, unparkAllAndGoto, Unparked
<1>12. CASE setNeedFinalizeTimer(c)
  BY <1>a, <1>12, Zenon DEF setNeedFinalizeTimer, Goto
<1>13. CASE endChange(c)
  BY <1>a, <1>13, Zenon DEF endChange, changePhase, Goto
<1>14. CASE finishChangingPhase(c)
  <2>1. /\ pc[c] = "finishChange" /\ \A d \in Conductors : d # c => pc'[d] = pc[d]
        /\ \/ /\ worldShouldBeSuspended(currentPhase) <=> worldShouldBeSuspended(currentPhase')
              /\ pc'[c] \in {"check", "dispatch"} /\ UNCHANGED worldIsStopped
           \/ pc'[c] = "resume" /\ worldIsStopped /\ worldShouldBeSuspended(currentPhase)
           \/ ~worldShouldBeSuspended(currentPhase) /\ pc'[c] = "suspend" /\ UNCHANGED currentPhase
        /\ UNCHANGED <<worldState, raced, finRet>>
    BY <1>a, <1>14, Zenon DEF finishChangingPhase, Goto, PhaseAsserts
  <2>2. ~raced /\ c = Collector /\ worldIsStopped => Has("stopped")
    BY <1>b, <2>1, Zenon DEF StopInv, MutatorConducts, ConductorPCs
  <2>3. QED
    BY <1>b, <2>1, <2>2 DEF ConductorPCs
<1>15. CASE setPhase(c)
  <2>1. /\ pc[c] = "setPhase" /\ \A d \in Conductors : d # c => pc'[d] = pc[d]
        /\ pc'[c] \in {"check", "dispatch"} /\ currentPhase' = nextPhase
        /\ UNCHANGED <<worldState, raced, finRet, worldIsStopped>>
    BY <1>a, <1>15, Zenon DEF setPhase, Goto
  <2>2. ~raced => ~worldShouldBeSuspended(nextPhase)
    BY <2>1, Zenon DEF StopInv
  <2>3. QED
    BY <2>1, <2>2, Zenon
<1>16. CASE stopThePeriphery(c)
  BY <1>a, <1>16, Zenon DEF stopThePeriphery, Goto
<1> QED
  BY <1>1, <1>2, <1>3, <1>4, <1>5, <1>6, <1>7, <1>8, <1>9, <1>10, <1>11, <1>12, <1>13, <1>14,
     <1>15, <1>16, Zenon DEF ConductorStep

(* A step of the collector thread preserves WorldInv. *)
LEMMA WorldCollector ==
    ASSUME TypeOK, OneConductor, StopInv, AccessInv, WorldInv, AssertsHold(Collector), CollectorStep
    PROVE  WorldInv'
<1> USE DEF WorldInv, Resuming, At, worldShouldBeSuspended, Conductors, Mutator, Collector,
            Has, phaseVars, cycleVars, ticketVars, threadVars, callVars, continuousVars,
            faultVars
<1>a. /\ pc \in [Conductors -> MutatorPCs \cup CollectorPCs]
      /\ ret \in [Conductors -> {"check", "dispatch"}]
      /\ pc[Mutator] # "finalizeParked"
      /\ finRet \in {"acquireFinalize", "stopSlow", "stopEnd", "wait", "release", "resume", "suspend"}
  BY Zenon DEF TypeOK, MutatorPCs, ConductorPCs
<1>1. CASE ConductorStep(Collector)
  BY <1>1, WorldConductor, Zenon DEF AssertsHold
<1>2. CASE resumeTheMutator
  BY <1>a, <1>2, Zenon DEF resumeTheMutator, Goto
<1>3. CASE resumeTheMutatorUnpark
  BY <1>a, <1>3, Zenon DEF resumeTheMutatorUnpark, unparkAllAndGoto, Unparked
<1>4. CASE waitWhileNeedFinalize
  BY <1>a, <1>4, Zenon DEF waitWhileNeedFinalize, Goto
<1>5. CASE stopTheMutator
  BY <1>a, <1>5 DEF stopTheMutator, Goto, Finished
<1>6. CASE stopTheMutatorHandoff
  BY <1>a, <1>6, Zenon DEF stopTheMutatorHandoff, Goto
<1>7. CASE stopTheMutatorUnpark
  BY <1>a, <1>7, Zenon DEF stopTheMutatorUnpark, unparkAllAndGoto, Finished, Unparked
<1>8. CASE poll
  BY <1>a, <1>8, Zenon DEF poll, Goto, unparkAllAndGoto, Unparked
<1> QED
  BY <1>1, <1>2, <1>3, <1>4, <1>5, <1>6, <1>7, <1>8, Zenon DEF CollectorStep

(* A step of a call of the mutator preserves WorldInv. *)
LEMMA WorldMutator ==
    ASSUME TypeOK, OneConductor, StopInv, AccessInv, WorldInv, AssertsHold(Mutator), MutatorStep
    PROVE  WorldInv'
<1> USE DEF WorldInv, Resuming, At, worldShouldBeSuspended, Conductors, Mutator, Collector,
            Has, phaseVars, cycleVars, ticketVars, threadVars, callVars, continuousVars,
            faultVars
<1>a. /\ pc \in [Conductors -> MutatorPCs \cup CollectorPCs]
      /\ ret \in [Conductors -> {"check", "dispatch"}]
      /\ pc[Mutator] # "finalizeParked"
      /\ finRet \in {"acquireFinalize", "stopSlow", "stopEnd", "wait", "release", "resume", "suspend"}
  BY Zenon DEF TypeOK, MutatorPCs, ConductorPCs
<1>1. CASE ConductorStep(Mutator)
  BY <1>1, WorldConductor, Zenon DEF AssertsHold
<1>2. CASE handleNeedFinalizeLoop \/ handleNeedFinalize("waitLoad", "wait")
  BY <1>a, <1>2, Zenon DEF handleNeedFinalizeLoop, handleNeedFinalize, Goto
<1>3. CASE finalize
  BY <1>a, <1>3, Zenon DEF finalize, unparkAllAndGoto, Unparked
<1>4. CASE mutatorResumes
  BY <1>a, <1>4, Zenon DEF mutatorResumes, Goto
<1>5. CASE cancelTimer
  BY <1>a, <1>5, Zenon DEF cancelTimer, Goto, Rest
<1>6. CASE acquireAccessSlow
  BY <1>a, <1>6, Zenon DEF acquireAccessSlow, Goto, Rest
<1>7. CASE acquireAccessFinalized
  BY <1>a, <1>7, Zenon DEF acquireAccessFinalized, Goto, Rest
<1>8. CASE releaseAccessSlow
  BY <1>a, <1>8, Zenon DEF releaseAccessSlow, Goto, Rest
<1>9. CASE finishRelinquishingConn
  BY <1>a, <1>9, Zenon DEF finishRelinquishingConn, Unparked, Notified, Rest
<1>10. CASE stopIfNecessary
  BY <1>a, <1>10, Zenon DEF stopIfNecessary, Goto, AfterStop, Rest
<1>11. CASE stopIfNecessarySlow
  BY <1>a, <1>11, Zenon DEF stopIfNecessarySlow, Goto, Rest
<1>12. CASE stopIfNecessaryEnd
  BY <1>a, <1>12, Zenon DEF stopIfNecessaryEnd, Goto, AfterStop, Rest
<1>13. CASE requestCollection
  <2>1. ~raced' => ~raced
    BY <1>13, Zenon DEF requestCollection
  <2>2. /\ pc[Mutator] = "request" /\ pc'[Mutator] = "requestLocked" /\ pc'[Collector] = pc[Collector]
        /\ UNCHANGED <<currentPhase, worldIsStopped, finRet>>
    BY <1>a, <1>13, Zenon DEF requestCollection, Goto
  <2>3. worldState' = worldState \/ worldState' = worldState \cup {"mutatorHasConn"}
    BY <1>13, Zenon DEF requestCollection
  <2>4. QED
    BY <2>1, <2>2, <2>3, Zenon DEF AccessInv
<1>14. CASE requestCollectionAppend
  BY <1>a, <1>14, Zenon DEF requestCollectionAppend, Notified
<1>15. CASE waitForCollector
  BY <1>a, <1>15, Zenon DEF waitForCollector, Goto, CollectorIsDone, Rest
<1>16. CASE waitForCollectorLoad
  BY <1>a, <1>16, Zenon DEF waitForCollectorLoad, Goto, Rest
<1>17. CASE relinquishConn
  BY <1>a, <1>17, Zenon DEF relinquishConn, Goto, Rest
<1>18. CASE waitForCollectorEnd
  BY <1>a, <1>18, Zenon DEF waitForCollectorEnd, Goto, Rest
<1>19. CASE joinContinuousThread
  BY <1>a, <1>19, Zenon DEF joinContinuousThread, Goto, Rest
<1>20. CASE checkIsCollecting
  BY <1>a, <1>20, Zenon DEF checkIsCollecting, Goto, Rest
<1>21. CASE stopThread
  BY <1>a, <1>21, Zenon DEF stopThread, Notified
<1>22. CASE join
  BY <1>a, <1>22, Zenon DEF join, Goto, Rest
<1>23. CASE pc[Mutator] = "unlock" /\ releaseAccess
  BY <1>a, <1>23, Zenon DEF releaseAccess, Goto, Rest
<1> QED
  BY <1>1, <1>2, <1>3, <1>4, <1>5, <1>6, <1>7, <1>8, <1>9, <1>10, <1>11, <1>12, <1>13, <1>14,
     <1>15, <1>16, <1>17, <1>18, <1>19, <1>20, <1>21, <1>22, <1>23, Zenon DEF MutatorStep

(* The beginning of a call preserves WorldInv. *)
LEMMA WorldCall ==
    ASSUME TypeOK, OneConductor, StopInv, AccessInv, WorldInv, MutatorCall
    PROVE  WorldInv'
<1> USE DEF WorldInv, Resuming, At, worldShouldBeSuspended, Conductors, Mutator, Collector,
            Has, phaseVars, cycleVars, ticketVars, threadVars, callVars, continuousVars,
            faultVars
<1>a. /\ pc \in [Conductors -> MutatorPCs \cup CollectorPCs]
      /\ ret \in [Conductors -> {"check", "dispatch"}]
      /\ pc[Mutator] # "finalizeParked"
      /\ finRet \in {"acquireFinalize", "stopSlow", "stopEnd", "wait", "release", "resume", "suspend"}
  BY Zenon DEF TypeOK, MutatorPCs, ConductorPCs
<1>1. CASE acquireAccess("acquire")
  BY <1>a, <1>1, Zenon DEF acquireAccess, Goto, AfterAcquire, Rest
<1>2. CASE timerDidFire
  BY <1>a, <1>2, Zenon DEF timerDidFire, acquireAccess, Goto, AfterAcquire, Rest
<1>3. CASE pc[Mutator] = "run" /\ releaseAccess
  BY <1>a, <1>3, Zenon DEF releaseAccess, Goto, Rest
<1>4. CASE callStopIfNecessary
  BY <1>a, <1>4, Zenon DEF callStopIfNecessary, Goto, Rest
<1>5. ASSUME NEW r \in Requests, NEW kind \in {"async", "asyncNow"}, collectAsync(kind, r)
      PROVE  WorldInv'
  BY <1>a, <1>5, Zenon DEF collectAsync, Goto, Rest
<1>6. ASSUME NEW r \in Requests, collectSync(r)
      PROVE  WorldInv'
  BY <1>a, <1>6, Zenon DEF collectSync, Goto, Rest
<1>7. CASE preventCollection
  BY <1>a, <1>7, Zenon DEF preventCollection, Goto
<1>8. CASE allowCollection
  BY <1>a, <1>8, Zenon DEF allowCollection
<1>9. CASE lastChanceToFinalize
  BY <1>a, <1>9, Zenon DEF lastChanceToFinalize, Goto
<1> QED
  BY <1>1, <1>2, <1>3, <1>4, <1>5, <1>6, <1>7, <1>8, <1>9, Zenon DEF MutatorCall

(* WorldInv holds in every state of the conn protocol.                      *)
THEOREM WorldInvariant == Spec => []WorldInv
<1>1. Init => WorldInv
  BY Zenon DEF Init, WorldInv, Resuming, At, worldShouldBeSuspended, Conductors, Mutator, Collector,
         Has
<1>2. TypeOK /\ OneConductor /\ StopInv /\ AccessInv /\ WorldInv /\ [Next]_vars => WorldInv'
  <2> SUFFICES ASSUME TypeOK, OneConductor, StopInv, AccessInv, WorldInv, [Next]_vars PROVE WorldInv'
    BY Zenon
  <2> USE DEF WorldInv, Resuming, At, worldShouldBeSuspended, Conductors, Mutator, Collector,
              Has, phaseVars, cycleVars, ticketVars, threadVars, callVars, continuousVars,
              faultVars
  <2>a. pc \in [Conductors -> MutatorPCs \cup CollectorPCs]
    BY Zenon DEF TypeOK
  <2>1. CASE AssertsHold(Mutator) /\ MutatorStep
    BY <2>1, WorldMutator, Zenon
  <2>2. CASE MutatorCall
    BY <2>2, WorldCall, Zenon
  <2>3. CASE AssertsHold(Collector) /\ CollectorStep
    BY <2>3, WorldCollector, Zenon
  <2>4. CASE continuousRequest
    BY <2>a, <2>4, Zenon DEF continuousRequest, Goto, Notified
  <2>5. CASE continuousPause
    BY <2>a, <2>5, Zenon DEF continuousPause
  <2>6. CASE stopForTimeout
    BY <2>a, <2>6, Zenon DEF stopForTimeout, Goto
  <2>7. CASE schedulerTick
    BY <2>a, <2>7, Zenon DEF schedulerTick
  <2>8. CASE crash
    BY <2>a, <2>8, Zenon DEF crash
  <2>9. CASE UNCHANGED vars
    BY <2>9, Zenon DEF vars
  <2>10. QED
    BY <2>1, <2>2, <2>3, <2>4, <2>5, <2>6, <2>7, <2>8, <2>9, Zenon DEF Next, ContinuousStep
<1>3. QED
  BY <1>1, <1>2, TypeCorrect, ConnIsExclusive, StopInvariant, AccessWhileRunning, PTL DEF Spec

-----------------------------------------------------------------------------
(* Waiting for the collector *)

(* A step of runCurrentPhase preserves WaitInv. *)
LEMMA WaitConductor ==
    ASSUME TypeOK, OneConductor, WaitInv, NEW c \in Conductors,
           PhaseAsserts(c), ConductorStep(c)
    PROVE  WaitInv'
<1> USE DEF WaitInv, WaitPCs, ShutdownPCs, WaitJobs, At, ConductorPCs, Conductors, Mutator,
            Collector, Has, phaseVars, cycleVars, ticketVars, threadVars, callVars,
            continuousVars, faultVars
<1>a. /\ pc \in [Conductors -> MutatorPCs \cup CollectorPCs]
      /\ ret \in [Conductors -> {"check", "dispatch"}]
      /\ pc[Mutator] # "finalizeParked"
      /\ finRet \in {"acquireFinalize", "stopSlow", "stopEnd", "wait", "release", "resume", "suspend"}
  BY Zenon DEF TypeOK, MutatorPCs, ConductorPCs
<1>1. CASE runCurrentPhase(c)
  BY <1>a, <1>1, Zenon DEF runCurrentPhase, Goto
<1>2. CASE runNotRunningPhase(c)
  BY <1>a, <1>2 DEF runNotRunningPhase, Goto, changePhase, Finished
<1>3. CASE runBeginPhase(c)
  BY <1>a, <1>3, Zenon DEF runBeginPhase, changePhase, ScopesFor, Goto
<1>4. CASE runFixpointPhase(c)
  BY <1>a, <1>4 DEF runFixpointPhase, changePhase, Goto
<1>5. CASE runConcurrentPhase(c)
  BY <1>a, <1>5 DEF runConcurrentPhase, Goto, changePhase, Finished
<1>6. CASE runReloopPhase(c)
  BY <1>a, <1>6, Zenon DEF runReloopPhase, changePhase, Goto
<1>7. CASE runEndPhase(c)
  BY <1>a, <1>7, Zenon DEF runEndPhase, Goto
<1>8. CASE serveTicket(c)
  BY <1>a, <1>8, Zenon DEF serveTicket, Goto
<1>9. CASE serveUnpark(c)
  BY <1>a, <1>9 DEF serveUnpark, unparkAllAndGoto, Unparked
<1>10. CASE setNeedFinalize(c)
  BY <1>a, <1>10, Zenon DEF setNeedFinalize, Goto
<1>11. CASE setNeedFinalizeUnpark(c)
  BY <1>a, <1>11 DEF setNeedFinalizeUnpark, unparkAllAndGoto, Unparked
<1>12. CASE setNeedFinalizeTimer(c)
  BY <1>a, <1>12, Zenon DEF setNeedFinalizeTimer, Goto
<1>13. CASE endChange(c)
  BY <1>a, <1>13, Zenon DEF endChange, changePhase, Goto
<1>14. CASE finishChangingPhase(c)
  BY <1>a, <1>14 DEF finishChangingPhase, Goto, worldShouldBeSuspended
<1>15. CASE setPhase(c)
  BY <1>a, <1>15, Zenon DEF setPhase, Goto
<1>16. CASE stopThePeriphery(c)
  BY <1>a, <1>16, Zenon DEF stopThePeriphery, Goto
<1> QED
  BY <1>1, <1>2, <1>3, <1>4, <1>5, <1>6, <1>7, <1>8, <1>9, <1>10, <1>11, <1>12, <1>13, <1>14,
     <1>15, <1>16, Zenon DEF ConductorStep

(* A step of the collector thread preserves WaitInv. *)
LEMMA WaitCollector ==
    ASSUME TypeOK, OneConductor, WaitInv, AssertsHold(Collector), CollectorStep
    PROVE  WaitInv'
<1> USE DEF WaitInv, WaitPCs, ShutdownPCs, WaitJobs, At, ConductorPCs, Conductors, Mutator,
            Collector, Has, phaseVars, cycleVars, ticketVars, threadVars, callVars,
            continuousVars, faultVars
<1>a. /\ pc \in [Conductors -> MutatorPCs \cup CollectorPCs]
      /\ ret \in [Conductors -> {"check", "dispatch"}]
      /\ pc[Mutator] # "finalizeParked"
      /\ finRet \in {"acquireFinalize", "stopSlow", "stopEnd", "wait", "release", "resume", "suspend"}
  BY Zenon DEF TypeOK, MutatorPCs, ConductorPCs
<1>1. CASE ConductorStep(Collector)
  BY <1>1, WaitConductor, Zenon DEF AssertsHold
<1>2. CASE resumeTheMutator
  BY <1>a, <1>2, Zenon DEF resumeTheMutator, Goto
<1>3. CASE resumeTheMutatorUnpark
  BY <1>a, <1>3 DEF resumeTheMutatorUnpark, unparkAllAndGoto, Unparked
<1>4. CASE waitWhileNeedFinalize
  BY <1>a, <1>4, Zenon DEF waitWhileNeedFinalize, Goto
<1>5. CASE stopTheMutator
  BY <1>a, <1>5 DEF stopTheMutator, Goto, Finished
<1>6. CASE stopTheMutatorHandoff
  BY <1>a, <1>6, Zenon DEF stopTheMutatorHandoff, Goto
<1>7. CASE stopTheMutatorUnpark
  BY <1>a, <1>7 DEF stopTheMutatorUnpark, unparkAllAndGoto, Finished, Unparked
<1>8. CASE poll
  BY <1>a, <1>8 DEF poll, Goto, unparkAllAndGoto, Unparked
<1> QED
  BY <1>1, <1>2, <1>3, <1>4, <1>5, <1>6, <1>7, <1>8, Zenon DEF CollectorStep

(* A step of a call of the mutator preserves WaitInv. *)
LEMMA WaitMutator ==
    ASSUME TypeOK, OneConductor, WaitInv, AssertsHold(Mutator), MutatorStep
    PROVE  WaitInv'
<1> USE DEF WaitInv, WaitPCs, ShutdownPCs, WaitJobs, At, ConductorPCs, Conductors, Mutator,
            Collector, Has, phaseVars, cycleVars, ticketVars, threadVars, callVars,
            continuousVars, faultVars
<1>a. /\ pc \in [Conductors -> MutatorPCs \cup CollectorPCs]
      /\ ret \in [Conductors -> {"check", "dispatch"}]
      /\ pc[Mutator] # "finalizeParked"
      /\ finRet \in {"acquireFinalize", "stopSlow", "stopEnd", "wait", "release", "resume", "suspend"}
  BY Zenon DEF TypeOK, MutatorPCs, ConductorPCs
<1>1. CASE ConductorStep(Mutator)
  BY <1>1, WaitConductor, Zenon DEF AssertsHold
<1>2. CASE handleNeedFinalizeLoop \/ handleNeedFinalize("waitLoad", "wait")
  BY <1>a, <1>2 DEF handleNeedFinalizeLoop, handleNeedFinalize, Goto
<1>3. CASE finalize
  BY <1>a, <1>3, Zenon DEF finalize, unparkAllAndGoto, Unparked
<1>4. CASE mutatorResumes
  BY <1>a, <1>4, Zenon DEF mutatorResumes, Goto
<1>5. CASE cancelTimer
  BY <1>a, <1>5, Zenon DEF cancelTimer, Goto, Rest
<1>6. CASE acquireAccessSlow
  BY <1>a, <1>6, Zenon DEF acquireAccessSlow, Goto, Rest
<1>7. CASE acquireAccessFinalized
  BY <1>a, <1>7, Zenon DEF acquireAccessFinalized, Goto, Rest
<1>8. CASE releaseAccessSlow
  BY <1>a, <1>8, Zenon DEF releaseAccessSlow, Goto, Rest
<1>9. CASE finishRelinquishingConn
  BY <1>a, <1>9, Zenon DEF finishRelinquishingConn, Unparked, Notified, Rest
<1>10. CASE stopIfNecessary
  BY <1>a, <1>10, Zenon DEF stopIfNecessary, Goto, AfterStop, Rest
<1>11. CASE stopIfNecessarySlow
  BY <1>a, <1>11, Zenon DEF stopIfNecessarySlow, Goto, Rest
<1>12. CASE stopIfNecessaryEnd
  BY <1>a, <1>12, Zenon DEF stopIfNecessaryEnd, Goto, AfterStop, Rest
<1>13. CASE requestCollection
  <2>1. ~raced' => ~raced
    BY <1>13, Zenon DEF requestCollection
  <2>2. /\ pc[Mutator] = "request" /\ pc'[Mutator] = "requestLocked" /\ UNCHANGED <<job, finRet>>
    BY <1>a, <1>13, Zenon DEF requestCollection, Goto
  <2>3. worldState' = worldState \/ worldState' = worldState \cup {"mutatorHasConn"}
    BY <1>13, Zenon DEF requestCollection
  <2>4. QED
    BY <2>1, <2>2, <2>3, Zenon
<1>14. CASE requestCollectionAppend
  BY <1>a, <1>14, Zenon DEF requestCollectionAppend, Notified
<1>15. CASE waitForCollector
  BY <1>a, <1>15, Zenon DEF waitForCollector, Goto, CollectorIsDone, Rest
<1>16. CASE waitForCollectorLoad
  BY <1>a, <1>16, Zenon DEF waitForCollectorLoad, Goto, Rest
<1>17. CASE relinquishConn
  BY <1>a, <1>17, Zenon DEF relinquishConn, Goto, Rest
<1>18. CASE waitForCollectorEnd
  BY <1>a, <1>18, Zenon DEF waitForCollectorEnd, Goto, Rest
<1>19. CASE joinContinuousThread
  BY <1>a, <1>19, Zenon DEF joinContinuousThread, Goto, Rest
<1>20. CASE checkIsCollecting
  BY <1>a, <1>20, Zenon DEF checkIsCollecting, Goto, Rest
<1>21. CASE stopThread
  BY <1>a, <1>21, Zenon DEF stopThread, Notified
<1>22. CASE join
  BY <1>a, <1>22, Zenon DEF join, Goto, Rest
<1>23. CASE pc[Mutator] = "unlock" /\ releaseAccess
  BY <1>a, <1>23, Zenon DEF releaseAccess, Goto, Rest
<1> QED
  BY <1>1, <1>2, <1>3, <1>4, <1>5, <1>6, <1>7, <1>8, <1>9, <1>10, <1>11, <1>12, <1>13, <1>14,
     <1>15, <1>16, <1>17, <1>18, <1>19, <1>20, <1>21, <1>22, <1>23, Zenon DEF MutatorStep

(* The beginning of a call preserves WaitInv. *)
LEMMA WaitCall ==
    ASSUME TypeOK, OneConductor, WaitInv, MutatorCall
    PROVE  WaitInv'
<1> USE DEF WaitInv, WaitPCs, ShutdownPCs, WaitJobs, At, ConductorPCs, Conductors, Mutator,
            Collector, Has, phaseVars, cycleVars, ticketVars, threadVars, callVars,
            continuousVars, faultVars
<1>a. /\ pc \in [Conductors -> MutatorPCs \cup CollectorPCs]
      /\ ret \in [Conductors -> {"check", "dispatch"}]
      /\ pc[Mutator] # "finalizeParked"
      /\ finRet \in {"acquireFinalize", "stopSlow", "stopEnd", "wait", "release", "resume", "suspend"}
  BY Zenon DEF TypeOK, MutatorPCs, ConductorPCs
<1>1. CASE acquireAccess("acquire")
  BY <1>a, <1>1, Zenon DEF acquireAccess, Goto, AfterAcquire, Rest
<1>2. CASE timerDidFire
  BY <1>a, <1>2, Zenon DEF timerDidFire, acquireAccess, Goto, AfterAcquire, Rest
<1>3. CASE pc[Mutator] = "run" /\ releaseAccess
  BY <1>a, <1>3, Zenon DEF releaseAccess, Goto, Rest
<1>4. CASE callStopIfNecessary
  BY <1>a, <1>4, Zenon DEF callStopIfNecessary, Goto, Rest
<1>5. ASSUME NEW r \in Requests, NEW kind \in {"async", "asyncNow"}, collectAsync(kind, r)
      PROVE  WaitInv'
  BY <1>a, <1>5, Zenon DEF collectAsync, Goto, Rest
<1>6. ASSUME NEW r \in Requests, collectSync(r)
      PROVE  WaitInv'
  BY <1>a, <1>6, Zenon DEF collectSync, Goto, Rest
<1>7. CASE preventCollection
  BY <1>a, <1>7, Zenon DEF preventCollection, Goto
<1>8. CASE allowCollection
  BY <1>a, <1>8, Zenon DEF allowCollection
<1>9. CASE lastChanceToFinalize
  BY <1>a, <1>9, Zenon DEF lastChanceToFinalize, Goto
<1> QED
  BY <1>1, <1>2, <1>3, <1>4, <1>5, <1>6, <1>7, <1>8, <1>9, Zenon DEF MutatorCall

(* WaitInv holds in every state of the conn protocol.                       *)
THEOREM WaitInvariant == Spec => []WaitInv
<1>1. Init => WaitInv
  BY Zenon DEF Init, WaitInv, WaitPCs, ShutdownPCs, WaitJobs, At, ConductorPCs, Conductors, Mutator,
         Collector, Has
<1>2. TypeOK /\ OneConductor /\ WaitInv /\ [Next]_vars => WaitInv'
  <2> SUFFICES ASSUME TypeOK, OneConductor, WaitInv, [Next]_vars PROVE WaitInv'
    BY Zenon
  <2> USE DEF WaitInv, WaitPCs, ShutdownPCs, WaitJobs, At, ConductorPCs, Conductors, Mutator,
              Collector, Has, phaseVars, cycleVars, ticketVars, threadVars, callVars,
              continuousVars, faultVars
  <2>a. pc \in [Conductors -> MutatorPCs \cup CollectorPCs]
    BY Zenon DEF TypeOK
  <2>1. CASE AssertsHold(Mutator) /\ MutatorStep
    BY <2>1, WaitMutator, Zenon
  <2>2. CASE MutatorCall
    BY <2>2, WaitCall, Zenon
  <2>3. CASE AssertsHold(Collector) /\ CollectorStep
    BY <2>3, WaitCollector, Zenon
  <2>4. CASE continuousRequest
    BY <2>a, <2>4, Zenon DEF continuousRequest, Goto, Notified
  <2>5. CASE continuousPause
    BY <2>a, <2>5, Zenon DEF continuousPause
  <2>6. CASE stopForTimeout
    BY <2>a, <2>6, Zenon DEF stopForTimeout, Goto
  <2>7. CASE schedulerTick
    BY <2>a, <2>7, Zenon DEF schedulerTick
  <2>8. CASE crash
    BY <2>a, <2>8, Zenon DEF crash
  <2>9. CASE UNCHANGED vars
    BY <2>9, Zenon DEF vars
  <2>10. QED
    BY <2>1, <2>2, <2>3, <2>4, <2>5, <2>6, <2>7, <2>8, <2>9, Zenon DEF Next, ContinuousStep
<1>3. QED
  BY <1>1, <1>2, TypeCorrect, ConnIsExclusive, PTL DEF Spec

-----------------------------------------------------------------------------
(* Shutting down *)

(* A step of runCurrentPhase preserves ShutdownInv. *)
LEMMA ShutdownConductor ==
    ASSUME TypeOK, OneConductor, ServesInv, CycleInv, WaitInv, ShutdownInv, NEW c \in Conductors,
           PhaseAsserts(c), ConductorStep(c)
    PROVE  ShutdownInv'
<1> USE DEF ShutdownInv, Quiet, WaitPCs, At, ConductorPCs, Conductors, Mutator, Collector, Has,
            phaseVars, cycleVars, ticketVars, threadVars, callVars, continuousVars, faultVars
<1>a. /\ pc \in [Conductors -> MutatorPCs \cup CollectorPCs]
      /\ ret \in [Conductors -> {"check", "dispatch"}]
      /\ pc[Mutator] # "finalizeParked"
      /\ finRet \in {"acquireFinalize", "stopSlow", "stopEnd", "wait", "release", "resume", "suspend"}
  BY Zenon DEF TypeOK, MutatorPCs, ConductorPCs
<1>1. CASE runCurrentPhase(c)
  BY <1>a, <1>1 DEF runCurrentPhase, Goto
<1>2. CASE runNotRunningPhase(c)
  BY <1>a, <1>2 DEF runNotRunningPhase, Goto, changePhase, Finished
<1>3. CASE runBeginPhase(c)
  BY <1>a, <1>3 DEF runBeginPhase, changePhase, ScopesFor, Goto
<1>4. CASE runFixpointPhase(c)
  BY <1>a, <1>4 DEF runFixpointPhase, changePhase, Goto
<1>5. CASE runConcurrentPhase(c)
  BY <1>a, <1>5, Zenon DEF runConcurrentPhase, Goto, changePhase, Finished
<1>6. CASE runReloopPhase(c)
  BY <1>a, <1>6 DEF runReloopPhase, changePhase, Goto
<1>7. CASE runEndPhase(c)
  BY <1>a, <1>7 DEF runEndPhase, Goto
<1>8. CASE serveTicket(c)
  <2>1. /\ pc[c] = "serve" /\ \A d \in Conductors : d # c => pc'[d] = pc[d]
        /\ pc'[c] = "serveUnpark" /\ requests # <<>>
        /\ UNCHANGED <<threadShouldStop, job, done, finRet, continuous, prevented, raced>>
    BY <1>a, <1>8, Zenon DEF serveTicket, Goto, PhaseAsserts
  <2>2. Len(requests) \in Nat /\ Len(requests) # 0
    BY <2>1 DEF TypeOK
  <2>3. ~raced => served # granted
    BY <2>2 DEF ServesInv, TypeOK
  <2>4. QED
    BY <2>1, <2>3, Zenon
<1>9. CASE serveUnpark(c)
  BY <1>a, <1>9 DEF serveUnpark, unparkAllAndGoto, Unparked
<1>10. CASE setNeedFinalize(c)
  BY <1>a, <1>10 DEF setNeedFinalize, Goto
<1>11. CASE setNeedFinalizeUnpark(c)
  BY <1>a, <1>11 DEF setNeedFinalizeUnpark, unparkAllAndGoto, Unparked
<1>12. CASE setNeedFinalizeTimer(c)
  BY <1>a, <1>12 DEF setNeedFinalizeTimer, Goto
<1>13. CASE endChange(c)
  BY <1>a, <1>13 DEF endChange, changePhase, Goto
<1>14. CASE finishChangingPhase(c)
  BY <1>a, <1>14 DEF finishChangingPhase, Goto, worldShouldBeSuspended
<1>15. CASE setPhase(c)
  BY <1>a, <1>15 DEF setPhase, Goto
<1>16. CASE stopThePeriphery(c)
  BY <1>a, <1>16 DEF stopThePeriphery, Goto
<1> QED
  BY <1>1, <1>2, <1>3, <1>4, <1>5, <1>6, <1>7, <1>8, <1>9, <1>10, <1>11, <1>12, <1>13, <1>14,
     <1>15, <1>16, Zenon DEF ConductorStep

(* A step of the collector thread preserves ShutdownInv. *)
LEMMA ShutdownCollector ==
    ASSUME TypeOK, OneConductor, ServesInv, CycleInv, WaitInv, ShutdownInv, AssertsHold(Collector), CollectorStep
    PROVE  ShutdownInv'
<1> USE DEF ShutdownInv, Quiet, WaitPCs, At, ConductorPCs, Conductors, Mutator, Collector, Has,
            phaseVars, cycleVars, ticketVars, threadVars, callVars, continuousVars, faultVars
<1>a. /\ pc \in [Conductors -> MutatorPCs \cup CollectorPCs]
      /\ ret \in [Conductors -> {"check", "dispatch"}]
      /\ pc[Mutator] # "finalizeParked"
      /\ finRet \in {"acquireFinalize", "stopSlow", "stopEnd", "wait", "release", "resume", "suspend"}
  BY Zenon DEF TypeOK, MutatorPCs, ConductorPCs
<1>1. CASE ConductorStep(Collector)
  BY <1>1, ShutdownConductor, Zenon DEF AssertsHold
<1>2. CASE resumeTheMutator
  BY <1>a, <1>2 DEF resumeTheMutator, Goto
<1>3. CASE resumeTheMutatorUnpark
  BY <1>a, <1>3 DEF resumeTheMutatorUnpark, unparkAllAndGoto, Unparked
<1>4. CASE waitWhileNeedFinalize
  BY <1>a, <1>4 DEF waitWhileNeedFinalize, Goto
<1>5. CASE stopTheMutator
  BY <1>a, <1>5 DEF stopTheMutator, Goto, Finished
<1>6. CASE stopTheMutatorHandoff
  BY <1>a, <1>6 DEF stopTheMutatorHandoff, Goto
<1>7. CASE stopTheMutatorUnpark
  BY <1>a, <1>7 DEF stopTheMutatorUnpark, unparkAllAndGoto, Finished, Unparked
<1>8. CASE poll
  BY <1>a, <1>8, Zenon DEF poll, Goto, unparkAllAndGoto, Unparked
<1> QED
  BY <1>1, <1>2, <1>3, <1>4, <1>5, <1>6, <1>7, <1>8, Zenon DEF CollectorStep

(* A step of a call of the mutator preserves ShutdownInv. *)
LEMMA ShutdownMutator ==
    ASSUME TypeOK, OneConductor, ServesInv, CycleInv, WaitInv, ShutdownInv, AssertsHold(Mutator), MutatorStep
    PROVE  ShutdownInv'
<1> USE DEF ShutdownInv, Quiet, WaitPCs, At, ConductorPCs, Conductors, Mutator, Collector, Has,
            phaseVars, cycleVars, ticketVars, threadVars, callVars, continuousVars, faultVars
<1>a. /\ pc \in [Conductors -> MutatorPCs \cup CollectorPCs]
      /\ ret \in [Conductors -> {"check", "dispatch"}]
      /\ pc[Mutator] # "finalizeParked"
      /\ finRet \in {"acquireFinalize", "stopSlow", "stopEnd", "wait", "release", "resume", "suspend"}
  BY Zenon DEF TypeOK, MutatorPCs, ConductorPCs
<1>1. CASE ConductorStep(Mutator)
  BY <1>1, ShutdownConductor, Zenon DEF AssertsHold
<1>2. CASE handleNeedFinalizeLoop \/ handleNeedFinalize("waitLoad", "wait")
  BY <1>a, <1>2 DEF handleNeedFinalizeLoop, handleNeedFinalize, Goto
<1>3. CASE finalize
  BY <1>a, <1>3, Zenon DEF finalize, unparkAllAndGoto, Unparked
<1>4. CASE mutatorResumes
  BY <1>a, <1>4, Zenon DEF mutatorResumes, Goto
<1>5. CASE cancelTimer
  BY <1>a, <1>5, Zenon DEF cancelTimer, Goto, Rest
<1>6. CASE acquireAccessSlow
  BY <1>a, <1>6, Zenon DEF acquireAccessSlow, Goto, Rest
<1>7. CASE acquireAccessFinalized
  BY <1>a, <1>7, Zenon DEF acquireAccessFinalized, Goto, Rest
<1>8. CASE releaseAccessSlow
  BY <1>a, <1>8, Zenon DEF releaseAccessSlow, Goto, Rest
<1>9. CASE finishRelinquishingConn
  BY <1>a, <1>9, Zenon DEF finishRelinquishingConn, Unparked, Notified, Rest
<1>10. CASE stopIfNecessary
  BY <1>a, <1>10, Zenon DEF stopIfNecessary, Goto, AfterStop, Rest
<1>11. CASE stopIfNecessarySlow
  <2>1. /\ pc[Mutator] = "stopSlow" /\ pc'[Mutator] \in {"check", "stopEnd"} /\ pc'[Collector] = pc[Collector]
        /\ UNCHANGED <<threadShouldStop, job, done, finRet, continuous, prevented, served, granted, raced>>
    BY <1>a, <1>11, Zenon DEF stopIfNecessarySlow, Goto, Rest
  <2>2. job \notin WaitJobs
    BY <2>1, Zenon DEF WaitInv, ShutdownPCs
  <2>3. QED
    BY <2>1, <2>2, Zenon DEF WaitJobs
<1>12. CASE stopIfNecessaryEnd
  BY <1>a, <1>12, Zenon DEF stopIfNecessaryEnd, Goto, AfterStop, Rest
<1>13. CASE requestCollection
  BY <1>a, <1>13, Zenon DEF requestCollection, Goto, CollectorConducts
<1>14. CASE requestCollectionAppend
  BY <1>a, <1>14, Zenon DEF requestCollectionAppend, Notified
<1>15. CASE waitForCollector
  BY <1>a, <1>15, Zenon DEF waitForCollector, Goto, CollectorIsDone, Rest
<1>16. CASE waitForCollectorLoad
  BY <1>a, <1>16, Zenon DEF waitForCollectorLoad, Goto, Rest
<1>17. CASE relinquishConn
  BY <1>a, <1>17, Zenon DEF relinquishConn, Goto, Rest
<1>18. CASE waitForCollectorEnd
  BY <1>a, <1>18, Zenon DEF waitForCollectorEnd, Goto, Rest
<1>19. CASE joinContinuousThread
  BY <1>a, <1>19, Zenon DEF joinContinuousThread, Goto, Rest
<1>20. CASE checkIsCollecting
  <2>1. /\ pc[Mutator] = "isCollecting" /\ pc'[Collector] = pc[Collector]
        /\ pc'[Mutator] = IF served < granted THEN "wait" ELSE "stopThread"
        /\ UNCHANGED <<threadShouldStop, job, done, finRet, continuous, prevented, served, granted, raced>>
    BY <1>a, <1>20, Zenon DEF checkIsCollecting, Goto, Rest
  <2>2. Len(requests) \in Nat
    BY DEF TypeOK
  <2>3. ~raced /\ ~(served < granted) => served = granted
    BY <2>2 DEF ServesInv, TypeOK
  <2>4. QED
    BY <2>1, <2>3, Zenon
<1>21. CASE stopThread
  BY <1>a, <1>21, Zenon DEF stopThread, Notified
<1>22. CASE join
  BY <1>a, <1>22, Zenon DEF join, Goto, Rest
<1>23. CASE pc[Mutator] = "unlock" /\ releaseAccess
  BY <1>a, <1>23, Zenon DEF releaseAccess, Goto, Rest
<1> QED
  BY <1>1, <1>2, <1>3, <1>4, <1>5, <1>6, <1>7, <1>8, <1>9, <1>10, <1>11, <1>12, <1>13, <1>14,
     <1>15, <1>16, <1>17, <1>18, <1>19, <1>20, <1>21, <1>22, <1>23, Zenon DEF MutatorStep

(* The beginning of a call preserves ShutdownInv. *)
LEMMA ShutdownCall ==
    ASSUME TypeOK, OneConductor, ServesInv, CycleInv, WaitInv, ShutdownInv, MutatorCall
    PROVE  ShutdownInv'
<1> USE DEF ShutdownInv, Quiet, WaitPCs, At, ConductorPCs, Conductors, Mutator, Collector, Has,
            phaseVars, cycleVars, ticketVars, threadVars, callVars, continuousVars, faultVars
<1>a. /\ pc \in [Conductors -> MutatorPCs \cup CollectorPCs]
      /\ ret \in [Conductors -> {"check", "dispatch"}]
      /\ pc[Mutator] # "finalizeParked"
      /\ finRet \in {"acquireFinalize", "stopSlow", "stopEnd", "wait", "release", "resume", "suspend"}
  BY Zenon DEF TypeOK, MutatorPCs, ConductorPCs
<1>1. CASE acquireAccess("acquire")
  BY <1>a, <1>1, Zenon DEF acquireAccess, Goto, AfterAcquire, Rest
<1>2. CASE timerDidFire
  BY <1>a, <1>2, Zenon DEF timerDidFire, acquireAccess, Goto, AfterAcquire, Rest
<1>3. CASE pc[Mutator] = "run" /\ releaseAccess
  BY <1>a, <1>3, Zenon DEF releaseAccess, Goto, Rest
<1>4. CASE callStopIfNecessary
  BY <1>a, <1>4, Zenon DEF callStopIfNecessary, Goto, Rest
<1>5. ASSUME NEW r \in Requests, NEW kind \in {"async", "asyncNow"}, collectAsync(kind, r)
      PROVE  ShutdownInv'
  BY <1>a, <1>5, Zenon DEF collectAsync, Goto, Rest
<1>6. ASSUME NEW r \in Requests, collectSync(r)
      PROVE  ShutdownInv'
  BY <1>a, <1>6, Zenon DEF collectSync, Goto, Rest
<1>7. CASE preventCollection
  BY <1>a, <1>7, Zenon DEF preventCollection, Goto
<1>8. CASE allowCollection
  <2>1. /\ pc[Mutator] = "run"
        /\ UNCHANGED <<pc, threadShouldStop, job, done, finRet, continuous, served, granted, raced>>
    BY <1>8, Zenon DEF allowCollection
  <2>2. job \notin WaitJobs
    BY <2>1, Zenon DEF WaitInv, ShutdownPCs
  <2>3. QED
    BY <2>1, <2>2, Zenon DEF WaitJobs
<1>9. CASE lastChanceToFinalize
  BY <1>a, <1>9, Zenon DEF lastChanceToFinalize, Goto
<1> QED
  BY <1>1, <1>2, <1>3, <1>4, <1>5, <1>6, <1>7, <1>8, <1>9, Zenon DEF MutatorCall

(* ShutdownInv holds in every state of the conn protocol.                   *)
THEOREM ShutdownInvariant == Spec => []ShutdownInv
<1>1. Init => ShutdownInv
  BY Zenon DEF Init, ShutdownInv, Quiet, WaitPCs, At, ConductorPCs, Conductors, Mutator, Collector,
         Has
<1>2. TypeOK /\ OneConductor /\ ServesInv /\ CycleInv /\ WaitInv /\ ShutdownInv /\ [Next]_vars => ShutdownInv'
  <2> SUFFICES ASSUME TypeOK, OneConductor, ServesInv, CycleInv, WaitInv, ShutdownInv, [Next]_vars PROVE ShutdownInv'
    BY Zenon
  <2> USE DEF ShutdownInv, Quiet, WaitPCs, At, ConductorPCs, Conductors, Mutator, Collector,
              Has, phaseVars, cycleVars, ticketVars, threadVars, callVars, continuousVars,
              faultVars
  <2>a. pc \in [Conductors -> MutatorPCs \cup CollectorPCs]
    BY Zenon DEF TypeOK
  <2>1. CASE AssertsHold(Mutator) /\ MutatorStep
    BY <2>1, ShutdownMutator, Zenon
  <2>2. CASE MutatorCall
    BY <2>2, ShutdownCall, Zenon
  <2>3. CASE AssertsHold(Collector) /\ CollectorStep
    BY <2>3, ShutdownCollector, Zenon
  <2>4. CASE continuousRequest
    <3>1. /\ continuous = "request" /\ continuous' = "pause" /\ pc'[Mutator] = pc[Mutator]
          /\ pc'[Collector] = "stopped" => pc[Collector] = "stopped"
          /\ UNCHANGED <<threadShouldStop, job, done, finRet, prevented, served, raced>>
      BY <2>a, <2>4, Zenon DEF continuousRequest, Goto, Notified
    <3>2. pc[Mutator] # "stopThread"
      BY <3>1, Zenon DEF WaitInv, ShutdownPCs
    <3>3. QED
      BY <3>1, <3>2
  <2>5. CASE continuousPause
    <3>1. /\ continuous = "pause" /\ continuous' \in {"done", "request"} /\ ~prevented
          /\ UNCHANGED <<pc, threadShouldStop, job, done, finRet, prevented, served, granted, raced>>
      BY <2>a, <2>5, Zenon DEF continuousPause
    <3>2. pc[Mutator] # "stopThread"
      BY <3>1, Zenon DEF WaitInv, ShutdownPCs
    <3>3. QED
      BY <3>1, <3>2, Zenon
  <2>6. CASE stopForTimeout
    BY <2>a, <2>6, Zenon DEF stopForTimeout, Goto
  <2>7. CASE schedulerTick
    BY <2>a, <2>7, Zenon DEF schedulerTick
  <2>8. CASE crash
    BY <2>a, <2>8, Zenon DEF crash
  <2>9. CASE UNCHANGED vars
    BY <2>9, Zenon DEF vars
  <2>10. QED
    BY <2>1, <2>2, <2>3, <2>4, <2>5, <2>6, <2>7, <2>8, <2>9, Zenon DEF Next, ContinuousStep
<1>3. QED
  BY <1>1, <1>2, TypeCorrect, ConnIsExclusive, TicketInvariant, CycleInvariant, WaitInvariant,
     PTL DEF Spec

-----------------------------------------------------------------------------
(* Wake-ups *)

(* A step of runCurrentPhase preserves ParkedMutatorIsExpected. *)
LEMMA ParkedConductor ==
    ASSUME TypeOK, OneConductor, ParkedMutatorIsExpected, NEW c \in Conductors,
           PhaseAsserts(c), ConductorStep(c)
    PROVE  ParkedMutatorIsExpected'
<1> USE DEF ParkedMutatorIsExpected, Conductors, Mutator, Collector, Has, phaseVars, cycleVars,
            ticketVars, threadVars, callVars, continuousVars, faultVars
<1>a. /\ pc \in [Conductors -> MutatorPCs \cup CollectorPCs]
      /\ ret \in [Conductors -> {"check", "dispatch"}]
      /\ pc[Mutator] # "finalizeParked"
      /\ finRet \in {"acquireFinalize", "stopSlow", "stopEnd", "wait", "release", "resume", "suspend"}
  BY Zenon DEF TypeOK, MutatorPCs, ConductorPCs
<1>1. CASE runCurrentPhase(c)
  BY <1>a, <1>1, Zenon DEF runCurrentPhase, Goto
<1>2. CASE runNotRunningPhase(c)
  BY <1>a, <1>2, Zenon DEF runNotRunningPhase, Goto, changePhase, Finished
<1>3. CASE runBeginPhase(c)
  BY <1>a, <1>3, Zenon DEF runBeginPhase, changePhase, ScopesFor, Goto
<1>4. CASE runFixpointPhase(c)
  BY <1>a, <1>4, Zenon DEF runFixpointPhase, changePhase, Goto
<1>5. CASE runConcurrentPhase(c)
  BY <1>a, <1>5, Zenon DEF runConcurrentPhase, Goto, changePhase, Finished
<1>6. CASE runReloopPhase(c)
  BY <1>a, <1>6, Zenon DEF runReloopPhase, changePhase, Goto
<1>7. CASE runEndPhase(c)
  BY <1>a, <1>7, Zenon DEF runEndPhase, Goto
<1>8. CASE serveTicket(c)
  BY <1>a, <1>8, Zenon DEF serveTicket, Goto
<1>9. CASE serveUnpark(c)
  BY <1>a, <1>9, Zenon DEF serveUnpark, unparkAllAndGoto, Unparked
<1>10. CASE setNeedFinalize(c)
  BY <1>a, <1>10, Zenon DEF setNeedFinalize, Goto
<1>11. CASE setNeedFinalizeUnpark(c)
  BY <1>a, <1>11, Zenon DEF setNeedFinalizeUnpark, unparkAllAndGoto, Unparked
<1>12. CASE setNeedFinalizeTimer(c)
  BY <1>a, <1>12, Zenon DEF setNeedFinalizeTimer, Goto
<1>13. CASE endChange(c)
  BY <1>a, <1>13, Zenon DEF endChange, changePhase, Goto
<1>14. CASE finishChangingPhase(c)
  BY <1>a, <1>14, Zenon DEF finishChangingPhase, Goto, worldShouldBeSuspended
<1>15. CASE setPhase(c)
  BY <1>a, <1>15, Zenon DEF setPhase, Goto
<1>16. CASE stopThePeriphery(c)
  BY <1>a, <1>16, Zenon DEF stopThePeriphery, Goto
<1> QED
  BY <1>1, <1>2, <1>3, <1>4, <1>5, <1>6, <1>7, <1>8, <1>9, <1>10, <1>11, <1>12, <1>13, <1>14,
     <1>15, <1>16, Zenon DEF ConductorStep

(* A step of the collector thread preserves ParkedMutatorIsExpected. *)
LEMMA ParkedCollector ==
    ASSUME TypeOK, OneConductor, ParkedMutatorIsExpected, AssertsHold(Collector), CollectorStep
    PROVE  ParkedMutatorIsExpected'
<1> USE DEF ParkedMutatorIsExpected, Conductors, Mutator, Collector, Has, phaseVars, cycleVars,
            ticketVars, threadVars, callVars, continuousVars, faultVars
<1>a. /\ pc \in [Conductors -> MutatorPCs \cup CollectorPCs]
      /\ ret \in [Conductors -> {"check", "dispatch"}]
      /\ pc[Mutator] # "finalizeParked"
      /\ finRet \in {"acquireFinalize", "stopSlow", "stopEnd", "wait", "release", "resume", "suspend"}
  BY Zenon DEF TypeOK, MutatorPCs, ConductorPCs
<1>1. CASE ConductorStep(Collector)
  BY <1>1, ParkedConductor, Zenon DEF AssertsHold
<1>2. CASE resumeTheMutator
  BY <1>a, <1>2, Zenon DEF resumeTheMutator, Goto
<1>3. CASE resumeTheMutatorUnpark
  BY <1>a, <1>3, Zenon DEF resumeTheMutatorUnpark, unparkAllAndGoto, Unparked
<1>4. CASE waitWhileNeedFinalize
  BY <1>a, <1>4, Zenon DEF waitWhileNeedFinalize, Goto
<1>5. CASE stopTheMutator
  BY <1>a, <1>5, Zenon DEF stopTheMutator, Goto, Finished
<1>6. CASE stopTheMutatorHandoff
  BY <1>a, <1>6, Zenon DEF stopTheMutatorHandoff, Goto
<1>7. CASE stopTheMutatorUnpark
  BY <1>a, <1>7, Zenon DEF stopTheMutatorUnpark, unparkAllAndGoto, Finished, Unparked
<1>8. CASE poll
  BY <1>a, <1>8, Zenon DEF poll, Goto, unparkAllAndGoto, Unparked
<1> QED
  BY <1>1, <1>2, <1>3, <1>4, <1>5, <1>6, <1>7, <1>8, Zenon DEF CollectorStep

(* A step of a call of the mutator preserves ParkedMutatorIsExpected. *)
LEMMA ParkedMutator ==
    ASSUME TypeOK, OneConductor, ParkedMutatorIsExpected, AssertsHold(Mutator), MutatorStep
    PROVE  ParkedMutatorIsExpected'
<1> USE DEF ParkedMutatorIsExpected, Conductors, Mutator, Collector, Has, phaseVars, cycleVars,
            ticketVars, threadVars, callVars, continuousVars, faultVars
<1>a. /\ pc \in [Conductors -> MutatorPCs \cup CollectorPCs]
      /\ ret \in [Conductors -> {"check", "dispatch"}]
      /\ pc[Mutator] # "finalizeParked"
      /\ finRet \in {"acquireFinalize", "stopSlow", "stopEnd", "wait", "release", "resume", "suspend"}
  BY Zenon DEF TypeOK, MutatorPCs, ConductorPCs
<1>1. CASE ConductorStep(Mutator)
  BY <1>1, ParkedConductor, Zenon DEF AssertsHold
<1>2. CASE handleNeedFinalizeLoop \/ handleNeedFinalize("waitLoad", "wait")
  BY <1>a, <1>2, Zenon DEF handleNeedFinalizeLoop, handleNeedFinalize, Goto
<1>3. CASE finalize
  BY <1>a, <1>3, Zenon DEF finalize, unparkAllAndGoto, Unparked
<1>4. CASE mutatorResumes
  BY <1>a, <1>4, Zenon DEF mutatorResumes, Goto
<1>5. CASE cancelTimer
  BY <1>a, <1>5, Zenon DEF cancelTimer, Goto, Rest
<1>6. CASE acquireAccessSlow
  BY <1>a, <1>6, Zenon DEF acquireAccessSlow, Goto, Rest
<1>7. CASE acquireAccessFinalized
  BY <1>a, <1>7, Zenon DEF acquireAccessFinalized, Goto, Rest
<1>8. CASE releaseAccessSlow
  BY <1>a, <1>8, Zenon DEF releaseAccessSlow, Goto, Rest
<1>9. CASE finishRelinquishingConn
  BY <1>a, <1>9, Zenon DEF finishRelinquishingConn, Unparked, Notified, Rest
<1>10. CASE stopIfNecessary
  BY <1>a, <1>10, Zenon DEF stopIfNecessary, Goto, AfterStop, Rest
<1>11. CASE stopIfNecessarySlow
  BY <1>a, <1>11, Zenon DEF stopIfNecessarySlow, Goto, Rest
<1>12. CASE stopIfNecessaryEnd
  BY <1>a, <1>12, Zenon DEF stopIfNecessaryEnd, Goto, AfterStop, Rest
<1>13. CASE requestCollection
  BY <1>a, <1>13, Zenon DEF requestCollection, Goto, CollectorConducts
<1>14. CASE requestCollectionAppend
  BY <1>a, <1>14, Zenon DEF requestCollectionAppend, Notified
<1>15. CASE waitForCollector
  BY <1>a, <1>15, Zenon DEF waitForCollector, Goto, CollectorIsDone, Rest
<1>16. CASE waitForCollectorLoad
  BY <1>a, <1>16, Zenon DEF waitForCollectorLoad, Goto, Rest
<1>17. CASE relinquishConn
  BY <1>a, <1>17, Zenon DEF relinquishConn, Goto, Rest
<1>18. CASE waitForCollectorEnd
  BY <1>a, <1>18, Zenon DEF waitForCollectorEnd, Goto, Rest
<1>19. CASE joinContinuousThread
  BY <1>a, <1>19, Zenon DEF joinContinuousThread, Goto, Rest
<1>20. CASE checkIsCollecting
  BY <1>a, <1>20, Zenon DEF checkIsCollecting, Goto, Rest
<1>21. CASE stopThread
  BY <1>a, <1>21, Zenon DEF stopThread, Notified
<1>22. CASE join
  BY <1>a, <1>22, Zenon DEF join, Goto, Rest
<1>23. CASE pc[Mutator] = "unlock" /\ releaseAccess
  BY <1>a, <1>23, Zenon DEF releaseAccess, Goto, Rest
<1> QED
  BY <1>1, <1>2, <1>3, <1>4, <1>5, <1>6, <1>7, <1>8, <1>9, <1>10, <1>11, <1>12, <1>13, <1>14,
     <1>15, <1>16, <1>17, <1>18, <1>19, <1>20, <1>21, <1>22, <1>23, Zenon DEF MutatorStep

(* The beginning of a call preserves ParkedMutatorIsExpected. *)
LEMMA ParkedCall ==
    ASSUME TypeOK, OneConductor, ParkedMutatorIsExpected, MutatorCall
    PROVE  ParkedMutatorIsExpected'
<1> USE DEF ParkedMutatorIsExpected, Conductors, Mutator, Collector, Has, phaseVars, cycleVars,
            ticketVars, threadVars, callVars, continuousVars, faultVars
<1>a. /\ pc \in [Conductors -> MutatorPCs \cup CollectorPCs]
      /\ ret \in [Conductors -> {"check", "dispatch"}]
      /\ pc[Mutator] # "finalizeParked"
      /\ finRet \in {"acquireFinalize", "stopSlow", "stopEnd", "wait", "release", "resume", "suspend"}
  BY Zenon DEF TypeOK, MutatorPCs, ConductorPCs
<1>1. CASE acquireAccess("acquire")
  BY <1>a, <1>1, Zenon DEF acquireAccess, Goto, AfterAcquire, Rest
<1>2. CASE timerDidFire
  BY <1>a, <1>2, Zenon DEF timerDidFire, acquireAccess, Goto, AfterAcquire, Rest
<1>3. CASE pc[Mutator] = "run" /\ releaseAccess
  BY <1>a, <1>3, Zenon DEF releaseAccess, Goto, Rest
<1>4. CASE callStopIfNecessary
  BY <1>a, <1>4, Zenon DEF callStopIfNecessary, Goto, Rest
<1>5. ASSUME NEW r \in Requests, NEW kind \in {"async", "asyncNow"}, collectAsync(kind, r)
      PROVE  ParkedMutatorIsExpected'
  BY <1>a, <1>5, Zenon DEF collectAsync, Goto, Rest
<1>6. ASSUME NEW r \in Requests, collectSync(r)
      PROVE  ParkedMutatorIsExpected'
  BY <1>a, <1>6, Zenon DEF collectSync, Goto, Rest
<1>7. CASE preventCollection
  BY <1>a, <1>7, Zenon DEF preventCollection, Goto
<1>8. CASE allowCollection
  BY <1>a, <1>8, Zenon DEF allowCollection
<1>9. CASE lastChanceToFinalize
  BY <1>a, <1>9, Zenon DEF lastChanceToFinalize, Goto
<1> QED
  BY <1>1, <1>2, <1>3, <1>4, <1>5, <1>6, <1>7, <1>8, <1>9, Zenon DEF MutatorCall

(* The mutator in waitForCollector never sleeps through its wake-up: while  *)
(* it is parked the waiting bit is set, which handoff and runEndPhase clear *)
(* before they unpark, or that unpark is about to come.                     *)
THEOREM WakeUpsArrive == Spec => []ParkedMutatorIsExpected
<1>1. Init => ParkedMutatorIsExpected
  BY Zenon DEF Init, ParkedMutatorIsExpected, Conductors, Mutator, Collector, Has
<1>2. TypeOK /\ OneConductor /\ ParkedMutatorIsExpected /\ [Next]_vars => ParkedMutatorIsExpected'
  <2> SUFFICES ASSUME TypeOK, OneConductor, ParkedMutatorIsExpected, [Next]_vars PROVE ParkedMutatorIsExpected'
    BY Zenon
  <2> USE DEF ParkedMutatorIsExpected, Conductors, Mutator, Collector, Has, phaseVars,
              cycleVars, ticketVars, threadVars, callVars, continuousVars, faultVars
  <2>a. pc \in [Conductors -> MutatorPCs \cup CollectorPCs]
    BY Zenon DEF TypeOK
  <2>1. CASE AssertsHold(Mutator) /\ MutatorStep
    BY <2>1, ParkedMutator, Zenon
  <2>2. CASE MutatorCall
    BY <2>2, ParkedCall, Zenon
  <2>3. CASE AssertsHold(Collector) /\ CollectorStep
    BY <2>3, ParkedCollector, Zenon
  <2>4. CASE continuousRequest
    BY <2>a, <2>4, Zenon DEF continuousRequest, Goto, Notified
  <2>5. CASE continuousPause
    BY <2>a, <2>5, Zenon DEF continuousPause
  <2>6. CASE stopForTimeout
    BY <2>a, <2>6, Zenon DEF stopForTimeout, Goto
  <2>7. CASE schedulerTick
    BY <2>a, <2>7, Zenon DEF schedulerTick
  <2>8. CASE crash
    BY <2>a, <2>8, Zenon DEF crash
  <2>9. CASE UNCHANGED vars
    BY <2>9, Zenon DEF vars
  <2>10. QED
    BY <2>1, <2>2, <2>3, <2>4, <2>5, <2>6, <2>7, <2>8, <2>9, Zenon DEF Next, ContinuousStep
<1>3. QED
  BY <1>1, <1>2, TypeCorrect, ConnIsExclusive, PTL DEF Spec

-----------------------------------------------------------------------------
(* Assertions *)

AllInv == /\ TypeOK /\ OneConductor /\ StopInv /\ ServesInv /\ AccessInv /\ PhaseInv /\ FinalizeInv
          /\ CycleInv /\ WorldInv /\ WaitInv /\ ShutdownInv

(* The invariants hold together. *)
LEMMA AllInvariant == Spec => []AllInv
  BY TypeCorrect, ConnIsExclusive, StopInvariant, TicketInvariant, AccessWhileRunning, PhaseOrder,
     FinalizeInvariant, CycleInvariant, WorldInvariant, WaitInvariant, ShutdownInvariant, PTL
     DEF AllInv

(* What runCurrentPhase and finishChangingPhase assert follows from the     *)
(* invariants, for either conductor.                                        *)
LEMMA PhaseAssertsHold ==
    ASSUME AllInv, ~raced, NEW c \in Conductors
    PROVE  PhaseAsserts(c)
<1> USE DEF AllInv, Conductors, Mutator, Collector, ConductorPCs
<1>1. pc[c] \in ConductorPCs => checkConn(c)
  BY Zenon DEF OneConductor, MutatorConducts, CollectorConducts, checkConn
<1>2. pc[c] = "dispatch" => nextPhase = currentPhase /\ ~Over
  <2>1. pc[c] = "dispatch" => \A d \in Conductors : d # c => pc[d] \notin ConductorPCs
    BY Zenon DEF OneConductor, MutatorConducts, CollectorConducts
  <2>2. QED
    BY <2>1, Zenon DEF CycleInv, Over, Ending
<1>3. pc[c] = "dispatch" /\ currentPhase = "Begin" =>
         requests # <<>> /\ collectionScope = "none" /\ schedulerState = "Normal"
  BY <1>2, Zenon DEF CycleInv
<1>4. pc[c] = "dispatch" /\ currentPhase \in {"Fixpoint", "Reloop", "End"} => schedulerState # "Normal"
  BY <1>2, Zenon DEF CycleInv
<1>5. pc[c] = "dispatch" /\ currentPhase = "End" => ConcurrentGC \/ schedulerState = "Stopped"
  BY <1>4, Zenon DEF CycleInv, TypeOK
<1>6. pc[c] = "serve" => requests # <<>>
  BY Zenon DEF CycleInv
<1>7. pc[c] = "finishChange" /\ worldShouldBeSuspended(currentPhase) => worldIsStopped
  <2>1. \A d \in Conductors : pc[c] = "finishChange" => ~At(d, Resuming)
    BY Zenon DEF OneConductor, MutatorConducts, CollectorConducts, At, Resuming, TypeOK
  <2>2. QED
    BY <2>1, Zenon DEF WorldInv
<1>8. pc[c] = "periphery" => ~worldIsStopped
  BY Zenon DEF StopInv, At
<1>9. QED
  BY <1>1, <1>3, <1>4, <1>5, <1>6, <1>7, <1>8, Zenon DEF PhaseAsserts

(* So does what stopTheMutator, resumeTheMutator and poll() assert.         *)
LEMMA CollectorAssertsHold ==
    ASSUME AllInv, ~raced
    PROVE  CollectorAsserts
<1> USE DEF AllInv
<1>1. /\ Has("stopped") => ~Has("hasAccess")
      /\ Has("mutatorHasConn") => Has("hasAccess")
      /\ Has("mutatorWaiting") => Has("hasAccess")
  BY Zenon DEF StopInv, WorldInv, WaitInv, AccessInv, At, WaitPCs, ConductorPCs, Mutator
<1>2. pc[Collector] \in {"resume", "stop"} => ~Has("mutatorHasConn")
  BY Zenon DEF OneConductor, CollectorConducts, ConductorPCs
<1>3. pc[Collector] = "resume" => Has("stopped")
  BY Zenon DEF WorldInv
<1>4. Has("stopped") => worldState \cap {"hasAccess", "mutatorWaiting", "mutatorHasConn"} = {}
  BY <1>1, Zenon DEF Has
<1>5. (requests = <<>>) = (served = granted) /\ served <= granted
  <2>1. Len(requests) \in Nat /\ (requests = <<>> <=> Len(requests) = 0)
    BY DEF TypeOK
  <2>2. (requests = <<>> <=> served = granted) /\ served <= granted
    BY <2>1 DEF ServesInv, TypeOK
  <2>3. QED
    BY <2>2, Zenon
<1>6. QED
  BY <1>1, <1>2, <1>3, <1>4, <1>5, Zenon DEF CollectorAsserts

(* The thread that is notified is running or can be started, unless the     *)
(* heap is already being destroyed.                                         *)
LEMMA NotifyAssertsHold ==
    ASSUME AllInv, ThreadsAvailable, pc[Mutator] \notin {"join", "dead"}
    PROVE  CanNotify
  BY Zenon DEF AllInv, ShutdownInv, CanNotify

(* So does what the mutator asserts, provided it can notify whom it has to. *)
(* preventCollection asserts that no collection is under way after its      *)
(* wait, which the collectContinuously thread does not respect: one of the  *)
(* two has to be absent.                                                    *)
LEMMA MutatorAssertsHold ==
    ASSUME AllInv, ~raced, ~CollectContinuously \/ "preventCollection" \notin Calls,
           \/ CanNotify
           \/ ~(pc[Mutator] = "requestLocked" /\ ~Has("mutatorHasConn"))
              /\ ~(pc[Mutator] \in {"releaseNotify", "relinquishNotify"} /\ requests # <<>>)
    PROVE  MutatorAsserts
<1> USE DEF AllInv
<1>1. pc[Mutator] \in {"stopSlow", "stopEnd", "waitLoad", "relinquish", "release", "resume",
                       "suspend", "acquireFinalize"} => AccessHeld
  BY Zenon DEF AccessInv, StopInv, AccessHeld
<1>2. pc[Mutator] = "acquire" => ~Has("hasAccess")
  BY Zenon DEF WorldInv
<1>3. served = granted => requests = <<>>
  <2>1. Len(requests) \in Nat /\ (requests = <<>> <=> Len(requests) = 0)
    BY DEF TypeOK
  <2>2. QED
    BY <2>1 DEF ServesInv, TypeOK
<1>4. pc[Mutator] = "waitEnd" /\ done /\ job = "prevent" => served = granted
  BY Zenon DEF ShutdownInv, Quiet, At, WaitPCs
<1>5. pc[Mutator] = "waitEnd" /\ done /\ job = "prevent" => collectionScope = "none"
  BY <1>3, <1>4, Zenon DEF ServesInv
<1>6. pc[Mutator] = "stopThread" => requests = <<>> /\ served = granted
  BY <1>3, Zenon DEF ShutdownInv
<1>7. QED
  BY <1>1, <1>2, <1>5, <1>6, Zenon DEF MutatorAsserts

(* The collectContinuously thread notifies a thread that has not stopped.   *)
LEMMA ContinuousAssertsHold ==
    ASSUME AllInv, ThreadsAvailable
    PROVE  ContinuousAsserts
<1> USE DEF AllInv
<1>1. pc[Mutator] \in {"join", "dead"} => continuous # "request"
  BY Zenon DEF WaitInv, ShutdownInv, ShutdownPCs, Quiet
<1>2. QED
  BY <1>1, NotifyAssertsHold, Zenon DEF ContinuousAsserts

(* No RELEASE_ASSERT of the protocol fails as long as requestCollection     *)
(* takes the conn only when the collector thread is not running, if threads *)
(* can be created and preventCollection and collectContinuously are not     *)
(* used together.                                                           *)
THEOREM AssertsFailOnlyByRace ==
    ASSUME ThreadsAvailable, ~CollectContinuously \/ "preventCollection" \notin Calls
    PROVE  Spec => []CrashOnlyByRace
<1>1. Init => CrashOnlyByRace
  BY Zenon DEF Init, CrashOnlyByRace
<1>2. AllInv /\ CrashOnlyByRace /\ [Next]_vars => CrashOnlyByRace'
  <2> SUFFICES ASSUME AllInv, CrashOnlyByRace, [Next]_vars PROVE CrashOnlyByRace'
    BY Zenon
  <2>1. CASE UNCHANGED vars
    BY <2>1, Zenon DEF vars, faultVars, CrashOnlyByRace
  <2>2. CASE ~(AssertsHold(Mutator) /\ AssertsHold(Collector) /\ ContinuousAsserts) /\ crash
    <3>1. ~raced => AssertsHold(Mutator) /\ AssertsHold(Collector) /\ ContinuousAsserts
      <4>1. CanNotify \/ pc[Mutator] \in {"join", "dead"}
        BY NotifyAssertsHold, Zenon
      <4>2. ~raced => MutatorAsserts
        BY <4>1, MutatorAssertsHold, Zenon
      <4>3. QED
        BY <4>2, PhaseAssertsHold, CollectorAssertsHold, ContinuousAssertsHold, Zenon
           DEF AssertsHold, Conductors, Mutator, Collector
    <3>2. raced' = raced
      BY <2>2, Zenon DEF crash
    <3>3. QED
      BY <2>2, <3>1, <3>2, Zenon DEF CrashOnlyByRace
  <2>3. CASE ~crashed /\ UNCHANGED crashed
    BY <2>3, Zenon DEF CrashOnlyByRace
  <2>4. ASSUME NEW c \in Conductors, ConductorStep(c) PROVE UNCHANGED crashed
    BY <2>4, Zenon DEF ConductorStep, runCurrentPhase, runNotRunningPhase, runBeginPhase,
       runFixpointPhase,
       runConcurrentPhase, runReloopPhase, runEndPhase, serveTicket, serveUnpark, setNeedFinalize,
       setNeedFinalizeUnpark, setNeedFinalizeTimer, endChange, finishChangingPhase, setPhase,
       stopThePeriphery, faultVars
  <2>5. CollectorStep \/ stopForTimeout \/ schedulerTick \/ ContinuousStep => UNCHANGED crashed
    BY <2>4, Zenon DEF CollectorStep, resumeTheMutator, resumeTheMutatorUnpark,
       waitWhileNeedFinalize,
       stopTheMutator, stopTheMutatorHandoff, stopTheMutatorUnpark, poll, stopForTimeout,
       schedulerTick,
       ContinuousStep, continuousRequest, continuousPause, faultVars, Conductors, Collector
  <2>6. MutatorStep => UNCHANGED crashed
    BY <2>4, Zenon DEF MutatorStep, handleNeedFinalizeLoop, handleNeedFinalize, finalize,
       mutatorResumes,
       cancelTimer, acquireAccessSlow, acquireAccessFinalized, releaseAccess, releaseAccessSlow,
       finishRelinquishingConn, stopIfNecessary, stopIfNecessarySlow, stopIfNecessaryEnd,
       requestCollection, requestCollectionAppend, waitForCollector, waitForCollectorLoad,
       relinquishConn,
       waitForCollectorEnd, joinContinuousThread, checkIsCollecting, stopThread, join, Rest,
       faultVars,
       Conductors, Mutator
  <2>7. MutatorCall => UNCHANGED crashed
    BY Zenon DEF MutatorCall, acquireAccess, timerDidFire, releaseAccess, callStopIfNecessary,
       collectAsync,
       collectSync, preventCollection, allowCollection, lastChanceToFinalize, Rest, faultVars
  <2>8. QED
    BY <2>1, <2>2, <2>3, <2>5, <2>6, <2>7, Zenon DEF Next
<1>3. QED
  BY <1>1, <1>2, AllInvariant, PTL DEF Spec

-----------------------------------------------------------------------------
(* The single-threaded heap *)

(* A step of runCurrentPhase preserves AloneInv. *)
LEMMA AloneConductor ==
    ASSUME SingleThreaded, AllInv, AloneInv, NEW c \in Conductors,
           PhaseAsserts(c), ConductorStep(c)
    PROVE  AloneInv'
<1> USE DEF AloneInv, Finishing, MutatorConducts, ConductorPCs, Conductors, Mutator, Collector,
            Has, phaseVars, cycleVars, ticketVars, threadVars, callVars, continuousVars,
            faultVars
<1>a. /\ pc \in [Conductors -> MutatorPCs \cup CollectorPCs]
      /\ ret \in [Conductors -> {"check", "dispatch"}]
      /\ pc[Mutator] # "finalizeParked"
      /\ finRet \in {"acquireFinalize", "stopSlow", "stopEnd", "wait", "release", "resume", "suspend"}
  BY Zenon DEF AllInv, TypeOK, MutatorPCs
<1>1. CASE runCurrentPhase(c)
  BY <1>a, <1>1, Zenon DEF runCurrentPhase, Goto
<1>2. CASE runNotRunningPhase(c)
  <2>1. /\ pc[c] = "dispatch" /\ currentPhase = "NotRunning" /\ \A d \in Conductors : d # c => pc'[d] = pc[d]
        /\ \/ pc'[c] \in {"poll", "relinquish", "stopEnd"} /\ UNCHANGED nextPhase /\ requests = <<>>
           \/ pc'[c] = "finishChange" /\ nextPhase' = "Begin"
        /\ UNCHANGED <<currentPhase, worldState, requests, raced, crashed, continuous, job, finRet>>
    BY <1>a, <1>2, Zenon DEF runNotRunningPhase, Goto, changePhase, Finished
  <2>2. c = Mutator
    BY <2>1, Zenon
  <2>3. nextPhase = currentPhase
    BY <2>1, Zenon DEF AllInv, CycleInv
  <2>4. QED
    BY <2>1, <2>2, <2>3, Zenon
<1>3. CASE runBeginPhase(c)
  BY <1>a, <1>3, Zenon DEF runBeginPhase, changePhase, ScopesFor, Goto
<1>4. CASE runFixpointPhase(c)
  <2>1. /\ pc[c] = "dispatch" /\ currentPhase = "Fixpoint" /\ \A d \in Conductors : d # c => pc'[d] = pc[d]
        /\ pc'[c] = "finishChange" /\ nextPhase' = "End"
        /\ UNCHANGED <<currentPhase, worldState, requests, raced, crashed, continuous, job, finRet>>
    BY <1>a, <1>4, Zenon DEF runFixpointPhase, Goto, changePhase, SingleThreaded
  <2>2. c = Mutator
    BY <2>1, Zenon
  <2>3. QED
    BY <2>1, <2>2, Zenon
<1>5. CASE runConcurrentPhase(c)
  BY <1>a, <1>5, Zenon DEF runConcurrentPhase, Goto, changePhase, Finished
<1>6. CASE runReloopPhase(c)
  BY <1>a, <1>6, Zenon DEF runReloopPhase, changePhase, Goto
<1>7. CASE runEndPhase(c)
  BY <1>a, <1>7, Zenon DEF runEndPhase, Goto
<1>8. CASE serveTicket(c)
  BY <1>a, <1>8, Zenon DEF serveTicket, Goto
<1>9. CASE serveUnpark(c)
  BY <1>a, <1>9, Zenon DEF serveUnpark, unparkAllAndGoto, Unparked
<1>10. CASE setNeedFinalize(c)
  <2>1. /\ pc[c] = "needFinalize" /\ \A d \in Conductors : d # c => pc'[d] = pc[d]
        /\ pc'[c] = "needFinalizeUnpark" /\ worldState' = worldState \cup {"needFinalize"}
        /\ UNCHANGED <<currentPhase, nextPhase, requests, raced, crashed, continuous, job, finRet>>
    BY <1>a, <1>10, Zenon DEF setNeedFinalize, Goto
  <2>2. c = Mutator
    BY <2>1, Zenon
  <2>3. currentPhase = "End"
    BY <2>1, Zenon DEF AllInv, PhaseInv, Ending
  <2>4. QED
    BY <2>1, <2>2, <2>3, Zenon
<1>11. CASE setNeedFinalizeUnpark(c)
  BY <1>a, <1>11, Zenon DEF setNeedFinalizeUnpark, unparkAllAndGoto, Unparked
<1>12. CASE setNeedFinalizeTimer(c)
  BY <1>a, <1>12, Zenon DEF setNeedFinalizeTimer, Goto
<1>13. CASE endChange(c)
  BY <1>a, <1>13, Zenon DEF endChange, changePhase, Goto
<1>14. CASE finishChangingPhase(c)
  BY <1>a, <1>14, Zenon DEF finishChangingPhase, Goto, worldShouldBeSuspended
<1>15. CASE setPhase(c)
  BY <1>a, <1>15, Zenon DEF setPhase, Goto
<1>16. CASE stopThePeriphery(c)
  BY <1>a, <1>16, Zenon DEF stopThePeriphery, Goto
<1> QED
  BY <1>1, <1>2, <1>3, <1>4, <1>5, <1>6, <1>7, <1>8, <1>9, <1>10, <1>11, <1>12, <1>13, <1>14,
     <1>15, <1>16, Zenon DEF ConductorStep

(* The collector thread takes no step. *)
LEMMA AloneCollector ==
    ASSUME AloneInv, CollectorStep
    PROVE  FALSE
  BY Zenon DEF AloneInv, CollectorStep, ConductorStep, runCurrentPhase, runNotRunningPhase,
     runBeginPhase,
     runFixpointPhase, runConcurrentPhase, runReloopPhase, runEndPhase, serveTicket, serveUnpark,
     setNeedFinalize, setNeedFinalizeUnpark, setNeedFinalizeTimer, endChange, finishChangingPhase,
     setPhase,
     stopThePeriphery, resumeTheMutator, resumeTheMutatorUnpark, waitWhileNeedFinalize,
     stopTheMutator,
     stopTheMutatorHandoff, stopTheMutatorUnpark, poll

(* No assertion fails in a single-threaded heap.                            *)
LEMMA AloneAssertsHold ==
    ASSUME SingleThreaded, AllInv, AloneInv
    PROVE  AssertsHold(Mutator) /\ AssertsHold(Collector) /\ ContinuousAsserts
<1>1. ~raced /\ ~CollectContinuously
  BY Zenon DEF SingleThreaded, AloneInv
<1>2. MutatorAsserts
  BY <1>1, MutatorAssertsHold, Zenon DEF AloneInv, MutatorConducts, ConductorPCs
<1>3. QED
  BY <1>1, <1>2, PhaseAssertsHold, CollectorAssertsHold, Zenon
     DEF AloneInv, AssertsHold, Conductors, Mutator, Collector, ContinuousAsserts

(* A step of a call of the mutator preserves AloneInv. *)
LEMMA AloneMutator ==
    ASSUME SingleThreaded, AllInv, AloneInv, AssertsHold(Mutator), MutatorStep
    PROVE  AloneInv'
<1> USE DEF AloneInv, Finishing, MutatorConducts, ConductorPCs, Conductors, Mutator, Collector,
            Has, phaseVars, cycleVars, ticketVars, threadVars, callVars, continuousVars,
            faultVars
<1>a. /\ pc \in [Conductors -> MutatorPCs \cup CollectorPCs]
      /\ ret \in [Conductors -> {"check", "dispatch"}]
      /\ pc[Mutator] # "finalizeParked"
      /\ finRet \in {"acquireFinalize", "stopSlow", "stopEnd", "wait", "release", "resume", "suspend"}
  BY Zenon DEF AllInv, TypeOK, MutatorPCs
<1>1. CASE ConductorStep(Mutator)
  BY <1>1, AloneConductor, Zenon DEF AssertsHold
<1>2. CASE handleNeedFinalizeLoop \/ handleNeedFinalize("waitLoad", "wait")
  <2>1. pc[Mutator] = "resume" /\ handleNeedFinalize("resume", "resume")
    BY <1>2, Zenon DEF handleNeedFinalizeLoop, handleNeedFinalize
  <2>2. /\ worldState' = worldState \ {"needFinalize"} /\ finRet' = "resume"
        /\ UNCHANGED <<currentPhase, nextPhase, requests, raced, crashed, continuous, job>>
    BY <2>1, Zenon DEF handleNeedFinalize
  <2>3. pc'[Mutator] = "finalize" /\ pc'[Collector] = pc[Collector]
    BY <1>a, <2>1, Zenon DEF handleNeedFinalize, Goto
  <2>4. QED
    BY <2>1, <2>2, <2>3, Zenon
<1>3. CASE finalize
  BY <1>a, <1>3, Zenon DEF finalize, unparkAllAndGoto, Unparked
<1>4. CASE mutatorResumes
  BY <1>a, <1>4, Zenon DEF mutatorResumes, Goto
<1>5. CASE cancelTimer
  BY <1>a, <1>5, Zenon DEF cancelTimer, Goto, Rest
<1>6. CASE acquireAccessSlow
  BY <1>a, <1>6, Zenon DEF acquireAccessSlow, Goto, Rest
<1>7. CASE acquireAccessFinalized
  BY <1>a, <1>7, Zenon DEF acquireAccessFinalized, Goto, Rest
<1>8. CASE releaseAccessSlow
  BY <1>a, <1>8, Zenon DEF releaseAccessSlow, Goto, Rest
<1>9. CASE finishRelinquishingConn
  BY <1>a, <1>9, Zenon DEF finishRelinquishingConn, Unparked, Notified, Rest
<1>10. CASE stopIfNecessary
  BY <1>a, <1>10 DEF stopIfNecessary, Goto, AfterStop, Rest
<1>11. CASE stopIfNecessarySlow
  BY <1>a, <1>11, Zenon DEF stopIfNecessarySlow, Goto, Rest
<1>12. CASE stopIfNecessaryEnd
  BY <1>a, <1>12, Zenon DEF stopIfNecessaryEnd, Goto, AfterStop, Rest
<1>13. CASE requestCollection
  <2>1. requests = <<>> /\ currentPhase = "NotRunning" /\ ~CollectorConducts
    BY <1>13, Zenon DEF requestCollection, CollectorConducts
  <2>2. served = granted
    <3>1. Len(requests) = 0
      BY <2>1, Zenon
    <3>2. granted = served + Len(requests)
      BY Zenon DEF AllInv, ServesInv
    <3>3. granted \in Nat /\ served \in Nat
      BY Zenon DEF AllInv, TypeOK
    <3>4. QED
      BY <3>1, <3>2, <3>3
  <2>3. worldState' = worldState \cup {"mutatorHasConn"}
    BY <2>1, <2>2, <1>13, Zenon DEF requestCollection
  <2>4. ~raced'
    BY <2>1, <1>13, Zenon DEF requestCollection
  <2>5. /\ pc[Mutator] = "request" /\ pc'[Mutator] = "requestLocked" /\ pc'[Collector] = pc[Collector]
        /\ UNCHANGED <<currentPhase, nextPhase, requests, crashed, continuous, job, finRet>>
    BY <1>a, <1>13, Zenon DEF requestCollection, Goto
  <2>6. QED
    BY <2>1, <2>3, <2>4, <2>5, Zenon
<1>14. CASE requestCollectionAppend
  <2>1. /\ pc[Mutator] = "requestLocked" /\ pc'[Collector] = pc[Collector]
        /\ pc'[Mutator] \in {"wait", "stopFast"} /\ job' \in {"wait", "poll"}
        /\ UNCHANGED <<worldState, currentPhase, nextPhase, raced, crashed, continuous, finRet>>
    BY <1>a, <1>14, Zenon DEF requestCollectionAppend
  <2>2. QED
    BY <2>1, Zenon
<1>15. CASE waitForCollector
  BY <1>a, <1>15, Zenon DEF waitForCollector, Goto, CollectorIsDone, Rest
<1>16. CASE waitForCollectorLoad
  BY <1>a, <1>16, Zenon DEF waitForCollectorLoad, Goto, Rest
<1>17. CASE relinquishConn
  BY <1>a, <1>17, Zenon DEF relinquishConn, Goto, Rest
<1>18. CASE waitForCollectorEnd
  BY <1>a, <1>18, Zenon DEF waitForCollectorEnd, Goto, Rest
<1>19. CASE joinContinuousThread
  BY <1>a, <1>19, Zenon DEF joinContinuousThread, Goto, Rest
<1>20. CASE checkIsCollecting
  BY <1>a, <1>20, Zenon DEF checkIsCollecting, Goto, Rest
<1>21. CASE stopThread
  BY <1>a, <1>21, Zenon DEF stopThread, Notified
<1>22. CASE join
  BY <1>a, <1>22, Zenon DEF join, Goto, Rest
<1>23. CASE pc[Mutator] = "unlock" /\ releaseAccess
  BY <1>a, <1>23, Zenon DEF releaseAccess, Goto, Rest
<1> QED
  BY <1>1, <1>2, <1>3, <1>4, <1>5, <1>6, <1>7, <1>8, <1>9, <1>10, <1>11, <1>12, <1>13, <1>14,
     <1>15, <1>16, <1>17, <1>18, <1>19, <1>20, <1>21, <1>22, <1>23, Zenon DEF MutatorStep

(* The beginning of a call preserves AloneInv. *)
LEMMA AloneCall ==
    ASSUME SingleThreaded, AllInv, AloneInv, MutatorCall
    PROVE  AloneInv'
<1> USE DEF AloneInv, Finishing, MutatorConducts, ConductorPCs, Conductors, Mutator, Collector,
            Has, phaseVars, cycleVars, ticketVars, threadVars, callVars, continuousVars,
            faultVars
<1>a. /\ pc \in [Conductors -> MutatorPCs \cup CollectorPCs]
      /\ ret \in [Conductors -> {"check", "dispatch"}]
      /\ pc[Mutator] # "finalizeParked"
      /\ finRet \in {"acquireFinalize", "stopSlow", "stopEnd", "wait", "release", "resume", "suspend"}
  BY Zenon DEF AllInv, TypeOK, MutatorPCs
<1>1. CASE acquireAccess("acquire")
  BY <1>a, <1>1, Zenon DEF acquireAccess, Goto, AfterAcquire, Rest
<1>2. CASE timerDidFire
  BY <1>a, <1>2, Zenon DEF timerDidFire, acquireAccess, Goto, AfterAcquire, Rest
<1>3. CASE pc[Mutator] = "run" /\ releaseAccess
  BY <1>a, <1>3, Zenon DEF releaseAccess, Goto, Rest
<1>4. CASE callStopIfNecessary
  BY <1>a, <1>4, Zenon DEF callStopIfNecessary, Goto, Rest
<1>5. ASSUME NEW r \in Requests, NEW kind \in {"async", "asyncNow"}, collectAsync(kind, r)
      PROVE  AloneInv'
  BY <1>a, <1>5, Zenon DEF collectAsync, Goto, Rest, SingleThreaded
<1>6. ASSUME NEW r \in Requests, collectSync(r)
      PROVE  AloneInv'
  BY <1>a, <1>6, Zenon DEF collectSync, Goto, Rest
<1>7. CASE preventCollection
  BY <1>a, <1>7, Zenon DEF preventCollection, Goto
<1>8. CASE allowCollection
  BY <1>a, <1>8, Zenon DEF allowCollection
<1>9. CASE lastChanceToFinalize
  BY <1>a, <1>9, Zenon DEF lastChanceToFinalize, Goto
<1> QED
  BY <1>1, <1>2, <1>3, <1>4, <1>5, <1>6, <1>7, <1>8, <1>9, Zenon DEF MutatorCall

(* AloneInv holds in every state of a single-threaded heap.                 *)
THEOREM AloneInvariant == ASSUME SingleThreaded PROVE Spec => []AloneInv
<1>1. Init => AloneInv
  BY Zenon DEF SingleThreaded, Init, AloneInv, Finishing, MutatorConducts, ConductorPCs,
     Conductors, Mutator,
         Collector, Has
<1>2. AllInv /\ AloneInv /\ [Next]_vars => AloneInv'
  <2> SUFFICES ASSUME AllInv, AloneInv, [Next]_vars PROVE AloneInv'
    BY Zenon
  <2> USE DEF AloneInv, Finishing, MutatorConducts, ConductorPCs, Conductors, Mutator,
              Collector, Has, phaseVars, cycleVars, ticketVars, threadVars, callVars,
              continuousVars, faultVars
  <2>a. TypeOK /\ pc \in [Conductors -> MutatorPCs \cup CollectorPCs]
    BY Zenon DEF AllInv, TypeOK
  <2>1. CASE AssertsHold(Mutator) /\ MutatorStep
    BY <2>a, <2>1, AloneMutator, Zenon
  <2>2. CASE MutatorCall
    BY <2>a, <2>2, AloneCall, Zenon
  <2>3. CASE AssertsHold(Collector) /\ CollectorStep
    BY <2>3, AloneCollector, Zenon
  <2>4. CASE continuousRequest
    BY <2>a, <2>4, Zenon DEF continuousRequest, Goto, Notified
  <2>5. CASE continuousPause
    BY <2>a, <2>5, Zenon DEF continuousPause
  <2>6. CASE stopForTimeout
    BY <2>a, <2>6, Zenon DEF stopForTimeout, Goto
  <2>7. CASE schedulerTick
    BY <2>a, <2>7, Zenon DEF schedulerTick
  <2>8. CASE ~(AssertsHold(Mutator) /\ AssertsHold(Collector) /\ ContinuousAsserts) /\ crash
    BY <2>8, AloneAssertsHold, Zenon
  <2>9. CASE UNCHANGED vars
    BY <2>9, Zenon DEF vars
  <2>10. QED
    BY <2>1, <2>2, <2>3, <2>4, <2>5, <2>6, <2>7, <2>8, <2>9, Zenon DEF Next, ContinuousStep
<1>3. QED
  BY <1>1, <1>2, AllInvariant, PTL DEF Spec

(* In a build that collects on the calling thread the mutator never needs   *)
(* the collector thread, no assertion fails, and a requested collection,    *)
(* finalizers included, is over when the requesting call returns.           *)
THEOREM MutatorCollectsAlone == ASSUME SingleThreaded PROVE Spec => []CollectsAlone
<1>1. AllInv /\ AloneInv => CollectsAlone
  <2> SUFFICES ASSUME AllInv, AloneInv PROVE CollectsAlone
    BY Zenon
  <2>1. Len(requests) \in Nat /\ (requests = <<>> <=> Len(requests) = 0)
    BY DEF AllInv, TypeOK
  <2>2. requests = <<>> => served = granted
    BY <2>1 DEF AllInv, AloneInv, ServesInv, TypeOK
  <2>3. QED
    BY <2>2, Zenon DEF AloneInv, CollectsAlone, Finishing, MutatorConducts, ConductorPCs
<1>2. QED
  BY <1>1, AllInvariant, AloneInvariant, PTL

-----------------------------------------------------------------------------
(* The invariants the refinement needs *)

\* The finalizers of a collection are due before the world resumes after it.
DueInv ==
    ~raced /\ worldIsStopped /\ currentPhase = "End" /\
    (nextPhase = "NotRunning" \/ \E c \in Conductors : pc[c] \in Finishing) => Has("needFinalize")

\* waitForCollection returns only when its ticket is served.
ReturnInv ==
    done /\ job = "wait" /\ At(Mutator, (WaitPCs \ {"wait", "waitParked"}) \cup ConductorPCs) =>
        served >= goal

-----------------------------------------------------------------------------
(* Finalizers become due in time *)

(* A step of runCurrentPhase preserves DueInv. *)
LEMMA DueConductor ==
    ASSUME AllInv, DueInv, NEW c \in Conductors,
           PhaseAsserts(c), ConductorStep(c)
    PROVE  DueInv'
<1> USE DEF DueInv, Finishing, Conductors, Mutator, Collector, Has, phaseVars, cycleVars,
            ticketVars, threadVars, callVars, continuousVars, faultVars
<1>a. /\ pc \in [Conductors -> MutatorPCs \cup CollectorPCs]
      /\ ret \in [Conductors -> {"check", "dispatch"}]
      /\ pc[Mutator] # "finalizeParked"
      /\ finRet \in {"acquireFinalize", "stopSlow", "stopEnd", "wait", "release", "resume", "suspend"}
  BY Zenon DEF AllInv, TypeOK, MutatorPCs, ConductorPCs
<1>b. ~raced /\ pc[c] \in ConductorPCs => \A d \in Conductors : d # c => pc[d] \notin ConductorPCs
  BY DEF AllInv, OneConductor, MutatorConducts, CollectorConducts
<1>1. CASE runCurrentPhase(c)
  BY <1>a, <1>1, Zenon DEF runCurrentPhase, Goto
<1>2. CASE runNotRunningPhase(c)
  BY <1>a, <1>2, Zenon DEF runNotRunningPhase, Goto, changePhase, Finished
<1>3. CASE runBeginPhase(c)
  BY <1>a, <1>3, Zenon DEF runBeginPhase, changePhase, ScopesFor, Goto
<1>4. CASE runFixpointPhase(c)
  BY <1>a, <1>4, Zenon DEF runFixpointPhase, changePhase, Goto
<1>5. CASE runConcurrentPhase(c)
  BY <1>a, <1>5, Zenon DEF runConcurrentPhase, Goto, changePhase, Finished
<1>6. CASE runReloopPhase(c)
  BY <1>a, <1>6, Zenon DEF runReloopPhase, changePhase, Goto
<1>7. CASE runEndPhase(c)
  BY <1>a, <1>7, Zenon DEF runEndPhase, Goto
<1>8. CASE serveTicket(c)
  BY <1>a, <1>8, Zenon DEF serveTicket, Goto
<1>9. CASE serveUnpark(c)
  BY <1>a, <1>9, Zenon DEF serveUnpark, unparkAllAndGoto, Unparked
<1>10. CASE setNeedFinalize(c)
  BY <1>a, <1>10, Zenon DEF setNeedFinalize, Goto
<1>11. CASE setNeedFinalizeUnpark(c)
  BY <1>a, <1>11, Zenon DEF setNeedFinalizeUnpark, unparkAllAndGoto, Unparked
<1>12. CASE setNeedFinalizeTimer(c)
  BY <1>a, <1>12, Zenon DEF setNeedFinalizeTimer, Goto
<1>13. CASE endChange(c)
  BY <1>a, <1>13, Zenon DEF endChange, changePhase, Goto
<1>14. CASE finishChangingPhase(c)
  <2>1. /\ pc[c] = "finishChange" /\ \A d \in Conductors : d # c => pc'[d] = pc[d]
        /\ \/ currentPhase' = nextPhase /\ pc'[c] \in {"check", "dispatch"}
           \/ ~worldIsStopped'
           \/ currentPhase' # "End"
        /\ UNCHANGED <<nextPhase, worldState, raced>>
    BY <1>a, <1>14, Zenon DEF finishChangingPhase, Goto, worldShouldBeSuspended
  <2>2. QED
    BY <1>b, <2>1, Zenon DEF ConductorPCs
<1>15. CASE setPhase(c)
  <2>1. ~raced => ~worldIsStopped
    BY <1>15, Zenon DEF setPhase, AllInv, StopInv, At
  <2>2. UNCHANGED <<worldIsStopped, raced>>
    BY <1>15, Zenon DEF setPhase
  <2>3. QED
    BY <2>1, <2>2, Zenon
<1>16. CASE stopThePeriphery(c)
  <2>1. ~raced => currentPhase' # "End"
    BY <1>16, Zenon DEF stopThePeriphery, AllInv, StopInv, PhaseInv, NextPhases, At,
       worldShouldBeSuspended, TypeOK, Phases
  <2>2. UNCHANGED raced
    BY <1>16, Zenon DEF stopThePeriphery
  <2>3. QED
    BY <2>1, <2>2, Zenon
<1> QED
  BY <1>1, <1>2, <1>3, <1>4, <1>5, <1>6, <1>7, <1>8, <1>9, <1>10, <1>11, <1>12, <1>13, <1>14,
     <1>15, <1>16, Zenon DEF ConductorStep

(* A step of the collector thread preserves DueInv. *)
LEMMA DueCollector ==
    ASSUME AllInv, DueInv, AssertsHold(Collector), CollectorStep
    PROVE  DueInv'
<1> USE DEF DueInv, Finishing, Conductors, Mutator, Collector, Has, phaseVars, cycleVars,
            ticketVars, threadVars, callVars, continuousVars, faultVars
<1>a. /\ pc \in [Conductors -> MutatorPCs \cup CollectorPCs]
      /\ ret \in [Conductors -> {"check", "dispatch"}]
      /\ pc[Mutator] # "finalizeParked"
      /\ finRet \in {"acquireFinalize", "stopSlow", "stopEnd", "wait", "release", "resume", "suspend"}
  BY Zenon DEF AllInv, TypeOK, MutatorPCs, ConductorPCs
<1>1. CASE ConductorStep(Collector)
  BY <1>1, DueConductor, Zenon DEF AssertsHold
<1>2. CASE resumeTheMutator
  BY <1>a, <1>2, Zenon DEF resumeTheMutator, Goto
<1>3. CASE resumeTheMutatorUnpark
  BY <1>a, <1>3, Zenon DEF resumeTheMutatorUnpark, unparkAllAndGoto, Unparked
<1>4. CASE waitWhileNeedFinalize
  BY <1>a, <1>4, Zenon DEF waitWhileNeedFinalize, Goto
<1>5. CASE stopTheMutator
  BY <1>a, <1>5, Zenon DEF stopTheMutator, Goto, Finished
<1>6. CASE stopTheMutatorHandoff
  BY <1>a, <1>6, Zenon DEF stopTheMutatorHandoff, Goto
<1>7. CASE stopTheMutatorUnpark
  BY <1>a, <1>7, Zenon DEF stopTheMutatorUnpark, unparkAllAndGoto, Finished, Unparked
<1>8. CASE poll
  BY <1>a, <1>8, Zenon DEF poll, Goto, unparkAllAndGoto, Unparked
<1> QED
  BY <1>1, <1>2, <1>3, <1>4, <1>5, <1>6, <1>7, <1>8, Zenon DEF CollectorStep

(* A step of a call of the mutator preserves DueInv. *)
LEMMA DueMutator ==
    ASSUME AllInv, DueInv, AssertsHold(Mutator), MutatorStep
    PROVE  DueInv'
<1> USE DEF DueInv, Finishing, Conductors, Mutator, Collector, Has, phaseVars, cycleVars,
            ticketVars, threadVars, callVars, continuousVars, faultVars
<1>a. /\ pc \in [Conductors -> MutatorPCs \cup CollectorPCs]
      /\ ret \in [Conductors -> {"check", "dispatch"}]
      /\ pc[Mutator] # "finalizeParked"
      /\ finRet \in {"acquireFinalize", "stopSlow", "stopEnd", "wait", "release", "resume", "suspend"}
  BY Zenon DEF AllInv, TypeOK, MutatorPCs, ConductorPCs
<1>1. CASE ConductorStep(Mutator)
  BY <1>1, DueConductor, Zenon DEF AssertsHold
<1>2. CASE handleNeedFinalizeLoop \/ handleNeedFinalize("waitLoad", "wait")
  <2>1. /\ pc[Mutator] \in {"acquireFinalize", "stopSlow", "stopEnd", "release", "resume", "suspend", "waitLoad"}
        /\ pc'[Mutator] = "finalize" /\ pc'[Collector] = pc[Collector]
        /\ finRet' = IF pc[Mutator] = "waitLoad" THEN "wait" ELSE pc[Mutator]
        /\ UNCHANGED <<worldIsStopped, raced>>
    BY <1>a, <1>2, Zenon DEF handleNeedFinalizeLoop, handleNeedFinalize, Goto
  <2>2. ~raced /\ worldIsStopped => MutatorConducts
    BY <2>1, Zenon DEF AllInv, AccessInv, StopInv
  <2>3. ~raced => ~worldIsStopped
    BY <2>1, <2>2, Zenon DEF MutatorConducts, ConductorPCs, AllInv, StopInv, At
  <2>4. QED
    BY <2>1, <2>3, Zenon
<1>3. CASE finalize
  BY <1>a, <1>3, Zenon DEF finalize, unparkAllAndGoto, Unparked
<1>4. CASE mutatorResumes
  BY <1>a, <1>4, Zenon DEF mutatorResumes, Goto
<1>5. CASE cancelTimer
  BY <1>a, <1>5, Zenon DEF cancelTimer, Goto, Rest
<1>6. CASE acquireAccessSlow
  BY <1>a, <1>6, Zenon DEF acquireAccessSlow, Goto, Rest
<1>7. CASE acquireAccessFinalized
  BY <1>a, <1>7, Zenon DEF acquireAccessFinalized, Goto, Rest
<1>8. CASE releaseAccessSlow
  BY <1>a, <1>8, Zenon DEF releaseAccessSlow, Goto, Rest
<1>9. CASE finishRelinquishingConn
  BY <1>a, <1>9, Zenon DEF finishRelinquishingConn, Unparked, Notified, Rest
<1>10. CASE stopIfNecessary
  BY <1>a, <1>10, Zenon DEF stopIfNecessary, Goto, AfterStop, Rest
<1>11. CASE stopIfNecessarySlow
  BY <1>a, <1>11, Zenon DEF stopIfNecessarySlow, Goto, Rest
<1>12. CASE stopIfNecessaryEnd
  BY <1>a, <1>12, Zenon DEF stopIfNecessaryEnd, Goto, AfterStop, Rest
<1>13. CASE requestCollection
  BY <1>a, <1>13 DEF requestCollection, Goto, CollectorConducts
<1>14. CASE requestCollectionAppend
  BY <1>a, <1>14, Zenon DEF requestCollectionAppend, Notified
<1>15. CASE waitForCollector
  BY <1>a, <1>15, Zenon DEF waitForCollector, Goto, CollectorIsDone, Rest
<1>16. CASE waitForCollectorLoad
  BY <1>a, <1>16, Zenon DEF waitForCollectorLoad, Goto, Rest
<1>17. CASE relinquishConn
  BY <1>a, <1>17, Zenon DEF relinquishConn, Goto, Rest
<1>18. CASE waitForCollectorEnd
  BY <1>a, <1>18, Zenon DEF waitForCollectorEnd, Goto, Rest
<1>19. CASE joinContinuousThread
  BY <1>a, <1>19, Zenon DEF joinContinuousThread, Goto, Rest
<1>20. CASE checkIsCollecting
  BY <1>a, <1>20, Zenon DEF checkIsCollecting, Goto, Rest
<1>21. CASE stopThread
  BY <1>a, <1>21, Zenon DEF stopThread, Notified
<1>22. CASE join
  BY <1>a, <1>22, Zenon DEF join, Goto, Rest
<1>23. CASE pc[Mutator] = "unlock" /\ releaseAccess
  BY <1>a, <1>23, Zenon DEF releaseAccess, Goto, Rest
<1> QED
  BY <1>1, <1>2, <1>3, <1>4, <1>5, <1>6, <1>7, <1>8, <1>9, <1>10, <1>11, <1>12, <1>13, <1>14,
     <1>15, <1>16, <1>17, <1>18, <1>19, <1>20, <1>21, <1>22, <1>23, Zenon DEF MutatorStep

(* The beginning of a call preserves DueInv. *)
LEMMA DueCall ==
    ASSUME AllInv, DueInv, MutatorCall
    PROVE  DueInv'
<1> USE DEF DueInv, Finishing, Conductors, Mutator, Collector, Has, phaseVars, cycleVars,
            ticketVars, threadVars, callVars, continuousVars, faultVars
<1>a. /\ pc \in [Conductors -> MutatorPCs \cup CollectorPCs]
      /\ ret \in [Conductors -> {"check", "dispatch"}]
      /\ pc[Mutator] # "finalizeParked"
      /\ finRet \in {"acquireFinalize", "stopSlow", "stopEnd", "wait", "release", "resume", "suspend"}
  BY Zenon DEF AllInv, TypeOK, MutatorPCs, ConductorPCs
<1>1. CASE acquireAccess("acquire")
  BY <1>a, <1>1, Zenon DEF acquireAccess, Goto, AfterAcquire, Rest
<1>2. CASE timerDidFire
  BY <1>a, <1>2, Zenon DEF timerDidFire, acquireAccess, Goto, AfterAcquire, Rest
<1>3. CASE pc[Mutator] = "run" /\ releaseAccess
  BY <1>a, <1>3, Zenon DEF releaseAccess, Goto, Rest
<1>4. CASE callStopIfNecessary
  BY <1>a, <1>4, Zenon DEF callStopIfNecessary, Goto, Rest
<1>5. ASSUME NEW r \in Requests, NEW kind \in {"async", "asyncNow"}, collectAsync(kind, r)
      PROVE  DueInv'
  BY <1>a, <1>5, Zenon DEF collectAsync, Goto, Rest
<1>6. ASSUME NEW r \in Requests, collectSync(r)
      PROVE  DueInv'
  BY <1>a, <1>6, Zenon DEF collectSync, Goto, Rest
<1>7. CASE preventCollection
  BY <1>a, <1>7, Zenon DEF preventCollection, Goto
<1>8. CASE allowCollection
  BY <1>a, <1>8, Zenon DEF allowCollection
<1>9. CASE lastChanceToFinalize
  BY <1>a, <1>9, Zenon DEF lastChanceToFinalize, Goto
<1> QED
  BY <1>1, <1>2, <1>3, <1>4, <1>5, <1>6, <1>7, <1>8, <1>9, Zenon DEF MutatorCall

(* DueInv holds in every state of the conn protocol.                        *)
THEOREM DueInvariant == Spec => []DueInv
<1>1. Init => DueInv
  BY Zenon DEF Init, DueInv, Finishing, Conductors, Mutator, Collector, Has
<1>2. AllInv /\ DueInv /\ [Next]_vars => DueInv'
  <2> SUFFICES ASSUME AllInv, DueInv, [Next]_vars PROVE DueInv'
    BY Zenon
  <2> USE DEF DueInv, Finishing, Conductors, Mutator, Collector, Has, phaseVars, cycleVars,
              ticketVars, threadVars, callVars, continuousVars, faultVars
  <2>a. pc \in [Conductors -> MutatorPCs \cup CollectorPCs]
    BY Zenon DEF AllInv, TypeOK
  <2>1. CASE AssertsHold(Mutator) /\ MutatorStep
    BY <2>1, DueMutator, Zenon
  <2>2. CASE MutatorCall
    BY <2>2, DueCall, Zenon
  <2>3. CASE AssertsHold(Collector) /\ CollectorStep
    BY <2>3, DueCollector, Zenon
  <2>4. CASE continuousRequest
    BY <2>a, <2>4, Zenon DEF continuousRequest, Goto, Notified
  <2>5. CASE continuousPause
    BY <2>a, <2>5, Zenon DEF continuousPause
  <2>6. CASE stopForTimeout
    BY <2>a, <2>6, Zenon DEF stopForTimeout, Goto
  <2>7. CASE schedulerTick
    BY <2>a, <2>7, Zenon DEF schedulerTick
  <2>8. CASE crash
    BY <2>a, <2>8, Zenon DEF crash
  <2>9. CASE UNCHANGED vars
    BY <2>9, Zenon DEF vars
  <2>10. QED
    BY <2>1, <2>2, <2>3, <2>4, <2>5, <2>6, <2>7, <2>8, <2>9, Zenon DEF Next, ContinuousStep
<1>3. QED
  BY <1>1, <1>2, AllInvariant, PTL DEF Spec

-----------------------------------------------------------------------------
(* Waits return when they should *)

(* A step of runCurrentPhase preserves ReturnInv. *)
LEMMA ReturnConductor ==
    ASSUME AllInv, ReturnInv, NEW c \in Conductors,
           PhaseAsserts(c), ConductorStep(c)
    PROVE  ReturnInv'
<1> USE DEF ReturnInv, At, WaitPCs, ConductorPCs, Conductors, Mutator, Collector, Has,
            phaseVars, cycleVars, ticketVars, threadVars, callVars, continuousVars, faultVars
<1>a. /\ pc \in [Conductors -> MutatorPCs \cup CollectorPCs]
      /\ ret \in [Conductors -> {"check", "dispatch"}]
      /\ pc[Mutator] # "finalizeParked"
      /\ finRet \in {"acquireFinalize", "stopSlow", "stopEnd", "wait", "release", "resume", "suspend"}
  BY Zenon DEF AllInv, TypeOK, MutatorPCs, ConductorPCs
<1>1. CASE runCurrentPhase(c)
  BY <1>a, <1>1, Zenon DEF runCurrentPhase, Goto
<1>2. CASE runNotRunningPhase(c)
  BY <1>a, <1>2, Zenon DEF runNotRunningPhase, Goto, changePhase, Finished
<1>3. CASE runBeginPhase(c)
  BY <1>a, <1>3, Zenon DEF runBeginPhase, changePhase, ScopesFor, Goto
<1>4. CASE runFixpointPhase(c)
  BY <1>a, <1>4, Zenon DEF runFixpointPhase, changePhase, Goto
<1>5. CASE runConcurrentPhase(c)
  BY <1>a, <1>5, Zenon DEF runConcurrentPhase, Goto, changePhase, Finished
<1>6. CASE runReloopPhase(c)
  BY <1>a, <1>6, Zenon DEF runReloopPhase, changePhase, Goto
<1>7. CASE runEndPhase(c)
  BY <1>a, <1>7, Zenon DEF runEndPhase, Goto
<1>8. CASE serveTicket(c)
  <2>1. /\ pc[c] = "serve" /\ \A d \in Conductors : d # c => pc'[d] = pc[d]
        /\ pc'[c] = "serveUnpark" /\ served' = served + 1 /\ UNCHANGED <<job, goal, done, finRet>>
    BY <1>a, <1>8, Zenon DEF serveTicket, Goto
  <2>2. served >= goal => served' >= goal
    BY <2>1 DEF AllInv, TypeOK
  <2>3. QED
    BY <2>1, <2>2, Zenon
<1>9. CASE serveUnpark(c)
  BY <1>a, <1>9, Zenon DEF serveUnpark, unparkAllAndGoto, Unparked
<1>10. CASE setNeedFinalize(c)
  BY <1>a, <1>10, Zenon DEF setNeedFinalize, Goto
<1>11. CASE setNeedFinalizeUnpark(c)
  BY <1>a, <1>11, Zenon DEF setNeedFinalizeUnpark, unparkAllAndGoto, Unparked
<1>12. CASE setNeedFinalizeTimer(c)
  BY <1>a, <1>12, Zenon DEF setNeedFinalizeTimer, Goto
<1>13. CASE endChange(c)
  BY <1>a, <1>13, Zenon DEF endChange, changePhase, Goto
<1>14. CASE finishChangingPhase(c)
  BY <1>a, <1>14, Zenon DEF finishChangingPhase, Goto, worldShouldBeSuspended
<1>15. CASE setPhase(c)
  BY <1>a, <1>15, Zenon DEF setPhase, Goto
<1>16. CASE stopThePeriphery(c)
  BY <1>a, <1>16, Zenon DEF stopThePeriphery, Goto
<1> QED
  BY <1>1, <1>2, <1>3, <1>4, <1>5, <1>6, <1>7, <1>8, <1>9, <1>10, <1>11, <1>12, <1>13, <1>14,
     <1>15, <1>16, Zenon DEF ConductorStep

(* A step of the collector thread preserves ReturnInv. *)
LEMMA ReturnCollector ==
    ASSUME AllInv, ReturnInv, AssertsHold(Collector), CollectorStep
    PROVE  ReturnInv'
<1> USE DEF ReturnInv, At, WaitPCs, ConductorPCs, Conductors, Mutator, Collector, Has,
            phaseVars, cycleVars, ticketVars, threadVars, callVars, continuousVars, faultVars
<1>a. /\ pc \in [Conductors -> MutatorPCs \cup CollectorPCs]
      /\ ret \in [Conductors -> {"check", "dispatch"}]
      /\ pc[Mutator] # "finalizeParked"
      /\ finRet \in {"acquireFinalize", "stopSlow", "stopEnd", "wait", "release", "resume", "suspend"}
  BY Zenon DEF AllInv, TypeOK, MutatorPCs, ConductorPCs
<1>1. CASE ConductorStep(Collector)
  BY <1>1, ReturnConductor, Zenon DEF AssertsHold
<1>2. CASE resumeTheMutator
  BY <1>a, <1>2, Zenon DEF resumeTheMutator, Goto
<1>3. CASE resumeTheMutatorUnpark
  BY <1>a, <1>3, Zenon DEF resumeTheMutatorUnpark, unparkAllAndGoto, Unparked
<1>4. CASE waitWhileNeedFinalize
  BY <1>a, <1>4, Zenon DEF waitWhileNeedFinalize, Goto
<1>5. CASE stopTheMutator
  BY <1>a, <1>5, Zenon DEF stopTheMutator, Goto, Finished
<1>6. CASE stopTheMutatorHandoff
  BY <1>a, <1>6, Zenon DEF stopTheMutatorHandoff, Goto
<1>7. CASE stopTheMutatorUnpark
  BY <1>a, <1>7, Zenon DEF stopTheMutatorUnpark, unparkAllAndGoto, Finished, Unparked
<1>8. CASE poll
  BY <1>a, <1>8 DEF poll, Goto, unparkAllAndGoto, Unparked
<1> QED
  BY <1>1, <1>2, <1>3, <1>4, <1>5, <1>6, <1>7, <1>8, Zenon DEF CollectorStep

(* A step of a call of the mutator preserves ReturnInv. *)
LEMMA ReturnMutator ==
    ASSUME AllInv, ReturnInv, AssertsHold(Mutator), MutatorStep
    PROVE  ReturnInv'
<1> USE DEF ReturnInv, At, WaitPCs, ConductorPCs, Conductors, Mutator, Collector, Has,
            phaseVars, cycleVars, ticketVars, threadVars, callVars, continuousVars, faultVars
<1>a. /\ pc \in [Conductors -> MutatorPCs \cup CollectorPCs]
      /\ ret \in [Conductors -> {"check", "dispatch"}]
      /\ pc[Mutator] # "finalizeParked"
      /\ finRet \in {"acquireFinalize", "stopSlow", "stopEnd", "wait", "release", "resume", "suspend"}
  BY Zenon DEF AllInv, TypeOK, MutatorPCs, ConductorPCs
<1>1. CASE ConductorStep(Mutator)
  BY <1>1, ReturnConductor, Zenon DEF AssertsHold
<1>2. CASE handleNeedFinalizeLoop \/ handleNeedFinalize("waitLoad", "wait")
  <2>1. /\ pc[Mutator] \in {"acquireFinalize", "stopSlow", "stopEnd", "release", "resume", "suspend", "waitLoad"}
        /\ pc'[Mutator] = "finalize" /\ pc'[Collector] = pc[Collector]
        /\ finRet' = IF pc[Mutator] = "waitLoad" THEN "wait" ELSE pc[Mutator]
        /\ UNCHANGED <<job, goal, done, served>>
    BY <1>a, <1>2, Zenon DEF handleNeedFinalizeLoop, handleNeedFinalize, Goto
  <2>2. QED
    BY <2>1, Zenon
<1>3. CASE finalize
  BY <1>a, <1>3, Zenon DEF finalize, unparkAllAndGoto, Unparked
<1>4. CASE mutatorResumes
  BY <1>a, <1>4, Zenon DEF mutatorResumes, Goto
<1>5. CASE cancelTimer
  BY <1>a, <1>5, Zenon DEF cancelTimer, Goto, Rest
<1>6. CASE acquireAccessSlow
  BY <1>a, <1>6, Zenon DEF acquireAccessSlow, Goto, Rest
<1>7. CASE acquireAccessFinalized
  BY <1>a, <1>7, Zenon DEF acquireAccessFinalized, Goto, Rest
<1>8. CASE releaseAccessSlow
  BY <1>a, <1>8, Zenon DEF releaseAccessSlow, Goto, Rest
<1>9. CASE finishRelinquishingConn
  BY <1>a, <1>9, Zenon DEF finishRelinquishingConn, Unparked, Notified, Rest
<1>10. CASE stopIfNecessary
  BY <1>a, <1>10, Zenon DEF stopIfNecessary, Goto, AfterStop, Rest
<1>11. CASE stopIfNecessarySlow
  <2>1. job \notin WaitJobs /\ UNCHANGED job
    BY <1>11, Zenon DEF stopIfNecessarySlow, callVars, AllInv, WaitInv, ShutdownPCs
  <2>2. QED
    BY <2>1, Zenon DEF WaitJobs
<1>12. CASE stopIfNecessaryEnd
  BY <1>a, <1>12, Zenon DEF stopIfNecessaryEnd, Goto, AfterStop, Rest
<1>13. CASE requestCollection
  BY <1>a, <1>13, Zenon DEF requestCollection, Goto, CollectorConducts
<1>14. CASE requestCollectionAppend
  BY <1>a, <1>14, Zenon DEF requestCollectionAppend, Notified
<1>15. CASE waitForCollector
  BY <1>a, <1>15, Zenon DEF waitForCollector, Goto, CollectorIsDone, Rest
<1>16. CASE waitForCollectorLoad
  BY <1>a, <1>16, Zenon DEF waitForCollectorLoad, Goto, Rest
<1>17. CASE relinquishConn
  BY <1>a, <1>17, Zenon DEF relinquishConn, Goto, Rest
<1>18. CASE waitForCollectorEnd
  BY <1>a, <1>18, Zenon DEF waitForCollectorEnd, Goto, Rest
<1>19. CASE joinContinuousThread
  BY <1>a, <1>19, Zenon DEF joinContinuousThread, Goto, Rest
<1>20. CASE checkIsCollecting
  BY <1>a, <1>20, Zenon DEF checkIsCollecting, Goto, Rest
<1>21. CASE stopThread
  BY <1>a, <1>21 DEF stopThread, Notified
<1>22. CASE join
  BY <1>a, <1>22, Zenon DEF join, Goto, Rest
<1>23. CASE pc[Mutator] = "unlock" /\ releaseAccess
  BY <1>a, <1>23, Zenon DEF releaseAccess, Goto, Rest
<1> QED
  BY <1>1, <1>2, <1>3, <1>4, <1>5, <1>6, <1>7, <1>8, <1>9, <1>10, <1>11, <1>12, <1>13, <1>14,
     <1>15, <1>16, <1>17, <1>18, <1>19, <1>20, <1>21, <1>22, <1>23, Zenon DEF MutatorStep

(* The beginning of a call preserves ReturnInv. *)
LEMMA ReturnCall ==
    ASSUME AllInv, ReturnInv, MutatorCall
    PROVE  ReturnInv'
<1> USE DEF ReturnInv, At, WaitPCs, ConductorPCs, Conductors, Mutator, Collector, Has,
            phaseVars, cycleVars, ticketVars, threadVars, callVars, continuousVars, faultVars
<1>a. /\ pc \in [Conductors -> MutatorPCs \cup CollectorPCs]
      /\ ret \in [Conductors -> {"check", "dispatch"}]
      /\ pc[Mutator] # "finalizeParked"
      /\ finRet \in {"acquireFinalize", "stopSlow", "stopEnd", "wait", "release", "resume", "suspend"}
  BY Zenon DEF AllInv, TypeOK, MutatorPCs, ConductorPCs
<1>1. CASE acquireAccess("acquire")
  BY <1>a, <1>1, Zenon DEF acquireAccess, Goto, AfterAcquire, Rest
<1>2. CASE timerDidFire
  BY <1>a, <1>2, Zenon DEF timerDidFire, acquireAccess, Goto, AfterAcquire, Rest
<1>3. CASE pc[Mutator] = "run" /\ releaseAccess
  BY <1>a, <1>3, Zenon DEF releaseAccess, Goto, Rest
<1>4. CASE callStopIfNecessary
  BY <1>a, <1>4, Zenon DEF callStopIfNecessary, Goto, Rest
<1>5. ASSUME NEW r \in Requests, NEW kind \in {"async", "asyncNow"}, collectAsync(kind, r)
      PROVE  ReturnInv'
  BY <1>a, <1>5, Zenon DEF collectAsync, Goto, Rest
<1>6. ASSUME NEW r \in Requests, collectSync(r)
      PROVE  ReturnInv'
  BY <1>a, <1>6, Zenon DEF collectSync, Goto, Rest
<1>7. CASE preventCollection
  BY <1>a, <1>7, Zenon DEF preventCollection, Goto
<1>8. CASE allowCollection
  BY <1>a, <1>8, Zenon DEF allowCollection
<1>9. CASE lastChanceToFinalize
  BY <1>a, <1>9, Zenon DEF lastChanceToFinalize, Goto
<1> QED
  BY <1>1, <1>2, <1>3, <1>4, <1>5, <1>6, <1>7, <1>8, <1>9, Zenon DEF MutatorCall

(* ReturnInv holds in every state of the conn protocol.                     *)
THEOREM ReturnInvariant == Spec => []ReturnInv
<1>1. Init => ReturnInv
  BY Zenon DEF Init, ReturnInv, At, WaitPCs, ConductorPCs, Conductors, Mutator, Collector, Has
<1>2. AllInv /\ ReturnInv /\ [Next]_vars => ReturnInv'
  <2> SUFFICES ASSUME AllInv, ReturnInv, [Next]_vars PROVE ReturnInv'
    BY Zenon
  <2> USE DEF ReturnInv, At, WaitPCs, ConductorPCs, Conductors, Mutator, Collector, Has,
              phaseVars, cycleVars, ticketVars, threadVars, callVars, continuousVars, faultVars
  <2>a. pc \in [Conductors -> MutatorPCs \cup CollectorPCs]
    BY Zenon DEF AllInv, TypeOK
  <2>1. CASE AssertsHold(Mutator) /\ MutatorStep
    BY <2>1, ReturnMutator, Zenon
  <2>2. CASE MutatorCall
    BY <2>2, ReturnCall, Zenon
  <2>3. CASE AssertsHold(Collector) /\ CollectorStep
    BY <2>3, ReturnCollector, Zenon
  <2>4. CASE continuousRequest
    BY <2>a, <2>4, Zenon DEF continuousRequest, Goto, Notified
  <2>5. CASE continuousPause
    BY <2>a, <2>5, Zenon DEF continuousPause
  <2>6. CASE stopForTimeout
    BY <2>a, <2>6, Zenon DEF stopForTimeout, Goto
  <2>7. CASE schedulerTick
    BY <2>a, <2>7, Zenon DEF schedulerTick
  <2>8. CASE crash
    BY <2>a, <2>8, Zenon DEF crash
  <2>9. CASE UNCHANGED vars
    BY <2>9, Zenon DEF vars
  <2>10. QED
    BY <2>1, <2>2, <2>3, <2>4, <2>5, <2>6, <2>7, <2>8, <2>9, Zenon DEF Next, ContinuousStep
<1>3. QED
  BY <1>1, <1>2, AllInvariant, PTL DEF Spec

-----------------------------------------------------------------------------
(* The refinement *)

ServiceInv == AllInv /\ DueInv /\ ReturnInv

Unfinalized == Has("needFinalize") \/ pc[Mutator] = "finalize"
Waiting == IF job = "wait" THEN goal ELSE 0
Served == currentPhase = "End" /\ collectionScope = "none" /\ \A c \in Conductors : pc[c] # "serve"

Simulates == [Service!Next]_(Service!vars)

\* A step that changes nothing the service knows of.
Quietly ==
    /\ UNCHANGED <<requests, granted, served, worldIsStopped, currentPhase, collectionScope, raced, crashed>>
    /\ \A c \in Conductors : pc'[c] = "serve" <=> pc[c] = "serve"
    /\ Unfinalized' <=> Unfinalized
    /\ Waiting' = Waiting

(* The stage of the service, from the phase and the scope of the collection. *)
LEMMA StageIs ==
    /\ Stage = IF worldIsStopped THEN IF Served THEN "served" ELSE "stopped"
               ELSE IF collectionScope = "none" THEN "idle" ELSE "concurrent"
    /\ Stage' = IF worldIsStopped' THEN IF Served' THEN "served" ELSE "stopped"
                ELSE IF collectionScope' = "none" THEN "idle" ELSE "concurrent"
  BY Zenon DEF Stage, Served

(* The part of the state of the service that does not depend on Stage.      *)
LEMMA ServiceVars ==
    ASSUME Stage' = Stage, UNCHANGED <<requests, granted, served, raced, crashed>>,
           Unfinalized' <=> Unfinalized, Waiting' = Waiting
    PROVE  Simulates
  BY Zenon DEF Simulates, Service!vars, Unfinalized, Waiting

(* A quiet step is invisible to the service.                                *)
LEMMA QuietStep == Quietly => Simulates
<1> SUFFICES ASSUME Quietly PROVE Simulates
  BY Zenon
<1>1. Stage' = Stage
  BY StageIs, Zenon DEF Quietly, Served
<1>2. QED
  BY <1>1, ServiceVars, Zenon DEF Quietly


(* A step of runCurrentPhase is a step of the service or invisible to it. *)
LEMMA SimConductor ==
    ASSUME ServiceInv, ~raced', ~crashed', NEW c \in Conductors,
           PhaseAsserts(c), ConductorStep(c)
    PROVE  Simulates
<1> USE DEF Conductors, Mutator, Collector, Has, phaseVars, cycleVars, ticketVars, threadVars,
            callVars, continuousVars, faultVars
<1>a. /\ pc \in [Conductors -> MutatorPCs \cup CollectorPCs]
      /\ ret \in [Conductors -> {"check", "dispatch"}]
      /\ pc[Mutator] # "finalizeParked"
      /\ finRet \in {"acquireFinalize", "stopSlow", "stopEnd", "wait", "release", "resume", "suspend"}
  BY Zenon DEF ServiceInv, AllInv, TypeOK, MutatorPCs, ConductorPCs
<1>b. ~raced /\ pc[c] \in ConductorPCs => \A d \in Conductors : d # c => pc[d] \notin ConductorPCs
  BY DEF ServiceInv, AllInv, OneConductor, MutatorConducts, CollectorConducts, ConductorPCs
<1>c. ~raced /\ pc[c] \in {"dispatch", "finishChange"} \cup Ending /\ worldShouldBeSuspended(currentPhase) =>
         worldIsStopped
  BY <1>a, Zenon DEF ServiceInv, AllInv, OneConductor, WorldInv, At, Resuming, Ending,
     MutatorConducts,
     CollectorConducts, ConductorPCs
<1>1. CASE runCurrentPhase(c)
  BY QuietStep, <1>a, <1>1, Zenon DEF Quietly, Waiting, Unfinalized, runCurrentPhase, Goto
<1>2. CASE runNotRunningPhase(c)
  BY QuietStep, <1>a, <1>2, Zenon DEF Quietly, Waiting, Unfinalized, runNotRunningPhase, Goto,
     changePhase, Finished
<1>3. CASE runBeginPhase(c)
  <2>1. /\ pc[c] = "dispatch" /\ currentPhase = "Begin" /\ pc'[c] = "finishChange" /\ \A d \in Conductors : d # c => pc'[d] = pc[d]
        /\ UNCHANGED <<requests, granted, served, worldIsStopped, currentPhase, raced, crashed,
                       worldState, job, goal>>
    BY <1>a, <1>3, Zenon DEF runBeginPhase, changePhase, Goto
  <2>2. worldIsStopped
    BY <1>c, <2>1, Zenon DEF worldShouldBeSuspended
  <2>3. Stage' = Stage
    BY <2>1, <2>2, StageIs, Zenon DEF Served
  <2>4. (Unfinalized' <=> Unfinalized) /\ Waiting' = Waiting
    BY <2>1, Zenon DEF Unfinalized, Waiting
  <2>5. QED
    BY <2>1, <2>3, <2>4, ServiceVars, Zenon
<1>4. CASE runFixpointPhase(c)
  BY QuietStep, <1>a, <1>4, Zenon DEF Quietly, Waiting, Unfinalized, runFixpointPhase, changePhase,
     Goto
<1>5. CASE runConcurrentPhase(c)
  BY QuietStep, <1>a, <1>5, Zenon DEF Quietly, Waiting, Unfinalized, runConcurrentPhase, Goto,
     changePhase, Finished
<1>6. CASE runReloopPhase(c)
  BY QuietStep, <1>a, <1>6, Zenon DEF Quietly, Waiting, Unfinalized, runReloopPhase, changePhase,
     Goto
<1>7. CASE runEndPhase(c)
  <2>1. /\ pc[c] = "dispatch" /\ currentPhase = "End" /\ pc'[c] = "serve" /\ \A d \in Conductors : d # c => pc'[d] = pc[d]
        /\ UNCHANGED <<requests, granted, served, worldIsStopped, currentPhase, raced, crashed,
                       worldState, job, goal>>
    BY <1>a, <1>7, Zenon DEF runEndPhase, Goto
  <2>2. worldIsStopped
    BY <1>c, <2>1, Zenon DEF worldShouldBeSuspended
  <2>3. collectionScope # "none"
    BY <1>b, <2>1, Zenon DEF ServiceInv, AllInv, CycleInv, Over, Ending, ConductorPCs
  <2>4. Stage' = Stage
    BY <2>1, <2>2, <2>3, StageIs, Zenon DEF Served
  <2>5. (Unfinalized' <=> Unfinalized) /\ Waiting' = Waiting
    BY <2>1, Zenon DEF Unfinalized, Waiting
  <2>6. QED
    BY <2>1, <2>4, <2>5, ServiceVars, Zenon
<1>8. CASE serveTicket(c)
  <2>1. /\ pc[c] = "serve" /\ pc'[c] = "serveUnpark" /\ \A d \in Conductors : d # c => pc'[d] = pc[d]
        /\ requests' = Tail(requests) /\ served' = served + 1 /\ requests # <<>>
        /\ UNCHANGED <<granted, worldIsStopped, currentPhase, collectionScope, raced, crashed, job, goal>>
        /\ Has("needFinalize")' = Has("needFinalize")
    BY <1>a, <1>8 DEF serveTicket, Goto, PhaseAsserts
  <2>2. currentPhase = "End" /\ collectionScope = "none"
    BY <2>1, Zenon DEF ServiceInv, AllInv, PhaseInv, Ending
  <2>3. worldIsStopped
    BY <1>c, <2>1, <2>2, Zenon DEF worldShouldBeSuspended, Ending
  <2>4. Stage = "stopped"
    BY <2>1, <2>3, StageIs, Zenon DEF Served
  <2>5. Stage' = "served"
    BY <1>b, <2>1, <2>2, <2>3, StageIs, Zenon DEF Served, ConductorPCs
  <2>6. (Unfinalized' <=> Unfinalized) /\ Waiting' = Waiting
    BY <2>1, Zenon DEF Unfinalized, Waiting
  <2>7. Service!Serve
    BY <2>1, <2>4, <2>5, <2>6, Zenon DEF Service!Serve, Unfinalized, Waiting
  <2>8. QED
    BY <2>7, Zenon DEF Simulates, Service!Next
<1>9. CASE serveUnpark(c)
  BY QuietStep, <1>a, <1>9, Zenon DEF Quietly, Waiting, Unfinalized, serveUnpark, unparkAllAndGoto,
     Unparked
<1>10. CASE setNeedFinalize(c)
  <2>1. /\ pc[c] = "needFinalize" /\ pc'[c] = "needFinalizeUnpark" /\ \A d \in Conductors : d # c => pc'[d] = pc[d]
        /\ UNCHANGED <<requests, granted, served, worldIsStopped, currentPhase, collectionScope,
                       raced, crashed, job, goal>>
        /\ Has("needFinalize")'
    BY <1>a, <1>10, Zenon DEF setNeedFinalize, Goto
  <2>2. currentPhase = "End" /\ collectionScope = "none"
    BY <2>1, Zenon DEF ServiceInv, AllInv, PhaseInv, Ending
  <2>3. worldIsStopped
    BY <1>c, <2>1, <2>2, Zenon DEF worldShouldBeSuspended, Ending
  <2>4. Stage = "served" /\ Stage' = "served"
    BY <1>b, <2>1, <2>2, <2>3, StageIs, Zenon DEF Served, ConductorPCs
  <2>5. Service!NeedFinalize
    BY <2>1, <2>4, Zenon DEF Service!NeedFinalize
  <2>6. QED
    BY <2>5, Zenon DEF Simulates, Service!Next
<1>11. CASE setNeedFinalizeUnpark(c)
  BY QuietStep, <1>a, <1>11, Zenon DEF Quietly, Waiting, Unfinalized, setNeedFinalizeUnpark,
     unparkAllAndGoto, Unparked
<1>12. CASE setNeedFinalizeTimer(c)
  BY QuietStep, <1>a, <1>12, Zenon DEF Quietly, Waiting, Unfinalized, setNeedFinalizeTimer, Goto
<1>13. CASE endChange(c)
  BY QuietStep, <1>a, <1>13, Zenon DEF Quietly, Waiting, Unfinalized, endChange, changePhase, Goto
<1>14. CASE finishChangingPhase(c)
  <2> HIDE DEF Has
  <2>1. /\ pc[c] = "finishChange" /\ pc'[c] # "serve" /\ pc'[c] # "finalize" /\ \A d \in Conductors : d # c => pc'[d] = pc[d]
        /\ UNCHANGED <<requests, granted, served, collectionScope, raced, crashed, worldState, job, goal>>
    BY <1>a, <1>14, Zenon DEF finishChangingPhase, Goto
  <2>2. (Unfinalized' <=> Unfinalized) /\ Waiting' = Waiting
    BY <2>1, Zenon DEF Unfinalized, Waiting, Has
  <2>3. ~Over
    BY <1>b, <2>1, Zenon DEF Over, Ending, ConductorPCs
  <2>4. CASE currentPhase' = nextPhase /\ UNCHANGED worldIsStopped
             /\ worldShouldBeSuspended(currentPhase) = worldShouldBeSuspended(nextPhase)
    <3>1. worldIsStopped => ~Served /\ ~Served'
      BY <2>1, <2>3, <2>4, Zenon DEF Served, ServiceInv, AllInv, StopInv, CycleInv, PhaseInv,
         NextPhases,
         worldShouldBeSuspended
    <3>2. Stage' = Stage
      BY <2>1, <2>4, <3>1, StageIs, Zenon
    <3>3. QED
      BY <2>1, <2>2, <3>2, ServiceVars, Zenon
  <2>5. CASE worldShouldBeSuspended(currentPhase) /\ ~worldShouldBeSuspended(nextPhase)
             /\ ~worldIsStopped'
    <3>1. worldIsStopped
      BY <1>c, <2>1, <2>5, Zenon
    <3>2. \/ currentPhase = "End" /\ nextPhase = "NotRunning"
          \/ currentPhase = "Fixpoint" /\ nextPhase = "Concurrent"
      BY <2>1, <2>5, Zenon DEF ServiceInv, AllInv, PhaseInv, NextPhases, worldShouldBeSuspended,
         TypeOK, Phases
    <3>3. CASE nextPhase = "NotRunning"
      <4>1. collectionScope = "none" /\ Unfinalized
        BY <2>1, <3>1, <3>2, <3>3, Zenon DEF ServiceInv, AllInv, CycleInv, DueInv, Unfinalized
      <4>2. Stage = "served" /\ Stage' = "idle"
        BY <1>b, <2>1, <2>5, <3>1, <3>2, <3>3, <4>1, StageIs, Zenon DEF Served, ConductorPCs
      <4>3. Service!End
        BY <2>1, <2>2, <4>1, <4>2, Zenon DEF Service!End, Unfinalized, Waiting
      <4>4. QED
        BY <4>3, Zenon DEF Simulates, Service!Next
    <3>4. CASE nextPhase = "Concurrent"
      <4>1. collectionScope # "none"
        BY <2>1, <2>3, <3>4, Zenon DEF ServiceInv, AllInv, CycleInv
      <4>2. Stage = "stopped" /\ Stage' = "concurrent"
        BY <2>1, <2>5, <3>1, <4>1, StageIs, Zenon DEF Served
      <4>3. Service!Resume
        BY <2>1, <2>2, <4>2, Zenon DEF Service!Resume, Unfinalized, Waiting
      <4>4. QED
        BY <4>3, Zenon DEF Simulates, Service!Next
    <3>5. QED
      BY <3>2, <3>3, <3>4, Zenon
  <2>6. CASE UNCHANGED <<currentPhase, worldIsStopped>>
    <3>1. Quietly
      BY <2>1, <2>2, <2>6, Zenon DEF Quietly
    <3>2. QED
      BY <3>1, QuietStep, Zenon
  <2>7. QED
    BY <1>14, <2>4, <2>5, <2>6, Zenon DEF finishChangingPhase
<1>15. CASE setPhase(c)
  <2>1. /\ pc[c] = "setPhase" /\ pc'[c] \in {"check", "dispatch"} /\ \A d \in Conductors : d # c => pc'[d] = pc[d]
        /\ UNCHANGED <<requests, granted, served, collectionScope, worldIsStopped, raced, crashed,
                       worldState, job, goal>>
    BY <1>a, <1>15, Zenon DEF setPhase, Goto
  <2>2. ~worldIsStopped
    BY <2>1, Zenon DEF ServiceInv, AllInv, StopInv, At
  <2>3. Stage' = Stage
    BY <2>1, <2>2, StageIs, Zenon
  <2>4. (Unfinalized' <=> Unfinalized) /\ Waiting' = Waiting
    BY <2>1, Zenon DEF Unfinalized, Waiting
  <2>5. QED
    BY <2>1, <2>3, <2>4, ServiceVars, Zenon
<1>16. CASE stopThePeriphery(c)
  <2>1. /\ pc[c] = "periphery" /\ pc'[c] \in {"check", "dispatch"} /\ \A d \in Conductors : d # c => pc'[d] = pc[d]
        /\ UNCHANGED <<requests, granted, served, collectionScope, raced, crashed, worldState, job, goal>>
        /\ worldIsStopped' /\ currentPhase' = nextPhase /\ ~worldIsStopped
    BY <1>a, <1>16, Zenon DEF stopThePeriphery, Goto, PhaseAsserts
  <2>2. nextPhase \in {"Begin", "Reloop"}
    BY <2>1, Zenon DEF ServiceInv, AllInv, StopInv, At, PhaseInv, NextPhases,
       worldShouldBeSuspended, TypeOK, Phases
  <2>3. (Unfinalized' <=> Unfinalized) /\ Waiting' = Waiting
    BY <2>1, Zenon DEF Unfinalized, Waiting
  <2>4. Stage' = "stopped"
    BY <2>1, <2>2, StageIs, Zenon DEF Served
  <2>5. CASE nextPhase = "Begin"
    <3>1. requests # <<>> /\ collectionScope = "none"
      BY <2>1, <2>5, Zenon DEF ServiceInv, AllInv, CycleInv
    <3>2. ~Unfinalized
      <4>1. ~Has("needFinalize")
        BY <2>1, Zenon DEF ServiceInv, AllInv, FinalizeInv
      <4>2. pc[Mutator] # "finalize"
        BY <2>1, Zenon DEF ServiceInv, AllInv, StopInv, AccessInv
      <4>3. QED
        BY <4>1, <4>2, Zenon DEF Unfinalized
    <3>3. Service!Stop
      BY <2>1, <2>3, <2>4, <3>1, <3>2, StageIs, Zenon DEF Service!Stop, Unfinalized, Waiting
    <3>4. QED
      BY <3>3, Zenon DEF Simulates, Service!Next
  <2>6. CASE nextPhase = "Reloop"
    <3>1. collectionScope # "none"
      BY <1>b, <2>1, <2>6, Zenon DEF ServiceInv, AllInv, CycleInv, Over, Ending, ConductorPCs
    <3>2. Service!Stop
      BY <2>1, <2>3, <2>4, <3>1, StageIs, Zenon DEF Service!Stop, Unfinalized, Waiting
    <3>3. QED
      BY <3>2, Zenon DEF Simulates, Service!Next
  <2>7. QED
    BY <2>2, <2>5, <2>6, Zenon
<1> QED
  BY <1>1, <1>2, <1>3, <1>4, <1>5, <1>6, <1>7, <1>8, <1>9, <1>10, <1>11, <1>12, <1>13, <1>14,
     <1>15, <1>16, Zenon DEF ConductorStep

(* A step of the collector thread is a step of the service or invisible to it. *)
LEMMA SimCollector ==
    ASSUME ServiceInv, ~raced', ~crashed', AssertsHold(Collector), CollectorStep
    PROVE  Simulates
<1> USE DEF Conductors, Mutator, Collector, Has, phaseVars, cycleVars, ticketVars, threadVars,
            callVars, continuousVars, faultVars
<1>a. /\ pc \in [Conductors -> MutatorPCs \cup CollectorPCs]
      /\ ret \in [Conductors -> {"check", "dispatch"}]
      /\ pc[Mutator] # "finalizeParked"
      /\ finRet \in {"acquireFinalize", "stopSlow", "stopEnd", "wait", "release", "resume", "suspend"}
  BY Zenon DEF ServiceInv, AllInv, TypeOK, MutatorPCs, ConductorPCs
<1>1. CASE ConductorStep(Collector)
  BY <1>1, SimConductor, Zenon DEF AssertsHold
<1>2. CASE resumeTheMutator
  BY QuietStep, <1>a, <1>2, Zenon DEF Quietly, Waiting, Unfinalized, resumeTheMutator, Goto
<1>3. CASE resumeTheMutatorUnpark
  BY QuietStep, <1>a, <1>3, Zenon DEF Quietly, Waiting, Unfinalized, resumeTheMutatorUnpark,
     unparkAllAndGoto, Unparked
<1>4. CASE waitWhileNeedFinalize
  BY QuietStep, <1>a, <1>4, Zenon DEF Quietly, Waiting, Unfinalized, waitWhileNeedFinalize, Goto
<1>5. CASE stopTheMutator
  BY QuietStep, <1>a, <1>5 DEF Quietly, Waiting, Unfinalized, stopTheMutator, Goto, Finished
<1>6. CASE stopTheMutatorHandoff
  BY QuietStep, <1>a, <1>6, Zenon DEF Quietly, Waiting, Unfinalized, stopTheMutatorHandoff, Goto
<1>7. CASE stopTheMutatorUnpark
  BY QuietStep, <1>a, <1>7, Zenon DEF Quietly, Waiting, Unfinalized, stopTheMutatorUnpark,
     unparkAllAndGoto, Finished, Unparked
<1>8. CASE poll
  BY QuietStep, <1>a, <1>8, Zenon DEF Quietly, Waiting, Unfinalized, poll, Goto, unparkAllAndGoto,
     Unparked
<1> QED
  BY <1>1, <1>2, <1>3, <1>4, <1>5, <1>6, <1>7, <1>8, Zenon DEF CollectorStep

(* A step of a call of the mutator is a step of the service or invisible to it. *)
LEMMA SimMutator ==
    ASSUME ServiceInv, ~raced', ~crashed', AssertsHold(Mutator), MutatorStep
    PROVE  Simulates
<1> USE DEF Conductors, Mutator, Collector, Has, phaseVars, cycleVars, ticketVars, threadVars,
            callVars, continuousVars, faultVars
<1>a. /\ pc \in [Conductors -> MutatorPCs \cup CollectorPCs]
      /\ ret \in [Conductors -> {"check", "dispatch"}]
      /\ pc[Mutator] # "finalizeParked"
      /\ finRet \in {"acquireFinalize", "stopSlow", "stopEnd", "wait", "release", "resume", "suspend"}
  BY Zenon DEF ServiceInv, AllInv, TypeOK, MutatorPCs, ConductorPCs
<1>b. pc[Mutator] \in {"out", "run", "cancelTimer", "requestLocked"} => job # "wait"
  BY Zenon DEF ServiceInv, AllInv, WaitInv, WaitPCs, WaitJobs, ShutdownPCs, ConductorPCs, At
<1>1. CASE ConductorStep(Mutator)
  BY <1>1, SimConductor, Zenon DEF AssertsHold
<1>2. CASE handleNeedFinalizeLoop \/ handleNeedFinalize("waitLoad", "wait")
  BY QuietStep, <1>a, <1>2, Zenon DEF Quietly, Waiting, Unfinalized, handleNeedFinalizeLoop,
     handleNeedFinalize, Goto
<1>3. CASE finalize
  <2>1. /\ pc[Mutator] = "finalize" /\ pc'[Mutator] = finRet
        /\ pc'[Collector] = "serve" <=> pc[Collector] = "serve"
        /\ UNCHANGED <<requests, granted, served, worldIsStopped, currentPhase, collectionScope,
                       raced, crashed, worldState, job, goal>>
    BY <1>a, <1>3, Zenon DEF finalize, unparkAllAndGoto, Unparked
  <2>2. collectionScope = "none"
    BY <2>1, Zenon DEF ServiceInv, AllInv, FinalizeInv
  <2>3. ~worldIsStopped
    <3>1. worldIsStopped => MutatorConducts
      BY <2>1, Zenon DEF ServiceInv, AllInv, AccessInv, StopInv
    <3>2. QED
      BY <2>1, <3>1, Zenon DEF MutatorConducts, ConductorPCs, ServiceInv, AllInv, StopInv, At
  <2>4. Stage = "idle" /\ Stage' = "idle"
    BY <2>1, <2>2, <2>3, StageIs, Zenon
  <2>5. Waiting' = Waiting
    BY <2>1, Zenon DEF Waiting
  <2>6. CASE Has("needFinalize")
    BY <2>1, <2>4, <2>5, <2>6, ServiceVars, Zenon DEF Unfinalized
  <2>7. CASE ~Has("needFinalize")
    <3>1. ~Unfinalized'
      BY <1>a, <2>1, <2>7, Zenon DEF Unfinalized
    <3>2. Service!Finalize
      BY <2>1, <2>4, <2>5, <3>1, Zenon DEF Service!Finalize, Unfinalized, Waiting
    <3>3. QED
      BY <3>2, Zenon DEF Simulates, Service!Next
  <2>8. QED
    BY <2>6, <2>7, Zenon
<1>4. CASE mutatorResumes
  BY QuietStep, <1>a, <1>4, Zenon DEF Quietly, Waiting, Unfinalized, mutatorResumes, Goto
<1>5. CASE cancelTimer
  BY QuietStep, <1>a, <1>b, <1>5, Zenon DEF Quietly, Waiting, Unfinalized, cancelTimer, Goto, Rest
<1>6. CASE acquireAccessSlow
  BY QuietStep, <1>a, <1>6 DEF Quietly, Waiting, Unfinalized, acquireAccessSlow, Goto, Rest
<1>7. CASE acquireAccessFinalized
  BY QuietStep, <1>a, <1>7, Zenon DEF Quietly, Waiting, Unfinalized, acquireAccessFinalized, Goto,
     Rest
<1>8. CASE releaseAccessSlow
  BY QuietStep, <1>a, <1>8, Zenon DEF Quietly, Waiting, Unfinalized, releaseAccessSlow, Goto, Rest
<1>9. CASE finishRelinquishingConn
  BY QuietStep, <1>a, <1>9, Zenon DEF Quietly, Waiting, Unfinalized, finishRelinquishingConn,
     Unparked, Notified, Rest
<1>10. CASE stopIfNecessary
  BY QuietStep, <1>a, <1>10, Zenon DEF Quietly, Waiting, Unfinalized, stopIfNecessary, Goto,
     AfterStop, Rest
<1>11. CASE stopIfNecessarySlow
  BY QuietStep, <1>a, <1>11, Zenon DEF Quietly, Waiting, Unfinalized, stopIfNecessarySlow, Goto,
     Rest
<1>12. CASE stopIfNecessaryEnd
  BY QuietStep, <1>a, <1>12, Zenon DEF Quietly, Waiting, Unfinalized, stopIfNecessaryEnd, Goto,
     AfterStop, Rest
<1>13. CASE requestCollection
  <2>1. raced' = raced
    BY <1>13, Zenon DEF requestCollection, ServiceInv, AllInv, TypeOK
  <2>2. /\ pc[Mutator] = "request" /\ pc'[Mutator] = "requestLocked" /\ pc'[Collector] = pc[Collector]
        /\ UNCHANGED <<requests, granted, served, worldIsStopped, currentPhase, collectionScope,
                       crashed, job, goal>>
    BY <1>a, <1>13, Zenon DEF requestCollection, Goto
  <2>3. worldState' = worldState \/ worldState' = worldState \cup {"mutatorHasConn"}
    BY <1>13, Zenon DEF requestCollection
  <2>4. Quietly
    BY <2>1, <2>2, <2>3, Zenon DEF Quietly, Unfinalized, Waiting
  <2>5. QED
    BY <2>4, QuietStep, Zenon
<1>14. CASE requestCollectionAppend
  <2>1. /\ pc[Mutator] = "requestLocked" /\ pc'[Mutator] \in {"wait", "stopFast", "run"}
        /\ pc'[Collector] = "serve" <=> pc[Collector] = "serve"
        /\ requests' = Append(requests, request) /\ granted' = granted + 1
        /\ goal' = granted' /\ job' \in {"wait", "poll"}
        /\ UNCHANGED <<served, worldIsStopped, currentPhase, collectionScope, raced, crashed, worldState>>
    BY <1>a, <1>14, Zenon DEF requestCollectionAppend, Notified
  <2>2. Stage' = Stage
    BY <2>1, StageIs, Zenon DEF Served
  <2>3. Waiting = 0 /\ Waiting' \in {0, granted'}
    BY <1>b, <2>1, Zenon DEF Waiting
  <2>4. Unfinalized' <=> Unfinalized
    BY <2>1, Zenon DEF Unfinalized
  <2>5. request \in GCRequest
    BY Zenon DEF ServiceInv, AllInv, TypeOK
  <2>6. Service!Request(request)
    BY <2>1, <2>2, <2>3, <2>4, Zenon DEF Service!Request, Unfinalized, Waiting
  <2>7. QED
    BY <2>5, <2>6, Zenon DEF Simulates, Service!Next
<1>15. CASE waitForCollector
  BY QuietStep, <1>a, <1>15, Zenon DEF Quietly, Waiting, Unfinalized, waitForCollector, Goto,
     CollectorIsDone, Rest
<1>16. CASE waitForCollectorLoad
  BY QuietStep, <1>a, <1>16, Zenon DEF Quietly, Waiting, Unfinalized, waitForCollectorLoad, Goto,
     Rest
<1>17. CASE relinquishConn
  BY QuietStep, <1>a, <1>17, Zenon DEF Quietly, Waiting, Unfinalized, relinquishConn, Goto, Rest
<1>18. CASE waitForCollectorEnd
  <2>1. /\ pc[Mutator] = "waitEnd" /\ pc'[Mutator] \in {"stopThread", "run", "waitParked", "wait"}
        /\ pc'[Collector] = pc[Collector] /\ UNCHANGED goal
        /\ \/ done /\ job' = IF job = "shutdown" THEN job ELSE "none"
           \/ UNCHANGED job
        /\ UNCHANGED <<requests, granted, served, worldIsStopped, currentPhase, collectionScope, raced, crashed>>
    BY <1>a, <1>18, Zenon DEF waitForCollectorEnd, Goto, Rest
  <2>2. worldState' = worldState \/ worldState' = worldState \ {"mutatorWaiting"}
    BY <1>18, Zenon DEF waitForCollectorEnd
  <2>3. Unfinalized' <=> Unfinalized
    BY <2>1, <2>2, Zenon DEF Unfinalized
  <2>4. Stage' = Stage
    BY <2>1, StageIs, Zenon DEF Served
  <2>5. CASE Waiting' = Waiting
    BY <2>1, <2>3, <2>4, <2>5, ServiceVars, Zenon
  <2>6. CASE Waiting' # Waiting
    <3>1. done /\ job = "wait" /\ Waiting' = 0 /\ Waiting = goal
      BY <2>1, <2>6, Zenon DEF Waiting
    <3>2. served >= goal
      BY <2>1, <3>1, Zenon DEF ServiceInv, ReturnInv, At, WaitPCs
    <3>3. Service!Return
      BY <2>1, <2>3, <2>4, <3>1, <3>2, Zenon DEF Service!Return, Unfinalized, Waiting
    <3>4. QED
      BY <3>3, Zenon DEF Simulates, Service!Next
  <2>7. QED
    BY <2>5, <2>6, Zenon
<1>19. CASE joinContinuousThread
  BY QuietStep, <1>a, <1>19, Zenon DEF Quietly, Waiting, Unfinalized, joinContinuousThread, Goto,
     Rest
<1>20. CASE checkIsCollecting
  BY QuietStep, <1>a, <1>20, Zenon DEF Quietly, Waiting, Unfinalized, checkIsCollecting, Goto, Rest
<1>21. CASE stopThread
  BY QuietStep, <1>a, <1>21, Zenon DEF Quietly, Waiting, Unfinalized, stopThread, Notified
<1>22. CASE join
  BY QuietStep, <1>a, <1>22, Zenon DEF Quietly, Waiting, Unfinalized, join, Goto, Rest
<1>23. CASE pc[Mutator] = "unlock" /\ releaseAccess
  BY QuietStep, <1>a, <1>23, Zenon DEF Quietly, Waiting, Unfinalized, releaseAccess, Goto, Rest
<1> QED
  BY <1>1, <1>2, <1>3, <1>4, <1>5, <1>6, <1>7, <1>8, <1>9, <1>10, <1>11, <1>12, <1>13, <1>14,
     <1>15, <1>16, <1>17, <1>18, <1>19, <1>20, <1>21, <1>22, <1>23, Zenon DEF MutatorStep

(* The beginning of a call is a step of the service or invisible to it. *)
LEMMA SimCall ==
    ASSUME ServiceInv, ~raced', ~crashed', MutatorCall
    PROVE  Simulates
<1> USE DEF Conductors, Mutator, Collector, Has, phaseVars, cycleVars, ticketVars, threadVars,
            callVars, continuousVars, faultVars
<1>a. /\ pc \in [Conductors -> MutatorPCs \cup CollectorPCs]
      /\ ret \in [Conductors -> {"check", "dispatch"}]
      /\ pc[Mutator] # "finalizeParked"
      /\ finRet \in {"acquireFinalize", "stopSlow", "stopEnd", "wait", "release", "resume", "suspend"}
  BY Zenon DEF ServiceInv, AllInv, TypeOK, MutatorPCs, ConductorPCs
<1>b. pc[Mutator] \in {"out", "run", "cancelTimer", "requestLocked"} => job # "wait"
  BY Zenon DEF ServiceInv, AllInv, WaitInv, WaitPCs, WaitJobs, ShutdownPCs, ConductorPCs, At
<1>1. CASE acquireAccess("acquire")
  BY QuietStep, <1>a, <1>b, <1>1 DEF Quietly, Waiting, Unfinalized, acquireAccess, Goto,
     AfterAcquire, Rest
<1>2. CASE timerDidFire
  BY QuietStep, <1>a, <1>b, <1>2, Zenon DEF Quietly, Waiting, Unfinalized, timerDidFire,
     acquireAccess,
     Goto, AfterAcquire, Rest
<1>3. CASE pc[Mutator] = "run" /\ releaseAccess
  BY QuietStep, <1>a, <1>3, Zenon DEF Quietly, Waiting, Unfinalized, releaseAccess, Goto, Rest
<1>4. CASE callStopIfNecessary
  BY QuietStep, <1>a, <1>b, <1>4, Zenon DEF Quietly, Waiting, Unfinalized, callStopIfNecessary,
     Goto, Rest
<1>5. ASSUME NEW r \in Requests, NEW kind \in {"async", "asyncNow"}, collectAsync(kind, r)
      PROVE  Simulates
  BY QuietStep, <1>a, <1>b, <1>5, Zenon DEF Quietly, Waiting, Unfinalized, collectAsync, Goto, Rest
<1>6. ASSUME NEW r \in Requests, collectSync(r)
      PROVE  Simulates
  BY QuietStep, <1>a, <1>b, <1>6, Zenon DEF Quietly, Waiting, Unfinalized, collectSync, Goto, Rest
<1>7. CASE preventCollection
  BY QuietStep, <1>a, <1>b, <1>7, Zenon DEF Quietly, Waiting, Unfinalized, preventCollection, Goto
<1>8. CASE allowCollection
  BY QuietStep, <1>a, <1>8, Zenon DEF Quietly, Waiting, Unfinalized, allowCollection
<1>9. CASE lastChanceToFinalize
  BY QuietStep, <1>a, <1>b, <1>9, Zenon DEF Quietly, Waiting, Unfinalized, lastChanceToFinalize,
     Goto
<1> QED
  BY <1>1, <1>2, <1>3, <1>4, <1>5, <1>6, <1>7, <1>8, <1>9, Zenon DEF MutatorCall

(* The conn protocol implements the service: requests are served in order,  *)
(* each by one collection at whose end the world is stopped, finalizers run *)
(* before the next collection, and a wait returns when its ticket has been  *)
(* served, unless requestCollection races with the collector thread.        *)
THEOREM ConductorServes == Spec => ImplementsService
<1>1. Init => Service!Init
  <2> SUFFICES ASSUME Init PROVE Service!Init
    BY Zenon
  <2>1. Stage = "idle"
    BY StageIs, Zenon DEF Init
  <2>2. QED
    BY <2>1, Zenon DEF Init, Service!Init, Has, Conductors, Mutator, Collector
<1>2. ServiceInv /\ [Next]_vars => Simulates
  <2> SUFFICES ASSUME ServiceInv, [Next]_vars PROVE Simulates
    BY Zenon
  <2> USE DEF Conductors, Mutator, Collector, Has, phaseVars, cycleVars, ticketVars,
              threadVars, callVars, continuousVars, faultVars
  <2>a. pc \in [Conductors -> MutatorPCs \cup CollectorPCs]
    BY Zenon DEF ServiceInv, AllInv, TypeOK
  <2>1. CASE raced' \/ crashed'
    BY <2>1, Zenon DEF Simulates, Service!Next
  <2>2. CASE ~raced' /\ ~crashed'
    <3>1. CASE AssertsHold(Mutator) /\ MutatorStep
      BY <2>2, <3>1, SimMutator, Zenon
    <3>2. CASE MutatorCall
      BY <2>2, <3>2, SimCall, Zenon
    <3>3. CASE AssertsHold(Collector) /\ CollectorStep
      BY <2>2, <3>3, SimCollector, Zenon
    <3>4. CASE continuousRequest
      <4>1. /\ pc'[Mutator] = pc[Mutator]
            /\ pc'[Collector] = "serve" <=> pc[Collector] = "serve"
            /\ UNCHANGED <<served, worldIsStopped, currentPhase, collectionScope, raced, crashed,
                           worldState, job, goal>>
            /\ \/ requests' = Append(requests, AnyRequest) /\ granted' = granted + 1
               \/ UNCHANGED <<requests, granted>>
        BY <2>a, <3>4, Zenon DEF continuousRequest, Goto, Notified
      <4>2. Stage' = Stage
        BY <4>1, StageIs, Zenon DEF Served
      <4>3. (Unfinalized' <=> Unfinalized) /\ Waiting' = Waiting
        BY <4>1, Zenon DEF Unfinalized, Waiting
      <4>4. CASE UNCHANGED <<requests, granted>>
        BY <4>1, <4>2, <4>3, <4>4, ServiceVars, Zenon
      <4>5. CASE requests' = Append(requests, AnyRequest) /\ granted' = granted + 1
        <5>1. Service!Request(AnyRequest)
          BY <4>1, <4>2, <4>3, <4>5, Zenon DEF Service!Request, Unfinalized, Waiting
        <5>2. QED
          BY <5>1, AnyRequestType, Zenon DEF Simulates, Service!Next
      <4>6. QED
        BY <4>1, <4>4, <4>5, Zenon
    <3>5. CASE continuousPause
      BY QuietStep, <3>5, Zenon DEF Quietly, Waiting, Unfinalized, continuousPause
    <3>6. CASE stopForTimeout
      BY QuietStep, <2>a, <3>6, Zenon DEF Quietly, Waiting, Unfinalized, stopForTimeout, Goto
    <3>7. CASE schedulerTick
      BY QuietStep, <3>7, Zenon DEF Quietly, Waiting, Unfinalized, schedulerTick
    <3>8. CASE crash
      BY <2>2, <3>8, Zenon DEF crash
    <3>9. CASE UNCHANGED vars
      BY QuietStep, <3>9, Zenon DEF Quietly, Waiting, Unfinalized, vars
    <3>10. QED
      BY <3>1, <3>2, <3>3, <3>4, <3>5, <3>6, <3>7, <3>8, <3>9, Zenon DEF Next, ContinuousStep
  <2>3. QED
    BY <2>1, <2>2, Zenon
<1>3. Spec => []ServiceInv
  BY AllInvariant, DueInvariant, ReturnInvariant, PTL DEF ServiceInv
<1>4. QED
  BY <1>1, <1>2, <1>3, PTL DEF Spec, ImplementsService, Service!Spec, Simulates
=============================================================================

------------------------ MODULE HeapConductorProofs ------------------------
(***************************************************************************)
(* Safety of HeapConductor, for every set of requests and calls and every  *)
(* bound: the variables keep their types, the conn is exclusive, a stopped *)
(* world is really stopped, and collections serve the requests in order,   *)
(* each after the finalizers of the last one.  An invariant has one lemma  *)
(* for the steps of either conductor, of the collector thread, of a call   *)
(* of the mutator and of the beginning of a call, and a theorem that       *)
(* combines them.                                                          *)
(***************************************************************************)
EXTENDS HeapConductor, TLAPS

-----------------------------------------------------------------------------
(* Types *)

(* collectAsync() without an argument passes a GCRequest. *)
LEMMA AnyRequestType == AnyRequest \in GCRequest
  BY Zenon DEF AnyRequest, GCRequest, CollectionScope

(* A step of runCurrentPhase, by either thread, preserves the types. *)
LEMMA TypeConductor ==
    ASSUME TypeOK, NEW c \in Conductors, PhaseAsserts(c), ConductorStep(c)
    PROVE  TypeOK'
<1> USE DEF TypeOK, Conductors, Mutator, Collector, ConductorPCs, CollectorPCs, MutatorPCs,
           phaseVars, cycleVars, ticketVars, threadVars, callVars, continuousVars, faultVars
<1>1. CASE runCurrentPhase(c)
  BY <1>1 DEF runCurrentPhase, Goto
<1>2. CASE runNotRunningPhase(c)
  BY <1>2 DEF runNotRunningPhase, Goto, changePhase, Finished, Phases
<1>3. CASE runBeginPhase(c)
  <2>1. Head(requests) \in GCRequest
    BY <1>3 DEF runBeginPhase, PhaseAsserts
  <2>2. currentRequest' \in GCRequest /\ collectionScope' \in CollectionScope
    BY <1>3, <2>1, Zenon DEF runBeginPhase, ScopesFor, GCRequest
  <2>3. reloops' \in 0..MaxReloops
    BY <1>3, ConductorAssumption DEF runBeginPhase, ConductorAssumption
  <2>4. pc' \in [Conductors -> MutatorPCs \cup CollectorPCs] /\ pc'[Mutator] \in MutatorPCs
          /\ pc'[Collector] \in CollectorPCs
    BY <1>3, Zenon DEF runBeginPhase, changePhase, Goto
  <2>5. QED
    BY <1>3, <2>2, <2>3, <2>4 DEF runBeginPhase, changePhase, Phases
<1>4. CASE runFixpointPhase(c)
  <2>1. MaxReloops \in Nat
    BY ConductorAssumption, Zenon DEF ConductorAssumption
  <2>2. reloops' \in 0..MaxReloops
    BY <1>4, <2>1 DEF runFixpointPhase
  <2>3. timeToStop' \in BOOLEAN /\ schedulerState' \in {"Normal", "Stopped", "Resumed"}
    BY <1>4, Zenon DEF runFixpointPhase
  <2>4. nextPhase' \in Phases
    BY <1>4, Zenon DEF runFixpointPhase, changePhase, Phases
  <2>5. pc' \in [Conductors -> MutatorPCs \cup CollectorPCs] /\ pc'[Mutator] \in MutatorPCs
          /\ pc'[Collector] \in CollectorPCs
    BY <1>4 DEF runFixpointPhase, changePhase, Goto
  <2>6. ret' \in [Conductors -> {"check", "dispatch"}]
    BY <1>4 DEF runFixpointPhase, changePhase
  <2>7. QED
    BY <1>4, <2>2, <2>3, <2>4, <2>5, <2>6 DEF runFixpointPhase, changePhase
<1>5. CASE runConcurrentPhase(c)
  BY <1>5 DEF runConcurrentPhase, Goto, changePhase, Finished, Phases
<1>6. CASE runReloopPhase(c)
  BY <1>6 DEF runReloopPhase, changePhase, Goto, Phases
<1>7. CASE runEndPhase(c)
  BY <1>7 DEF runEndPhase, Goto
<1>8. CASE serveTicket(c)
  BY <1>8 DEF serveTicket, Goto, PhaseAsserts
<1>9. CASE serveUnpark(c)
  BY <1>9 DEF serveUnpark, unparkAllAndGoto, Unparked
<1>10. CASE setNeedFinalize(c)
  BY <1>10 DEF setNeedFinalize, Goto, Bits
<1>11. CASE setNeedFinalizeUnpark(c)
  BY <1>11 DEF setNeedFinalizeUnpark, unparkAllAndGoto, Unparked
<1>12. CASE setNeedFinalizeTimer(c)
  BY <1>12 DEF setNeedFinalizeTimer, Goto
<1>13. CASE endChange(c)
  BY <1>13 DEF endChange, changePhase, Goto, Phases
<1>14. CASE finishChangingPhase(c)
  <2>1. currentPhase' \in Phases
    BY <1>14, Zenon DEF finishChangingPhase
  <2>2. worldIsStopped' \in BOOLEAN
    BY <1>14, Zenon DEF finishChangingPhase
  <2>3. pc' \in [Conductors -> MutatorPCs \cup CollectorPCs] /\ pc'[Mutator] \in MutatorPCs
          /\ pc'[Collector] \in CollectorPCs
    BY <1>14 DEF finishChangingPhase, Goto
  <2>4. QED
    BY <1>14, <2>1, <2>2, <2>3 DEF finishChangingPhase
<1>15. CASE setPhase(c)
  BY <1>15 DEF setPhase, Goto
<1>16. CASE stopThePeriphery(c)
  BY <1>16 DEF stopThePeriphery, Goto
<1> QED
  BY <1>1, <1>2, <1>3, <1>4, <1>5, <1>6, <1>7, <1>8, <1>9, <1>10, <1>11, <1>12, <1>13, <1>14,
     <1>15, <1>16, Zenon
  DEF ConductorStep

(* A step of the collector thread preserves the types. *)
LEMMA TypeCollector ==
    ASSUME TypeOK, AssertsHold(Collector), CollectorStep
    PROVE  TypeOK'
<1> USE DEF TypeOK, Conductors, Mutator, Collector, ConductorPCs, CollectorPCs, MutatorPCs,
           phaseVars, cycleVars, ticketVars, threadVars, callVars, continuousVars, faultVars
<1>1. CASE ConductorStep(Collector)
  BY <1>1, TypeConductor, Zenon DEF AssertsHold
<1>2. CASE resumeTheMutator
  BY <1>2 DEF resumeTheMutator, Goto, Has
<1>3. CASE resumeTheMutatorUnpark
  BY <1>3 DEF resumeTheMutatorUnpark, unparkAllAndGoto, Unparked
<1>4. CASE waitWhileNeedFinalize
  BY <1>4 DEF waitWhileNeedFinalize, Goto, Has
<1>5. CASE stopTheMutator
  <2>1. worldState' \subseteq Bits
    BY <1>5, Zenon DEF stopTheMutator, Bits
  <2>2. pc' \in [Conductors -> MutatorPCs \cup CollectorPCs] /\ pc'[Mutator] \in MutatorPCs
          /\ pc'[Collector] \in CollectorPCs
    BY <1>5 DEF stopTheMutator, Goto, Finished
  <2>3. QED
    BY <1>5, <2>1, <2>2 DEF stopTheMutator
<1>6. CASE stopTheMutatorHandoff
  BY <1>6 DEF stopTheMutatorHandoff, Goto
<1>7. CASE stopTheMutatorUnpark
  BY <1>7 DEF stopTheMutatorUnpark, unparkAllAndGoto, Finished, Unparked
<1>8. CASE poll
  BY <1>8 DEF poll, Goto, unparkAllAndGoto, Has, Unparked
<1> QED
  BY <1>1, <1>2, <1>3, <1>4, <1>5, <1>6, <1>7, <1>8, Zenon
  DEF CollectorStep

(* A step of a call of the mutator preserves the types. *)
LEMMA TypeMutator ==
    ASSUME TypeOK, AssertsHold(Mutator), MutatorStep
    PROVE  TypeOK'
<1> USE DEF TypeOK, Conductors, Mutator, Collector, ConductorPCs, CollectorPCs, MutatorPCs,
           phaseVars, cycleVars, ticketVars, threadVars, callVars, continuousVars, faultVars
<1>1. CASE ConductorStep(Mutator)
  BY <1>1, TypeConductor, Zenon DEF AssertsHold
<1>2. CASE finalize
  BY <1>2 DEF finalize, unparkAllAndGoto, Unparked
<1>3. CASE mutatorResumes
  BY <1>3 DEF mutatorResumes, Goto, Has
<1>4. CASE cancelTimer
  <2>1. pc' \in [Conductors -> MutatorPCs \cup CollectorPCs] /\ pc'[Mutator] \in MutatorPCs
          /\ pc'[Collector] \in CollectorPCs
    BY <1>4, Zenon DEF cancelTimer, Goto
  <2>2. timer' \in BOOLEAN /\ job' \in Jobs
    BY <1>4, Zenon DEF cancelTimer, Jobs
  <2>3. QED
    BY <1>4, <2>1, <2>2 DEF cancelTimer, Rest
<1>5. CASE acquireAccessSlow
  <2>1. worldState' \subseteq Bits
    BY <1>5, Zenon DEF acquireAccessSlow, Bits
  <2>2. pc' \in [Conductors -> MutatorPCs \cup CollectorPCs] /\ pc'[Mutator] \in MutatorPCs
          /\ pc'[Collector] \in CollectorPCs
    BY <1>5 DEF acquireAccessSlow, Goto
  <2>3. QED
    BY <1>5, <2>1, <2>2 DEF acquireAccessSlow, Rest
<1>6. CASE acquireAccessFinalized
  BY <1>6 DEF acquireAccessFinalized, Goto, Has, Rest
<1>7. CASE releaseAccessSlow
  <2>1. worldState' \subseteq Bits
    BY <1>7, Zenon DEF releaseAccessSlow, Bits
  <2>2. pc' \in [Conductors -> MutatorPCs \cup CollectorPCs] /\ pc'[Mutator] \in MutatorPCs
          /\ pc'[Collector] \in CollectorPCs
    BY <1>7, Zenon DEF releaseAccessSlow, Goto
  <2>3. QED
    BY <1>7, <2>1, <2>2 DEF releaseAccessSlow, Rest
<1>8. CASE finishRelinquishingConn
  BY <1>8 DEF finishRelinquishingConn, Unparked, Notified, Rest
<1>9. CASE stopIfNecessary
  BY <1>9 DEF stopIfNecessary, Goto, AfterStop, Rest
<1>10. CASE stopIfNecessarySlow
  BY <1>10 DEF stopIfNecessarySlow, Goto, Has, Rest
<1>11. CASE stopIfNecessaryEnd
  BY <1>11 DEF stopIfNecessaryEnd, Goto, AfterStop, Has, Rest
<1>12. CASE requestCollection
  <2>1. worldState' \subseteq Bits
    BY <1>12, Zenon DEF requestCollection, Bits
  <2>2. raced' \in BOOLEAN
    BY <1>12, Zenon DEF requestCollection
  <2>3. pc' \in [Conductors -> MutatorPCs \cup CollectorPCs] /\ pc'[Mutator] \in MutatorPCs
          /\ pc'[Collector] \in CollectorPCs
    BY <1>12, Zenon DEF requestCollection, Goto
  <2>4. QED
    BY <1>12, <2>1, <2>2, <2>3 DEF requestCollection
<1>13. CASE requestCollectionAppend
  <2>1. requests' \in Seq(GCRequest) /\ granted' \in Nat /\ goal' \in Nat
    BY <1>13 DEF requestCollectionAppend
  <2>2. job' \in Jobs
    BY <1>13, Zenon DEF requestCollectionAppend, Jobs
  <2>3. pc' \in [Conductors -> MutatorPCs \cup CollectorPCs] /\ pc'[Mutator] \in MutatorPCs
          /\ pc'[Collector] \in CollectorPCs
    BY <1>13, Zenon DEF requestCollectionAppend, Notified
  <2>4. threadLock' \in BOOLEAN
    BY <1>13, Zenon DEF requestCollectionAppend
  <2>5. QED
    BY <1>13, <2>1, <2>2, <2>3, <2>4 DEF requestCollectionAppend
<1>14. CASE waitForCollector
  <2>1. CollectorIsDone \in BOOLEAN
    <3>1. (served >= goal) \in BOOLEAN /\ (served = granted) \in BOOLEAN
      OBVIOUS
    <3>2. QED
      BY <3>1, Zenon DEF CollectorIsDone
  <2>2. done' \in BOOLEAN
    BY <1>14, <2>1, Zenon DEF waitForCollector
  <2>3. worldState' \subseteq Bits
    BY <1>14, Zenon DEF waitForCollector, Bits
  <2>4. pc' \in [Conductors -> MutatorPCs \cup CollectorPCs] /\ pc'[Mutator] \in MutatorPCs
          /\ pc'[Collector] \in CollectorPCs
    BY <1>14, Zenon DEF waitForCollector, Goto
  <2>5. QED
    BY <1>14, <2>2, <2>3, <2>4 DEF waitForCollector, Rest
<1>15. CASE waitForCollectorLoad
  BY <1>15 DEF waitForCollectorLoad, Goto, Has, Rest
<1>16. CASE relinquishConn
  BY <1>16 DEF relinquishConn, Goto, Has, Rest
<1>17. CASE waitForCollectorEnd
  BY <1>17 DEF waitForCollectorEnd, Goto, Rest, Jobs
<1>18. CASE joinContinuousThread
  BY <1>18 DEF joinContinuousThread, Goto, Rest
<1>19. CASE checkIsCollecting
  BY <1>19 DEF checkIsCollecting, Goto, Rest
<1>20. CASE stopThread
  BY <1>20 DEF stopThread, Notified
<1>21. CASE join
  BY <1>21 DEF join, Goto, Rest
<1>22. CASE handleNeedFinalizeLoop \/ handleNeedFinalize("waitLoad", "wait")
  BY <1>22 DEF handleNeedFinalizeLoop, handleNeedFinalize, Goto
<1>23. CASE pc[Mutator] = "unlock" /\ releaseAccess
  BY <1>23 DEF releaseAccess, Goto, Rest
<1> QED
  BY <1>1, <1>2, <1>3, <1>4, <1>5, <1>6, <1>7, <1>8, <1>9, <1>10, <1>11, <1>12, <1>13, <1>14,
     <1>15, <1>16, <1>17, <1>18, <1>19, <1>20, <1>21, <1>22, <1>23, Zenon
  DEF MutatorStep

(* The beginning of a call of the mutator preserves the types. *)
LEMMA TypeCall ==
    ASSUME TypeOK, MutatorCall
    PROVE  TypeOK'
<1> USE DEF TypeOK, Conductors, Mutator, Collector, ConductorPCs, CollectorPCs, MutatorPCs,
           phaseVars, cycleVars, ticketVars, threadVars, callVars, continuousVars, faultVars
<1>1. CASE acquireAccess("acquire")
  <2>1. worldState' \subseteq Bits
    BY <1>1, Zenon DEF acquireAccess, Bits
  <2>2. pc' \in [Conductors -> MutatorPCs \cup CollectorPCs] /\ pc'[Mutator] \in MutatorPCs
          /\ pc'[Collector] \in CollectorPCs
    BY <1>1 DEF acquireAccess, AfterAcquire, Goto
  <2>3. QED
    BY <1>1, <2>1, <2>2 DEF acquireAccess, Jobs, Rest
<1>2. CASE timerDidFire
  <2>1. worldState' \subseteq Bits
    BY <1>2, Zenon DEF timerDidFire, acquireAccess, Bits
  <2>2. pc' \in [Conductors -> MutatorPCs \cup CollectorPCs] /\ pc'[Mutator] \in MutatorPCs
          /\ pc'[Collector] \in CollectorPCs
    BY <1>2 DEF timerDidFire, acquireAccess, AfterAcquire, Goto
  <2>3. QED
    BY <1>2, <2>1, <2>2 DEF timerDidFire, acquireAccess, Jobs, Rest
<1>3. CASE pc[Mutator] = "run" /\ releaseAccess
  BY <1>3 DEF releaseAccess, Goto, Rest
<1>4. CASE callStopIfNecessary
  BY <1>4 DEF callStopIfNecessary, Goto, Rest, Jobs
<1>5. ASSUME NEW r \in Requests, NEW kind \in {"async", "asyncNow"}, collectAsync(kind, r)
      PROVE  TypeOK'
  <2>1. request' \in GCRequest /\ job' \in Jobs
    BY <1>5, ConductorAssumption, Zenon DEF collectAsync, ConductorAssumption, Jobs
  <2>2. pc' \in [Conductors -> MutatorPCs \cup CollectorPCs] /\ pc'[Mutator] \in MutatorPCs
          /\ pc'[Collector] \in CollectorPCs
    BY <1>5 DEF collectAsync, Goto
  <2>3. QED
    BY <1>5, <2>1, <2>2 DEF collectAsync, Rest
<1>6. ASSUME NEW r \in Requests, collectSync(r)
      PROVE  TypeOK'
  <2>1. request' \in GCRequest
    BY <1>6, ConductorAssumption, Zenon DEF collectSync, ConductorAssumption
  <2>2. QED
    BY <1>6, <2>1 DEF collectSync, Goto, Jobs, Rest
<1>7. CASE preventCollection
  BY <1>7 DEF preventCollection, Goto, Jobs
<1>8. CASE allowCollection
  <2>1. prevented' \in BOOLEAN
    BY <1>8, Zenon DEF allowCollection
  <2>2. QED
    BY <1>8, <2>1 DEF allowCollection
<1>9. CASE lastChanceToFinalize
  BY <1>9 DEF lastChanceToFinalize, Goto, Jobs
<1> QED
  BY <1>1, <1>2, <1>3, <1>4, <1>5, <1>6, <1>7, <1>8, <1>9, Zenon
  DEF MutatorCall

(* Type correctness of the whole protocol. *)
THEOREM TypeCorrect == Spec => []TypeOK
<1>1. Init => TypeOK
  <2> SUFFICES ASSUME Init PROVE TypeOK
    BY Zenon
  <2>1. currentRequest \in GCRequest /\ request \in GCRequest
    BY AnyRequestType, Zenon DEF Init
  <2>2. pc \in [Conductors -> MutatorPCs \cup CollectorPCs]
        /\ pc[Mutator] \in MutatorPCs /\ pc[Collector] \in CollectorPCs
    BY Zenon DEF Init, Conductors, Mutator, Collector, CollectorPCs, MutatorPCs
  <2>3. reloops \in 0..MaxReloops
    BY ConductorAssumption DEF Init, ConductorAssumption
  <2>4. requests \in Seq(GCRequest)
    BY DEF Init
  <2>5. continuous \in {"off", "request", "pause", "done"}
    BY Zenon DEF Init
  <2>6. QED
    BY <2>1, <2>2, <2>3, <2>4, <2>5, Zenon DEF Init, TypeOK, Phases, Jobs
<1>2. TypeOK /\ [Next]_vars => TypeOK'
  <2> SUFFICES ASSUME TypeOK, [Next]_vars PROVE TypeOK'
    BY Zenon
  <2> USE DEF phaseVars, cycleVars, ticketVars, threadVars, callVars, continuousVars, faultVars
  <2>1. CASE AssertsHold(Mutator) /\ MutatorStep
    BY <2>1, TypeMutator, Zenon
  <2>2. CASE MutatorCall
    BY <2>2, TypeCall, Zenon
  <2>3. CASE AssertsHold(Collector) /\ CollectorStep
    BY <2>3, TypeCollector, Zenon
  <2>4. CASE continuousRequest
    <3>1. requests' \in Seq(GCRequest) /\ granted' \in Nat
      BY <2>4, AnyRequestType DEF continuousRequest, TypeOK
    <3>2. pc' \in [Conductors -> MutatorPCs \cup CollectorPCs] /\ pc'[Mutator] \in MutatorPCs
              /\ pc'[Collector] \in CollectorPCs
      BY <2>4 DEF continuousRequest, TypeOK, Goto, Notified, Conductors, Mutator, Collector,
                  CollectorPCs, MutatorPCs, ConductorPCs
    <3>3. QED
      BY <2>4, <3>1, <3>2 DEF continuousRequest, TypeOK
  <2>5. CASE continuousPause
    <3>1. continuous' \in {"off", "request", "pause", "done"}
      BY <2>5, Zenon DEF continuousPause
    <3>2. QED
      BY <2>5, <3>1 DEF continuousPause, TypeOK
  <2>6. CASE stopForTimeout
    BY <2>6 DEF stopForTimeout, Goto, TypeOK, Conductors, Mutator, Collector, CollectorPCs,
                MutatorPCs, ConductorPCs
  <2>7. CASE schedulerTick
    BY <2>7 DEF schedulerTick, TypeOK
  <2>8. CASE crash
    BY <2>8 DEF crash, TypeOK
  <2>9. CASE UNCHANGED vars
    BY <2>9 DEF vars, TypeOK
  <2>10. QED
    BY <2>1, <2>2, <2>3, <2>4, <2>5, <2>6, <2>7, <2>8, <2>9, Zenon DEF Next, ContinuousStep
<1>3. QED
  BY <1>1, <1>2, PTL DEF Spec

-----------------------------------------------------------------------------
(* The conn *)


(* A step of runCurrentPhase preserves the exclusion. *)
LEMMA ConnConductor ==
    ASSUME TypeOK, OneConductor, NEW c \in Conductors,
           PhaseAsserts(c), ConductorStep(c)
    PROVE  OneConductor'
<1> USE DEF OneConductor, MutatorConducts, CollectorConducts, ConductorPCs, Conductors,
            Mutator, Collector, Has, phaseVars, cycleVars, ticketVars, threadVars, callVars,
            continuousVars, faultVars
<1>a. /\ pc \in [Conductors -> MutatorPCs \cup CollectorPCs]
      /\ ret \in [Conductors -> {"check", "dispatch"}]
      /\ pc[Mutator] # "finalizeParked"
      /\ finRet \in {"acquireFinalize", "stopSlow", "stopEnd", "wait", "release", "resume", "suspend"}
  BY Zenon DEF TypeOK, MutatorPCs, ConductorPCs
<1>1. CASE runCurrentPhase(c)
  BY <1>a, <1>1, Zenon DEF runCurrentPhase, Goto
<1>2. CASE runNotRunningPhase(c)
  BY <1>a, <1>2 DEF runNotRunningPhase, Goto, changePhase, Finished
<1>3. CASE runBeginPhase(c)
  BY <1>a, <1>3, Zenon DEF runBeginPhase, changePhase, ScopesFor, Goto
<1>4. CASE runFixpointPhase(c)
  BY <1>a, <1>4, Zenon DEF runFixpointPhase, changePhase, Goto
<1>5. CASE runConcurrentPhase(c)
  BY <1>a, <1>5, Zenon DEF runConcurrentPhase, Goto, changePhase, Finished
<1>6. CASE runReloopPhase(c)
  BY <1>a, <1>6, Zenon DEF runReloopPhase, changePhase, Goto
<1>7. CASE runEndPhase(c)
  BY <1>a, <1>7, Zenon DEF runEndPhase, Goto
<1>8. CASE serveTicket(c)
  BY <1>a, <1>8, Zenon DEF serveTicket, Goto
<1>9. CASE serveUnpark(c)
  BY <1>a, <1>9, Zenon DEF serveUnpark, unparkAllAndGoto, Unparked
<1>10. CASE setNeedFinalize(c)
  BY <1>a, <1>10, Zenon DEF setNeedFinalize, Goto
<1>11. CASE setNeedFinalizeUnpark(c)
  BY <1>a, <1>11, Zenon DEF setNeedFinalizeUnpark, unparkAllAndGoto, Unparked
<1>12. CASE setNeedFinalizeTimer(c)
  BY <1>a, <1>12, Zenon DEF setNeedFinalizeTimer, Goto
<1>13. CASE endChange(c)
  BY <1>a, <1>13, Zenon DEF endChange, changePhase, Goto
<1>14. CASE finishChangingPhase(c)
  BY <1>a, <1>14, Zenon DEF finishChangingPhase, Goto, worldShouldBeSuspended
<1>15. CASE setPhase(c)
  BY <1>a, <1>15, Zenon DEF setPhase, Goto
<1>16. CASE stopThePeriphery(c)
  BY <1>a, <1>16, Zenon DEF stopThePeriphery, Goto
<1> QED
  BY <1>1, <1>2, <1>3, <1>4, <1>5, <1>6, <1>7, <1>8, <1>9, <1>10, <1>11, <1>12, <1>13, <1>14,
     <1>15, <1>16, Zenon DEF ConductorStep

(* A step of the collector thread preserves the exclusion. *)
LEMMA ConnCollector ==
    ASSUME TypeOK, OneConductor, AssertsHold(Collector), CollectorStep
    PROVE  OneConductor'
<1> USE DEF OneConductor, MutatorConducts, CollectorConducts, ConductorPCs, Conductors,
            Mutator, Collector, Has, phaseVars, cycleVars, ticketVars, threadVars, callVars,
            continuousVars, faultVars
<1>a. /\ pc \in [Conductors -> MutatorPCs \cup CollectorPCs]
      /\ ret \in [Conductors -> {"check", "dispatch"}]
      /\ pc[Mutator] # "finalizeParked"
      /\ finRet \in {"acquireFinalize", "stopSlow", "stopEnd", "wait", "release", "resume", "suspend"}
  BY Zenon DEF TypeOK, MutatorPCs, ConductorPCs
<1>1. CASE ConductorStep(Collector)
  BY <1>1, ConnConductor, Zenon DEF AssertsHold
<1>2. CASE resumeTheMutator
  BY <1>a, <1>2, Zenon DEF resumeTheMutator, Goto
<1>3. CASE resumeTheMutatorUnpark
  BY <1>a, <1>3, Zenon DEF resumeTheMutatorUnpark, unparkAllAndGoto, Unparked
<1>4. CASE waitWhileNeedFinalize
  BY <1>a, <1>4, Zenon DEF waitWhileNeedFinalize, Goto
<1>5. CASE stopTheMutator
  BY <1>a, <1>5 DEF stopTheMutator, Goto, Finished
<1>6. CASE stopTheMutatorHandoff
  BY <1>a, <1>6, Zenon DEF stopTheMutatorHandoff, Goto
<1>7. CASE stopTheMutatorUnpark
  BY <1>a, <1>7, Zenon DEF stopTheMutatorUnpark, unparkAllAndGoto, Finished, Unparked
<1>8. CASE poll
  BY <1>a, <1>8 DEF poll, Goto, unparkAllAndGoto, Unparked
<1> QED
  BY <1>1, <1>2, <1>3, <1>4, <1>5, <1>6, <1>7, <1>8, Zenon DEF CollectorStep

(* A step of a call of the mutator preserves the exclusion. *)
LEMMA ConnMutator ==
    ASSUME TypeOK, OneConductor, AssertsHold(Mutator), MutatorStep
    PROVE  OneConductor'
<1> USE DEF OneConductor, MutatorConducts, CollectorConducts, ConductorPCs, Conductors,
            Mutator, Collector, Has, phaseVars, cycleVars, ticketVars, threadVars, callVars,
            continuousVars, faultVars
<1>a. /\ pc \in [Conductors -> MutatorPCs \cup CollectorPCs]
      /\ ret \in [Conductors -> {"check", "dispatch"}]
      /\ pc[Mutator] # "finalizeParked"
      /\ finRet \in {"acquireFinalize", "stopSlow", "stopEnd", "wait", "release", "resume", "suspend"}
  BY Zenon DEF TypeOK, MutatorPCs, ConductorPCs
<1>1. CASE ConductorStep(Mutator)
  BY <1>1, ConnConductor, Zenon DEF AssertsHold
<1>2. CASE handleNeedFinalizeLoop \/ handleNeedFinalize("waitLoad", "wait")
  BY <1>a, <1>2, Zenon DEF handleNeedFinalizeLoop, handleNeedFinalize, Goto
<1>3. CASE finalize
  BY <1>a, <1>3, Zenon DEF finalize, unparkAllAndGoto, Unparked
<1>4. CASE mutatorResumes
  BY <1>a, <1>4, Zenon DEF mutatorResumes, Goto
<1>5. CASE cancelTimer
  BY <1>a, <1>5, Zenon DEF cancelTimer, Goto, Rest
<1>6. CASE acquireAccessSlow
  BY <1>a, <1>6 DEF acquireAccessSlow, Goto, Rest
<1>7. CASE acquireAccessFinalized
  BY <1>a, <1>7, Zenon DEF acquireAccessFinalized, Goto, Rest
<1>8. CASE releaseAccessSlow
  BY <1>a, <1>8, Zenon DEF releaseAccessSlow, Goto, Rest
<1>9. CASE finishRelinquishingConn
  BY <1>a, <1>9, Zenon DEF finishRelinquishingConn, Unparked, Notified, Rest
<1>10. CASE stopIfNecessary
  BY <1>a, <1>10, Zenon DEF stopIfNecessary, Goto, AfterStop, Rest
<1>11. CASE stopIfNecessarySlow
  BY <1>a, <1>11, Zenon DEF stopIfNecessarySlow, Goto, Rest
<1>12. CASE stopIfNecessaryEnd
  BY <1>a, <1>12, Zenon DEF stopIfNecessaryEnd, Goto, AfterStop, Rest
<1>13. CASE requestCollection
  <2>1. CASE served = granted /\ currentPhase = "NotRunning"
    <3>1. ~raced' => ~raced /\ ~CollectorConducts
      BY <1>13, <2>1, Zenon DEF requestCollection
    <3>2. worldState' = worldState \cup {"mutatorHasConn"}
      BY <1>13, <2>1, Zenon DEF requestCollection
    <3>3. QED
      BY <1>a, <1>13, <3>1, <3>2, Zenon DEF requestCollection, Goto
  <2>2. CASE ~(served = granted /\ currentPhase = "NotRunning")
    <3>1. worldState' = worldState /\ raced' = raced
      BY <1>13, <2>2, Zenon DEF requestCollection
    <3>2. QED
      BY <1>a, <1>13, <3>1, Zenon DEF requestCollection, Goto
  <2>3. QED
    BY <2>1, <2>2, Zenon
<1>14. CASE requestCollectionAppend
  BY <1>a, <1>14, Zenon DEF requestCollectionAppend, Notified
<1>15. CASE waitForCollector
  BY <1>a, <1>15, Zenon DEF waitForCollector, Goto, CollectorIsDone, Rest
<1>16. CASE waitForCollectorLoad
  BY <1>a, <1>16, Zenon DEF waitForCollectorLoad, Goto, Rest
<1>17. CASE relinquishConn
  BY <1>a, <1>17, Zenon DEF relinquishConn, Goto, Rest
<1>18. CASE waitForCollectorEnd
  BY <1>a, <1>18 DEF waitForCollectorEnd, Goto, Rest
<1>19. CASE joinContinuousThread
  BY <1>a, <1>19, Zenon DEF joinContinuousThread, Goto, Rest
<1>20. CASE checkIsCollecting
  BY <1>a, <1>20, Zenon DEF checkIsCollecting, Goto, Rest
<1>21. CASE stopThread
  BY <1>a, <1>21, Zenon DEF stopThread, Notified
<1>22. CASE join
  BY <1>a, <1>22, Zenon DEF join, Goto, Rest
<1>23. CASE pc[Mutator] = "unlock" /\ releaseAccess
  BY <1>a, <1>23, Zenon DEF releaseAccess, Goto, Rest
<1> QED
  BY <1>1, <1>2, <1>3, <1>4, <1>5, <1>6, <1>7, <1>8, <1>9, <1>10, <1>11, <1>12, <1>13, <1>14,
     <1>15, <1>16, <1>17, <1>18, <1>19, <1>20, <1>21, <1>22, <1>23, Zenon DEF MutatorStep

(* The beginning of a call preserves the exclusion. *)
LEMMA ConnCall ==
    ASSUME TypeOK, OneConductor, MutatorCall
    PROVE  OneConductor'
<1> USE DEF OneConductor, MutatorConducts, CollectorConducts, ConductorPCs, Conductors,
            Mutator, Collector, Has, phaseVars, cycleVars, ticketVars, threadVars, callVars,
            continuousVars, faultVars
<1>a. /\ pc \in [Conductors -> MutatorPCs \cup CollectorPCs]
      /\ ret \in [Conductors -> {"check", "dispatch"}]
      /\ pc[Mutator] # "finalizeParked"
      /\ finRet \in {"acquireFinalize", "stopSlow", "stopEnd", "wait", "release", "resume", "suspend"}
  BY Zenon DEF TypeOK, MutatorPCs, ConductorPCs
<1>1. CASE acquireAccess("acquire")
  BY <1>a, <1>1 DEF acquireAccess, Goto, AfterAcquire, Rest
<1>2. CASE timerDidFire
  BY <1>a, <1>2 DEF timerDidFire, acquireAccess, Goto, AfterAcquire, Rest
<1>3. CASE pc[Mutator] = "run" /\ releaseAccess
  BY <1>a, <1>3, Zenon DEF releaseAccess, Goto, Rest
<1>4. CASE callStopIfNecessary
  BY <1>a, <1>4, Zenon DEF callStopIfNecessary, Goto, Rest
<1>5. ASSUME NEW r \in Requests, NEW kind \in {"async", "asyncNow"}, collectAsync(kind, r)
      PROVE  OneConductor'
  BY <1>a, <1>5, Zenon DEF collectAsync, Goto, Rest
<1>6. ASSUME NEW r \in Requests, collectSync(r)
      PROVE  OneConductor'
  BY <1>a, <1>6, Zenon DEF collectSync, Goto, Rest
<1>7. CASE preventCollection
  BY <1>a, <1>7, Zenon DEF preventCollection, Goto
<1>8. CASE allowCollection
  BY <1>a, <1>8, Zenon DEF allowCollection
<1>9. CASE lastChanceToFinalize
  BY <1>a, <1>9, Zenon DEF lastChanceToFinalize, Goto
<1> QED
  BY <1>1, <1>2, <1>3, <1>4, <1>5, <1>6, <1>7, <1>8, <1>9, Zenon DEF MutatorCall

(* The conn is exclusive in every behaviour in which requestCollection     *)
(* does not steal it from a running collector thread: OneConductor is      *)
(* inductive by itself.  A thread enters runCurrentPhase only after it     *)
(* saw the conn on its side (stopIfNecessarySlow, waitForCollector,        *)
(* shouldCollectInCollectorThread), and gives it away only as it leaves.   *)
THEOREM ConnIsExclusive == Spec => []OneConductor
<1>1. Init => OneConductor
  BY Zenon DEF Init, OneConductor, MutatorConducts, CollectorConducts, ConductorPCs, Conductors,
         Mutator, Collector, Has, TypeOK, CollectorPCs, MutatorPCs
<1>2. TypeOK /\ OneConductor /\ [Next]_vars => OneConductor'
  <2> SUFFICES ASSUME TypeOK, OneConductor, [Next]_vars PROVE OneConductor'
    BY Zenon
  <2> USE DEF OneConductor, MutatorConducts, CollectorConducts, ConductorPCs, Conductors,
              Mutator, Collector, Has, phaseVars, cycleVars, ticketVars, threadVars, callVars,
              continuousVars, faultVars
  <2>a. pc \in [Conductors -> MutatorPCs \cup CollectorPCs]
    BY Zenon DEF TypeOK
  <2>1. CASE AssertsHold(Mutator) /\ MutatorStep
    BY <2>1, ConnMutator, Zenon
  <2>2. CASE MutatorCall
    BY <2>2, ConnCall, Zenon
  <2>3. CASE AssertsHold(Collector) /\ CollectorStep
    BY <2>3, ConnCollector, Zenon
  <2>4. CASE continuousRequest
    BY <2>a, <2>4, Zenon DEF continuousRequest, Goto, Notified
  <2>5. CASE continuousPause
    BY <2>a, <2>5, Zenon DEF continuousPause
  <2>6. CASE stopForTimeout
    BY <2>a, <2>6, Zenon DEF stopForTimeout, Goto
  <2>7. CASE schedulerTick
    BY <2>a, <2>7, Zenon DEF schedulerTick
  <2>8. CASE crash
    BY <2>a, <2>8, Zenon DEF crash
  <2>9. CASE UNCHANGED vars
    BY <2>9, Zenon DEF vars
  <2>10. QED
    BY <2>1, <2>2, <2>3, <2>4, <2>5, <2>6, <2>7, <2>8, <2>9, Zenon DEF Next, ContinuousStep
<1>3. QED
  BY <1>1, <1>2, TypeCorrect, PTL DEF Spec

-----------------------------------------------------------------------------
(* Stopping the world *)

(* c is at one of the labels, or runs finalizers and goes on there.         *)
At(c, labels) ==
    \/ pc[c] \in labels
    \/ c = Mutator /\ pc[c] = "finalize" /\ finRet \in labels

(* The inductive strengthening of WorldStopIsReal: the stopped bit excludes *)
(* heap access and is set while the collector believes in the stop, which   *)
(* it does only in a phase for which the world should be suspended; and     *)
(* where each conductor is inside finishChangingPhase tells which of the    *)
(* two phases that is.                                                      *)
StopInv == ~raced =>
    /\ Has("stopped") => ~Has("hasAccess")
    /\ pc[Collector] = "periphery" => Has("stopped")
    /\ worldIsStopped => worldShouldBeSuspended(currentPhase)
    /\ worldIsStopped /\ ~MutatorConducts => Has("stopped")
    /\ \A c \in Conductors :
          /\ At(c, {"resume", "resumeUnpark", "setPhase"}) =>
                /\ ~worldIsStopped
                /\ worldShouldBeSuspended(currentPhase) /\ ~worldShouldBeSuspended(nextPhase)
          /\ At(c, {"suspend", "stop", "finalizeParked", "periphery"}) =>
                worldShouldBeSuspended(nextPhase) /\ ~worldShouldBeSuspended(currentPhase)


(* A step of runCurrentPhase preserves StopInv. *)
LEMMA StopConductor ==
    ASSUME TypeOK, OneConductor, StopInv, NEW c \in Conductors,
           PhaseAsserts(c), ConductorStep(c)
    PROVE  StopInv'
<1> USE DEF StopInv, At, worldShouldBeSuspended, MutatorConducts, ConductorPCs, Conductors,
            Mutator, Collector, Has, phaseVars, cycleVars, ticketVars, threadVars, callVars,
            continuousVars, faultVars
<1>a. /\ pc \in [Conductors -> MutatorPCs \cup CollectorPCs]
      /\ ret \in [Conductors -> {"check", "dispatch"}]
      /\ pc[Mutator] # "finalizeParked"
      /\ finRet \in {"acquireFinalize", "stopSlow", "stopEnd", "wait", "release", "resume", "suspend"}
  BY Zenon DEF TypeOK, MutatorPCs, ConductorPCs
<1>1. CASE runCurrentPhase(c)
  BY <1>a, <1>1, Zenon DEF runCurrentPhase, Goto
<1>2. CASE runNotRunningPhase(c)
  BY <1>a, <1>2, Zenon DEF runNotRunningPhase, Goto, changePhase, Finished
<1>3. CASE runBeginPhase(c)
  BY <1>a, <1>3, Zenon DEF runBeginPhase, changePhase, ScopesFor, Goto, OneConductor,
     CollectorConducts
<1>4. CASE runFixpointPhase(c)
  BY <1>a, <1>4 DEF runFixpointPhase, changePhase, Goto, OneConductor, CollectorConducts
<1>5. CASE runConcurrentPhase(c)
  BY <1>a, <1>5, Zenon DEF runConcurrentPhase, Goto, changePhase, Finished
<1>6. CASE runReloopPhase(c)
  BY <1>a, <1>6, Zenon DEF runReloopPhase, changePhase, Goto, OneConductor, CollectorConducts
<1>7. CASE runEndPhase(c)
  BY <1>a, <1>7, Zenon DEF runEndPhase, Goto
<1>8. CASE serveTicket(c)
  BY <1>a, <1>8, Zenon DEF serveTicket, Goto
<1>9. CASE serveUnpark(c)
  BY <1>a, <1>9, Zenon DEF serveUnpark, unparkAllAndGoto, Unparked
<1>10. CASE setNeedFinalize(c)
  BY <1>a, <1>10, Zenon DEF setNeedFinalize, Goto
<1>11. CASE setNeedFinalizeUnpark(c)
  BY <1>a, <1>11, Zenon DEF setNeedFinalizeUnpark, unparkAllAndGoto, Unparked
<1>12. CASE setNeedFinalizeTimer(c)
  BY <1>a, <1>12, Zenon DEF setNeedFinalizeTimer, Goto
<1>13. CASE endChange(c)
  BY <1>a, <1>13, Zenon DEF endChange, changePhase, Goto, OneConductor, CollectorConducts
<1>14. CASE finishChangingPhase(c)
  BY <1>a, <1>14 DEF finishChangingPhase, Goto
<1>15. CASE setPhase(c)
  BY <1>a, <1>15, Zenon DEF setPhase, Goto, OneConductor, CollectorConducts
<1>16. CASE stopThePeriphery(c)
  BY <1>a, <1>16, Zenon DEF stopThePeriphery, Goto, OneConductor, CollectorConducts
<1> QED
  BY <1>1, <1>2, <1>3, <1>4, <1>5, <1>6, <1>7, <1>8, <1>9, <1>10, <1>11, <1>12, <1>13, <1>14,
     <1>15, <1>16, Zenon DEF ConductorStep

(* A step of the collector thread preserves StopInv. *)
LEMMA StopCollector ==
    ASSUME TypeOK, OneConductor, StopInv, AssertsHold(Collector), CollectorStep
    PROVE  StopInv'
<1> USE DEF StopInv, At, worldShouldBeSuspended, MutatorConducts, ConductorPCs, Conductors,
            Mutator, Collector, Has, phaseVars, cycleVars, ticketVars, threadVars, callVars,
            continuousVars, faultVars
<1>a. /\ pc \in [Conductors -> MutatorPCs \cup CollectorPCs]
      /\ ret \in [Conductors -> {"check", "dispatch"}]
      /\ pc[Mutator] # "finalizeParked"
      /\ finRet \in {"acquireFinalize", "stopSlow", "stopEnd", "wait", "release", "resume", "suspend"}
  BY Zenon DEF TypeOK, MutatorPCs, ConductorPCs
<1>1. CASE ConductorStep(Collector)
  BY <1>1, StopConductor, Zenon DEF AssertsHold
<1>2. CASE resumeTheMutator
  BY <1>a, <1>2, Zenon DEF resumeTheMutator, Goto
<1>3. CASE resumeTheMutatorUnpark
  BY <1>a, <1>3, Zenon DEF resumeTheMutatorUnpark, unparkAllAndGoto, Unparked
<1>4. CASE waitWhileNeedFinalize
  BY <1>a, <1>4, Zenon DEF waitWhileNeedFinalize, Goto
<1>5. CASE stopTheMutator
  BY <1>a, <1>5 DEF stopTheMutator, Goto, Finished
<1>6. CASE stopTheMutatorHandoff
  BY <1>a, <1>6, Zenon DEF stopTheMutatorHandoff, Goto
<1>7. CASE stopTheMutatorUnpark
  BY <1>a, <1>7, Zenon DEF stopTheMutatorUnpark, unparkAllAndGoto, Finished, Unparked
<1>8. CASE poll
  BY <1>a, <1>8 DEF poll, Goto, unparkAllAndGoto, Unparked
<1> QED
  BY <1>1, <1>2, <1>3, <1>4, <1>5, <1>6, <1>7, <1>8, Zenon DEF CollectorStep

(* A step of a call of the mutator preserves StopInv. *)
LEMMA StopMutator ==
    ASSUME TypeOK, OneConductor, StopInv, AssertsHold(Mutator), MutatorStep
    PROVE  StopInv'
<1> USE DEF StopInv, At, worldShouldBeSuspended, MutatorConducts, ConductorPCs, Conductors,
            Mutator, Collector, Has, phaseVars, cycleVars, ticketVars, threadVars, callVars,
            continuousVars, faultVars
<1>a. /\ pc \in [Conductors -> MutatorPCs \cup CollectorPCs]
      /\ ret \in [Conductors -> {"check", "dispatch"}]
      /\ pc[Mutator] # "finalizeParked"
      /\ finRet \in {"acquireFinalize", "stopSlow", "stopEnd", "wait", "release", "resume", "suspend"}
  BY Zenon DEF TypeOK, MutatorPCs, ConductorPCs
<1>1. CASE ConductorStep(Mutator)
  BY <1>1, StopConductor, Zenon DEF AssertsHold
<1>2. CASE handleNeedFinalizeLoop \/ handleNeedFinalize("waitLoad", "wait")
  BY <1>a, <1>2 DEF handleNeedFinalizeLoop, handleNeedFinalize, Goto
<1>3. CASE finalize
  BY <1>a, <1>3, Zenon DEF finalize, unparkAllAndGoto, Unparked
<1>4. CASE mutatorResumes
  BY <1>a, <1>4, Zenon DEF mutatorResumes, Goto
<1>5. CASE cancelTimer
  BY <1>a, <1>5, Zenon DEF cancelTimer, Goto, Rest
<1>6. CASE acquireAccessSlow
  BY <1>a, <1>6 DEF acquireAccessSlow, Goto, Rest
<1>7. CASE acquireAccessFinalized
  BY <1>a, <1>7, Zenon DEF acquireAccessFinalized, Goto, Rest
<1>8. CASE releaseAccessSlow
  BY <1>a, <1>8, Zenon DEF releaseAccessSlow, Goto, Rest
<1>9. CASE finishRelinquishingConn
  BY <1>a, <1>9, Zenon DEF finishRelinquishingConn, Unparked, Notified, Rest
<1>10. CASE stopIfNecessary
  BY <1>a, <1>10, Zenon DEF stopIfNecessary, Goto, AfterStop, Rest
<1>11. CASE stopIfNecessarySlow
  BY <1>a, <1>11, Zenon DEF stopIfNecessarySlow, Goto, Rest
<1>12. CASE stopIfNecessaryEnd
  BY <1>a, <1>12, Zenon DEF stopIfNecessaryEnd, Goto, AfterStop, Rest
<1>13. CASE requestCollection
  <2>1. ~raced' => ~raced
    BY <1>13, Zenon DEF requestCollection
  <2>2. QED
    BY <1>a, <1>13, <2>1 DEF requestCollection, Goto
<1>14. CASE requestCollectionAppend
  BY <1>a, <1>14, Zenon DEF requestCollectionAppend, Notified
<1>15. CASE waitForCollector
  BY <1>a, <1>15, Zenon DEF waitForCollector, Goto, CollectorIsDone, Rest
<1>16. CASE waitForCollectorLoad
  BY <1>a, <1>16, Zenon DEF waitForCollectorLoad, Goto, Rest
<1>17. CASE relinquishConn
  BY <1>a, <1>17, Zenon DEF relinquishConn, Goto, Rest
<1>18. CASE waitForCollectorEnd
  BY <1>a, <1>18, Zenon DEF waitForCollectorEnd, Goto, Rest
<1>19. CASE joinContinuousThread
  BY <1>a, <1>19, Zenon DEF joinContinuousThread, Goto, Rest
<1>20. CASE checkIsCollecting
  BY <1>a, <1>20, Zenon DEF checkIsCollecting, Goto, Rest
<1>21. CASE stopThread
  BY <1>a, <1>21, Zenon DEF stopThread, Notified
<1>22. CASE join
  BY <1>a, <1>22, Zenon DEF join, Goto, Rest
<1>23. CASE pc[Mutator] = "unlock" /\ releaseAccess
  BY <1>a, <1>23, Zenon DEF releaseAccess, Goto, Rest
<1> QED
  BY <1>1, <1>2, <1>3, <1>4, <1>5, <1>6, <1>7, <1>8, <1>9, <1>10, <1>11, <1>12, <1>13, <1>14,
     <1>15, <1>16, <1>17, <1>18, <1>19, <1>20, <1>21, <1>22, <1>23, Zenon DEF MutatorStep

(* The beginning of a call preserves StopInv. *)
LEMMA StopCall ==
    ASSUME TypeOK, OneConductor, StopInv, MutatorCall
    PROVE  StopInv'
<1> USE DEF StopInv, At, worldShouldBeSuspended, MutatorConducts, ConductorPCs, Conductors,
            Mutator, Collector, Has, phaseVars, cycleVars, ticketVars, threadVars, callVars,
            continuousVars, faultVars
<1>a. /\ pc \in [Conductors -> MutatorPCs \cup CollectorPCs]
      /\ ret \in [Conductors -> {"check", "dispatch"}]
      /\ pc[Mutator] # "finalizeParked"
      /\ finRet \in {"acquireFinalize", "stopSlow", "stopEnd", "wait", "release", "resume", "suspend"}
  BY Zenon DEF TypeOK, MutatorPCs, ConductorPCs
<1>1. CASE acquireAccess("acquire")
  BY <1>a, <1>1 DEF acquireAccess, Goto, AfterAcquire, Rest
<1>2. CASE timerDidFire
  BY <1>a, <1>2 DEF timerDidFire, acquireAccess, Goto, AfterAcquire, Rest
<1>3. CASE pc[Mutator] = "run" /\ releaseAccess
  BY <1>a, <1>3, Zenon DEF releaseAccess, Goto, Rest
<1>4. CASE callStopIfNecessary
  BY <1>a, <1>4, Zenon DEF callStopIfNecessary, Goto, Rest
<1>5. ASSUME NEW r \in Requests, NEW kind \in {"async", "asyncNow"}, collectAsync(kind, r)
      PROVE  StopInv'
  BY <1>a, <1>5, Zenon DEF collectAsync, Goto, Rest
<1>6. ASSUME NEW r \in Requests, collectSync(r)
      PROVE  StopInv'
  BY <1>a, <1>6, Zenon DEF collectSync, Goto, Rest
<1>7. CASE preventCollection
  BY <1>a, <1>7, Zenon DEF preventCollection, Goto
<1>8. CASE allowCollection
  BY <1>a, <1>8, Zenon DEF allowCollection
<1>9. CASE lastChanceToFinalize
  BY <1>a, <1>9, Zenon DEF lastChanceToFinalize, Goto
<1> QED
  BY <1>1, <1>2, <1>3, <1>4, <1>5, <1>6, <1>7, <1>8, <1>9, Zenon DEF MutatorCall

(* StopInv is an invariant.                                                 *)
THEOREM StopInvariant == Spec => []StopInv
<1>1. Init => StopInv
  BY Zenon DEF Init, StopInv, At, worldShouldBeSuspended, MutatorConducts, ConductorPCs, Conductors,
         Mutator, Collector, Has
<1>2. TypeOK /\ OneConductor /\ StopInv /\ [Next]_vars => StopInv'
  <2> SUFFICES ASSUME TypeOK, OneConductor, StopInv, [Next]_vars PROVE StopInv'
    BY Zenon
  <2> USE DEF StopInv, At, worldShouldBeSuspended, MutatorConducts, ConductorPCs, Conductors,
              Mutator, Collector, Has, phaseVars, cycleVars, ticketVars, threadVars, callVars,
              continuousVars, faultVars
  <2>a. pc \in [Conductors -> MutatorPCs \cup CollectorPCs]
    BY Zenon DEF TypeOK
  <2>1. CASE AssertsHold(Mutator) /\ MutatorStep
    BY <2>1, StopMutator, Zenon
  <2>2. CASE MutatorCall
    BY <2>2, StopCall, Zenon
  <2>3. CASE AssertsHold(Collector) /\ CollectorStep
    BY <2>3, StopCollector, Zenon
  <2>4. CASE continuousRequest
    BY <2>a, <2>4, Zenon DEF continuousRequest, Goto, Notified
  <2>5. CASE continuousPause
    BY <2>a, <2>5, Zenon DEF continuousPause
  <2>6. CASE stopForTimeout
    BY <2>a, <2>6, Zenon DEF stopForTimeout, Goto
  <2>7. CASE schedulerTick
    BY <2>a, <2>7, Zenon DEF schedulerTick
  <2>8. CASE crash
    BY <2>a, <2>8, Zenon DEF crash
  <2>9. CASE UNCHANGED vars
    BY <2>9, Zenon DEF vars
  <2>10. QED
    BY <2>1, <2>2, <2>3, <2>4, <2>5, <2>6, <2>7, <2>8, <2>9, Zenon DEF Next, ContinuousStep
<1>3. QED
  BY <1>1, <1>2, TypeCorrect, ConnIsExclusive, PTL DEF Spec

(* While the collector believes that the world is stopped, the mutator has  *)
(* no heap access unless it conducts the collection itself.                 *)
THEOREM StopTheWorld == Spec => []WorldStopIsReal
<1>1. StopInv => WorldStopIsReal
  BY Zenon DEF StopInv, WorldStopIsReal
<1>2. QED
  BY <1>1, StopInvariant, PTL

-----------------------------------------------------------------------------
(* Tickets and requests *)

(* The inductive strengthening of ServesItsRequest: m_requests is popped    *)
(* only between the end of a collection and the beginning of the next.      *)
ServesInv == ~raced =>
    /\ granted = served + Len(requests)
    /\ collectionScope # "none" => requests # <<>> /\ currentRequest = Head(requests)
    /\ \A c \in Conductors : pc[c] = "serve" => collectionScope = "none"


(* A step of runCurrentPhase preserves ServesInv. *)
LEMMA ServesConductor ==
    ASSUME TypeOK, OneConductor, ServesInv, NEW c \in Conductors,
           PhaseAsserts(c), ConductorStep(c)
    PROVE  ServesInv'
<1> USE DEF ServesInv, Conductors, Mutator, Collector, Has, phaseVars, cycleVars, ticketVars,
            threadVars, callVars, continuousVars, faultVars
<1>a. /\ pc \in [Conductors -> MutatorPCs \cup CollectorPCs]
      /\ ret \in [Conductors -> {"check", "dispatch"}]
      /\ pc[Mutator] # "finalizeParked"
      /\ finRet \in {"acquireFinalize", "stopSlow", "stopEnd", "wait", "release", "resume", "suspend"}
  BY Zenon DEF TypeOK, MutatorPCs, ConductorPCs
<1>1. CASE runCurrentPhase(c)
  BY <1>a, <1>1, Zenon DEF runCurrentPhase, Goto
<1>2. CASE runNotRunningPhase(c)
  BY <1>a, <1>2, Zenon DEF runNotRunningPhase, Goto, changePhase, Finished
<1>3. CASE runBeginPhase(c)
  <2>1. requests # <<>>
    BY <1>3, Zenon DEF runBeginPhase, PhaseAsserts
  <2>2. QED
    BY <1>a, <1>3, <2>1, Zenon DEF runBeginPhase, changePhase, Goto, OneConductor, MutatorConducts,
       CollectorConducts, ConductorPCs
<1>4. CASE runFixpointPhase(c)
  BY <1>a, <1>4, Zenon DEF runFixpointPhase, changePhase, Goto
<1>5. CASE runConcurrentPhase(c)
  BY <1>a, <1>5, Zenon DEF runConcurrentPhase, Goto, changePhase, Finished
<1>6. CASE runReloopPhase(c)
  BY <1>a, <1>6, Zenon DEF runReloopPhase, changePhase, Goto
<1>7. CASE runEndPhase(c)
  BY <1>a, <1>7, Zenon DEF runEndPhase, Goto
<1>8. CASE serveTicket(c)
  <2>1. requests # <<>> /\ requests \in Seq(GCRequest)
    BY <1>8, Zenon DEF serveTicket, PhaseAsserts, TypeOK
  <2>2. Len(Tail(requests)) = Len(requests) - 1 /\ Len(requests) \in Nat
    BY <2>1
  <2>3. ~raced' => granted' = served' + Len(requests')
    <3>1. /\ requests' = Tail(requests) /\ served' = served + 1
          /\ granted' = granted /\ raced' = raced
      BY <1>8, Zenon DEF serveTicket
    <3>2. served \in Nat /\ granted \in Nat /\ (~raced => granted = served + Len(requests))
      BY Zenon DEF TypeOK
    <3> HIDE DEF ServesInv
    <3>3. Len(requests') = Len(requests) - 1 /\ Len(requests) \in Nat
      BY <2>2, <3>1, Zenon
    <3>4. ~raced => granted = (served + 1) + (Len(requests) - 1)
      BY <3>2, <3>3
    <3>5. QED
      BY <3>1, <3>3, <3>4, Zenon
  <2>4. ~raced => collectionScope = "none"
    BY <1>8, Zenon DEF serveTicket
  <2>5. QED
    BY <1>a, <1>8, <2>3, <2>4, Zenon DEF serveTicket, Goto
<1>9. CASE serveUnpark(c)
  BY <1>a, <1>9, Zenon DEF serveUnpark, unparkAllAndGoto, Unparked
<1>10. CASE setNeedFinalize(c)
  BY <1>a, <1>10, Zenon DEF setNeedFinalize, Goto
<1>11. CASE setNeedFinalizeUnpark(c)
  BY <1>a, <1>11, Zenon DEF setNeedFinalizeUnpark, unparkAllAndGoto, Unparked
<1>12. CASE setNeedFinalizeTimer(c)
  BY <1>a, <1>12, Zenon DEF setNeedFinalizeTimer, Goto
<1>13. CASE endChange(c)
  BY <1>a, <1>13, Zenon DEF endChange, changePhase, Goto
<1>14. CASE finishChangingPhase(c)
  BY <1>a, <1>14, Zenon DEF finishChangingPhase, Goto, worldShouldBeSuspended
<1>15. CASE setPhase(c)
  BY <1>a, <1>15, Zenon DEF setPhase, Goto
<1>16. CASE stopThePeriphery(c)
  BY <1>a, <1>16, Zenon DEF stopThePeriphery, Goto
<1> QED
  BY <1>1, <1>2, <1>3, <1>4, <1>5, <1>6, <1>7, <1>8, <1>9, <1>10, <1>11, <1>12, <1>13, <1>14,
     <1>15, <1>16, Zenon DEF ConductorStep

(* A step of the collector thread preserves ServesInv. *)
LEMMA ServesCollector ==
    ASSUME TypeOK, OneConductor, ServesInv, AssertsHold(Collector), CollectorStep
    PROVE  ServesInv'
<1> USE DEF ServesInv, Conductors, Mutator, Collector, Has, phaseVars, cycleVars, ticketVars,
            threadVars, callVars, continuousVars, faultVars
<1>a. /\ pc \in [Conductors -> MutatorPCs \cup CollectorPCs]
      /\ ret \in [Conductors -> {"check", "dispatch"}]
      /\ pc[Mutator] # "finalizeParked"
      /\ finRet \in {"acquireFinalize", "stopSlow", "stopEnd", "wait", "release", "resume", "suspend"}
  BY Zenon DEF TypeOK, MutatorPCs, ConductorPCs
<1>1. CASE ConductorStep(Collector)
  BY <1>1, ServesConductor, Zenon DEF AssertsHold
<1>2. CASE resumeTheMutator
  BY <1>a, <1>2, Zenon DEF resumeTheMutator, Goto
<1>3. CASE resumeTheMutatorUnpark
  BY <1>a, <1>3, Zenon DEF resumeTheMutatorUnpark, unparkAllAndGoto, Unparked
<1>4. CASE waitWhileNeedFinalize
  BY <1>a, <1>4, Zenon DEF waitWhileNeedFinalize, Goto
<1>5. CASE stopTheMutator
  BY <1>a, <1>5, Zenon DEF stopTheMutator, Goto, Finished
<1>6. CASE stopTheMutatorHandoff
  BY <1>a, <1>6, Zenon DEF stopTheMutatorHandoff, Goto
<1>7. CASE stopTheMutatorUnpark
  BY <1>a, <1>7, Zenon DEF stopTheMutatorUnpark, unparkAllAndGoto, Finished, Unparked
<1>8. CASE poll
  BY <1>a, <1>8, Zenon DEF poll, Goto, unparkAllAndGoto, Unparked
<1> QED
  BY <1>1, <1>2, <1>3, <1>4, <1>5, <1>6, <1>7, <1>8, Zenon DEF CollectorStep

(* A step of a call of the mutator preserves ServesInv. *)
LEMMA ServesMutator ==
    ASSUME TypeOK, OneConductor, ServesInv, AssertsHold(Mutator), MutatorStep
    PROVE  ServesInv'
<1> USE DEF ServesInv, Conductors, Mutator, Collector, Has, phaseVars, cycleVars, ticketVars,
            threadVars, callVars, continuousVars, faultVars
<1>a. /\ pc \in [Conductors -> MutatorPCs \cup CollectorPCs]
      /\ ret \in [Conductors -> {"check", "dispatch"}]
      /\ pc[Mutator] # "finalizeParked"
      /\ finRet \in {"acquireFinalize", "stopSlow", "stopEnd", "wait", "release", "resume", "suspend"}
  BY Zenon DEF TypeOK, MutatorPCs, ConductorPCs
<1>1. CASE ConductorStep(Mutator)
  BY <1>1, ServesConductor, Zenon DEF AssertsHold
<1>2. CASE handleNeedFinalizeLoop \/ handleNeedFinalize("waitLoad", "wait")
  BY <1>a, <1>2, Zenon DEF handleNeedFinalizeLoop, handleNeedFinalize, Goto
<1>3. CASE finalize
  BY <1>a, <1>3, Zenon DEF finalize, unparkAllAndGoto, Unparked
<1>4. CASE mutatorResumes
  BY <1>a, <1>4, Zenon DEF mutatorResumes, Goto
<1>5. CASE cancelTimer
  BY <1>a, <1>5, Zenon DEF cancelTimer, Goto, Rest
<1>6. CASE acquireAccessSlow
  BY <1>a, <1>6, Zenon DEF acquireAccessSlow, Goto, Rest
<1>7. CASE acquireAccessFinalized
  BY <1>a, <1>7, Zenon DEF acquireAccessFinalized, Goto, Rest
<1>8. CASE releaseAccessSlow
  BY <1>a, <1>8, Zenon DEF releaseAccessSlow, Goto, Rest
<1>9. CASE finishRelinquishingConn
  BY <1>a, <1>9, Zenon DEF finishRelinquishingConn, Unparked, Notified, Rest
<1>10. CASE stopIfNecessary
  BY <1>a, <1>10, Zenon DEF stopIfNecessary, Goto, AfterStop, Rest
<1>11. CASE stopIfNecessarySlow
  BY <1>a, <1>11, Zenon DEF stopIfNecessarySlow, Goto, Rest
<1>12. CASE stopIfNecessaryEnd
  BY <1>a, <1>12, Zenon DEF stopIfNecessaryEnd, Goto, AfterStop, Rest
<1>13. CASE requestCollection
  <2>1. ~raced' => ~raced
    BY <1>13, Zenon DEF requestCollection
  <2>2. QED
    BY <1>a, <1>13, <2>1, Zenon DEF requestCollection, Goto
<1>14. CASE requestCollectionAppend
  <2>1. Len(requests') = Len(requests) + 1 /\ Len(requests) \in Nat
    BY <1>14 DEF requestCollectionAppend, TypeOK
  <2>2. requests # <<>> => requests' # <<>> /\ Head(requests') = Head(requests)
    BY <1>14 DEF requestCollectionAppend, TypeOK
  <2>3. \A c \in Conductors : pc'[c] = "serve" => pc[c] = "serve"
    BY <1>14, Zenon DEF requestCollectionAppend, Notified
  <2>4. ~raced' => granted' = served' + Len(requests')
    BY <1>14, <2>1 DEF requestCollectionAppend, TypeOK
  <2>5. QED
    BY <1>14, <2>2, <2>3, <2>4, Zenon DEF requestCollectionAppend
<1>15. CASE waitForCollector
  BY <1>a, <1>15, Zenon DEF waitForCollector, Goto, CollectorIsDone, Rest
<1>16. CASE waitForCollectorLoad
  BY <1>a, <1>16, Zenon DEF waitForCollectorLoad, Goto, Rest
<1>17. CASE relinquishConn
  BY <1>a, <1>17, Zenon DEF relinquishConn, Goto, Rest
<1>18. CASE waitForCollectorEnd
  BY <1>a, <1>18, Zenon DEF waitForCollectorEnd, Goto, Rest
<1>19. CASE joinContinuousThread
  BY <1>a, <1>19, Zenon DEF joinContinuousThread, Goto, Rest
<1>20. CASE checkIsCollecting
  BY <1>a, <1>20, Zenon DEF checkIsCollecting, Goto, Rest
<1>21. CASE stopThread
  BY <1>a, <1>21, Zenon DEF stopThread, Notified
<1>22. CASE join
  BY <1>a, <1>22, Zenon DEF join, Goto, Rest
<1>23. CASE pc[Mutator] = "unlock" /\ releaseAccess
  BY <1>a, <1>23, Zenon DEF releaseAccess, Goto, Rest
<1> QED
  BY <1>1, <1>2, <1>3, <1>4, <1>5, <1>6, <1>7, <1>8, <1>9, <1>10, <1>11, <1>12, <1>13, <1>14,
     <1>15, <1>16, <1>17, <1>18, <1>19, <1>20, <1>21, <1>22, <1>23, Zenon DEF MutatorStep

(* The beginning of a call preserves ServesInv. *)
LEMMA ServesCall ==
    ASSUME TypeOK, OneConductor, ServesInv, MutatorCall
    PROVE  ServesInv'
<1> USE DEF ServesInv, Conductors, Mutator, Collector, Has, phaseVars, cycleVars, ticketVars,
            threadVars, callVars, continuousVars, faultVars
<1>a. /\ pc \in [Conductors -> MutatorPCs \cup CollectorPCs]
      /\ ret \in [Conductors -> {"check", "dispatch"}]
      /\ pc[Mutator] # "finalizeParked"
      /\ finRet \in {"acquireFinalize", "stopSlow", "stopEnd", "wait", "release", "resume", "suspend"}
  BY Zenon DEF TypeOK, MutatorPCs, ConductorPCs
<1>1. CASE acquireAccess("acquire")
  BY <1>a, <1>1, Zenon DEF acquireAccess, Goto, AfterAcquire, Rest
<1>2. CASE timerDidFire
  BY <1>a, <1>2, Zenon DEF timerDidFire, acquireAccess, Goto, AfterAcquire, Rest
<1>3. CASE pc[Mutator] = "run" /\ releaseAccess
  BY <1>a, <1>3, Zenon DEF releaseAccess, Goto, Rest
<1>4. CASE callStopIfNecessary
  BY <1>a, <1>4, Zenon DEF callStopIfNecessary, Goto, Rest
<1>5. ASSUME NEW r \in Requests, NEW kind \in {"async", "asyncNow"}, collectAsync(kind, r)
      PROVE  ServesInv'
  BY <1>a, <1>5, Zenon DEF collectAsync, Goto, Rest
<1>6. ASSUME NEW r \in Requests, collectSync(r)
      PROVE  ServesInv'
  BY <1>a, <1>6, Zenon DEF collectSync, Goto, Rest
<1>7. CASE preventCollection
  BY <1>a, <1>7, Zenon DEF preventCollection, Goto
<1>8. CASE allowCollection
  BY <1>a, <1>8, Zenon DEF allowCollection
<1>9. CASE lastChanceToFinalize
  BY <1>a, <1>9, Zenon DEF lastChanceToFinalize, Goto
<1> QED
  BY <1>1, <1>2, <1>3, <1>4, <1>5, <1>6, <1>7, <1>8, <1>9, Zenon DEF MutatorCall

(* ServesInv holds in every state of the conn protocol.                     *)
THEOREM TicketInvariant == Spec => []ServesInv
<1>1. Init => ServesInv
  BY DEF Init, ServesInv, Conductors, Mutator, Collector, Has
<1>2. TypeOK /\ OneConductor /\ ServesInv /\ [Next]_vars => ServesInv'
  <2> SUFFICES ASSUME TypeOK, OneConductor, ServesInv, [Next]_vars PROVE ServesInv'
    BY Zenon
  <2> USE DEF ServesInv, Conductors, Mutator, Collector, Has, phaseVars, cycleVars, ticketVars,
              threadVars, callVars, continuousVars, faultVars
  <2>a. pc \in [Conductors -> MutatorPCs \cup CollectorPCs]
    BY Zenon DEF TypeOK
  <2>1. CASE AssertsHold(Mutator) /\ MutatorStep
    BY <2>1, ServesMutator, Zenon
  <2>2. CASE MutatorCall
    BY <2>2, ServesCall, Zenon
  <2>3. CASE AssertsHold(Collector) /\ CollectorStep
    BY <2>3, ServesCollector, Zenon
  <2>4. CASE continuousRequest
    <3>1. \A c \in Conductors : pc'[c] = "serve" => pc[c] = "serve"
      BY <2>a, <2>4, Zenon DEF continuousRequest, Goto, Notified
    <3>2. CASE requests = <<>> /\ granted < MaxTickets
      <4>a. ~(granted >= MaxTickets)
        BY <3>2, ConductorAssumption DEF ConductorAssumption, TypeOK
      <4>1. /\ requests' = Append(requests, AnyRequest) /\ granted' = granted + 1
            /\ served' = served /\ raced' = raced /\ collectionScope' = collectionScope
        BY <2>4, <3>2, <4>a, Zenon DEF continuousRequest
      <4>2. Len(requests') = Len(requests) + 1 /\ Len(requests) \in Nat
        BY <4>1, AnyRequestType DEF TypeOK
      <4>3. granted = served + Len(requests) => granted' = served' + Len(requests')
        BY <4>1, <4>2 DEF TypeOK
      <4>4. QED
        BY <3>1, <3>2, <4>1, <4>3, Zenon
    <3>3. CASE ~(requests = <<>> /\ granted < MaxTickets)
      <4>1. requests' = requests /\ granted' = granted
        BY <2>4, <3>3, Zenon DEF continuousRequest, TypeOK
      <4>2. QED
        BY <2>4, <3>1, <4>1, Zenon DEF continuousRequest
    <3>4. QED
      BY <3>2, <3>3, Zenon
  <2>5. CASE continuousPause
    BY <2>a, <2>5, Zenon DEF continuousPause
  <2>6. CASE stopForTimeout
    BY <2>a, <2>6, Zenon DEF stopForTimeout, Goto
  <2>7. CASE schedulerTick
    BY <2>a, <2>7, Zenon DEF schedulerTick
  <2>8. CASE crash
    BY <2>a, <2>8, Zenon DEF crash
  <2>9. CASE UNCHANGED vars
    BY <2>9, Zenon DEF vars
  <2>10. QED
    BY <2>1, <2>2, <2>3, <2>4, <2>5, <2>6, <2>7, <2>8, <2>9, Zenon DEF Next, ContinuousStep
<1>3. QED
  BY <1>1, <1>2, TypeCorrect, ConnIsExclusive, PTL DEF Spec

(* The queue holds exactly the granted tickets that are not served, and a   *)
(* collection serves the request it began with.                             *)
THEOREM TicketsInOrder == Spec => []ServesItsRequest
<1>1. ServesInv => ServesItsRequest
  BY Zenon DEF ServesInv, ServesItsRequest
<1>2. QED
  BY <1>1, TicketInvariant, PTL

-----------------------------------------------------------------------------
(* Finalizers *)

(* The mutator has heap access outside of acquireAccess and releaseAccess.  *)
AccessInv ==
    pc[Mutator] \notin {"out", "acquire", "acquireParked", "releaseNotify"} => Has("hasAccess")


(* A step of runCurrentPhase preserves AccessInv. *)
LEMMA AccessConductor ==
    ASSUME TypeOK, AccessInv, NEW c \in Conductors,
           PhaseAsserts(c), ConductorStep(c)
    PROVE  AccessInv'
<1> USE DEF AccessInv, Conductors, Mutator, Collector, Has, phaseVars, cycleVars, ticketVars,
            threadVars, callVars, continuousVars, faultVars
<1>a. /\ pc \in [Conductors -> MutatorPCs \cup CollectorPCs]
      /\ ret \in [Conductors -> {"check", "dispatch"}]
      /\ pc[Mutator] # "finalizeParked"
      /\ finRet \in {"acquireFinalize", "stopSlow", "stopEnd", "wait", "release", "resume", "suspend"}
  BY Zenon DEF TypeOK, MutatorPCs, ConductorPCs
<1>1. CASE runCurrentPhase(c)
  BY <1>a, <1>1, Zenon DEF runCurrentPhase, Goto
<1>2. CASE runNotRunningPhase(c)
  BY <1>a, <1>2, Zenon DEF runNotRunningPhase, Goto, changePhase, Finished
<1>3. CASE runBeginPhase(c)
  BY <1>a, <1>3, Zenon DEF runBeginPhase, changePhase, ScopesFor, Goto
<1>4. CASE runFixpointPhase(c)
  BY <1>a, <1>4, Zenon DEF runFixpointPhase, changePhase, Goto
<1>5. CASE runConcurrentPhase(c)
  BY <1>a, <1>5, Zenon DEF runConcurrentPhase, Goto, changePhase, Finished
<1>6. CASE runReloopPhase(c)
  BY <1>a, <1>6, Zenon DEF runReloopPhase, changePhase, Goto
<1>7. CASE runEndPhase(c)
  BY <1>a, <1>7, Zenon DEF runEndPhase, Goto
<1>8. CASE serveTicket(c)
  BY <1>a, <1>8, Zenon DEF serveTicket, Goto
<1>9. CASE serveUnpark(c)
  BY <1>a, <1>9, Zenon DEF serveUnpark, unparkAllAndGoto, Unparked
<1>10. CASE setNeedFinalize(c)
  BY <1>a, <1>10, Zenon DEF setNeedFinalize, Goto
<1>11. CASE setNeedFinalizeUnpark(c)
  BY <1>a, <1>11, Zenon DEF setNeedFinalizeUnpark, unparkAllAndGoto, Unparked
<1>12. CASE setNeedFinalizeTimer(c)
  BY <1>a, <1>12, Zenon DEF setNeedFinalizeTimer, Goto
<1>13. CASE endChange(c)
  BY <1>a, <1>13, Zenon DEF endChange, changePhase, Goto
<1>14. CASE finishChangingPhase(c)
  BY <1>a, <1>14, Zenon DEF finishChangingPhase, Goto, worldShouldBeSuspended
<1>15. CASE setPhase(c)
  BY <1>a, <1>15, Zenon DEF setPhase, Goto
<1>16. CASE stopThePeriphery(c)
  BY <1>a, <1>16, Zenon DEF stopThePeriphery, Goto
<1> QED
  BY <1>1, <1>2, <1>3, <1>4, <1>5, <1>6, <1>7, <1>8, <1>9, <1>10, <1>11, <1>12, <1>13, <1>14,
     <1>15, <1>16, Zenon DEF ConductorStep

(* A step of the collector thread preserves AccessInv. *)
LEMMA AccessCollector ==
    ASSUME TypeOK, AccessInv, AssertsHold(Collector), CollectorStep
    PROVE  AccessInv'
<1> USE DEF AccessInv, Conductors, Mutator, Collector, Has, phaseVars, cycleVars, ticketVars,
            threadVars, callVars, continuousVars, faultVars
<1>a. /\ pc \in [Conductors -> MutatorPCs \cup CollectorPCs]
      /\ ret \in [Conductors -> {"check", "dispatch"}]
      /\ pc[Mutator] # "finalizeParked"
      /\ finRet \in {"acquireFinalize", "stopSlow", "stopEnd", "wait", "release", "resume", "suspend"}
  BY Zenon DEF TypeOK, MutatorPCs, ConductorPCs
<1>1. CASE ConductorStep(Collector)
  BY <1>1, AccessConductor, Zenon DEF AssertsHold
<1>2. CASE resumeTheMutator
  BY <1>a, <1>2, Zenon DEF resumeTheMutator, Goto
<1>3. CASE resumeTheMutatorUnpark
  BY <1>a, <1>3, Zenon DEF resumeTheMutatorUnpark, unparkAllAndGoto, Unparked
<1>4. CASE waitWhileNeedFinalize
  BY <1>a, <1>4, Zenon DEF waitWhileNeedFinalize, Goto
<1>5. CASE stopTheMutator
  BY <1>a, <1>5, Zenon DEF stopTheMutator, Goto, Finished
<1>6. CASE stopTheMutatorHandoff
  BY <1>a, <1>6, Zenon DEF stopTheMutatorHandoff, Goto
<1>7. CASE stopTheMutatorUnpark
  BY <1>a, <1>7, Zenon DEF stopTheMutatorUnpark, unparkAllAndGoto, Finished, Unparked
<1>8. CASE poll
  BY <1>a, <1>8, Zenon DEF poll, Goto, unparkAllAndGoto, Unparked
<1> QED
  BY <1>1, <1>2, <1>3, <1>4, <1>5, <1>6, <1>7, <1>8, Zenon DEF CollectorStep

(* A step of a call of the mutator preserves AccessInv. *)
LEMMA AccessMutator ==
    ASSUME TypeOK, AccessInv, AssertsHold(Mutator), MutatorStep
    PROVE  AccessInv'
<1> USE DEF AccessInv, Conductors, Mutator, Collector, Has, phaseVars, cycleVars, ticketVars,
            threadVars, callVars, continuousVars, faultVars
<1>a. /\ pc \in [Conductors -> MutatorPCs \cup CollectorPCs]
      /\ ret \in [Conductors -> {"check", "dispatch"}]
      /\ pc[Mutator] # "finalizeParked"
      /\ finRet \in {"acquireFinalize", "stopSlow", "stopEnd", "wait", "release", "resume", "suspend"}
  BY Zenon DEF TypeOK, MutatorPCs, ConductorPCs
<1>1. CASE ConductorStep(Mutator)
  BY <1>1, AccessConductor, Zenon DEF AssertsHold
<1>2. CASE handleNeedFinalizeLoop \/ handleNeedFinalize("waitLoad", "wait")
  BY <1>a, <1>2, Zenon DEF handleNeedFinalizeLoop, handleNeedFinalize, Goto
<1>3. CASE finalize
  BY <1>a, <1>3, Zenon DEF finalize, unparkAllAndGoto, Unparked
<1>4. CASE mutatorResumes
  BY <1>a, <1>4, Zenon DEF mutatorResumes, Goto
<1>5. CASE cancelTimer
  BY <1>a, <1>5, Zenon DEF cancelTimer, Goto, Rest
<1>6. CASE acquireAccessSlow
  BY <1>a, <1>6, Zenon DEF acquireAccessSlow, Goto, Rest
<1>7. CASE acquireAccessFinalized
  BY <1>a, <1>7, Zenon DEF acquireAccessFinalized, Goto, Rest
<1>8. CASE releaseAccessSlow
  BY <1>a, <1>8, Zenon DEF releaseAccessSlow, Goto, Rest
<1>9. CASE finishRelinquishingConn
  BY <1>a, <1>9, Zenon DEF finishRelinquishingConn, Unparked, Notified, Rest
<1>10. CASE stopIfNecessary
  BY <1>a, <1>10, Zenon DEF stopIfNecessary, Goto, AfterStop, Rest
<1>11. CASE stopIfNecessarySlow
  BY <1>a, <1>11, Zenon DEF stopIfNecessarySlow, Goto, Rest
<1>12. CASE stopIfNecessaryEnd
  BY <1>a, <1>12, Zenon DEF stopIfNecessaryEnd, Goto, AfterStop, Rest
<1>13. CASE requestCollection
  BY <1>a, <1>13, Zenon DEF requestCollection, Goto, CollectorConducts
<1>14. CASE requestCollectionAppend
  BY <1>a, <1>14, Zenon DEF requestCollectionAppend, Notified
<1>15. CASE waitForCollector
  BY <1>a, <1>15, Zenon DEF waitForCollector, Goto, CollectorIsDone, Rest
<1>16. CASE waitForCollectorLoad
  BY <1>a, <1>16, Zenon DEF waitForCollectorLoad, Goto, Rest
<1>17. CASE relinquishConn
  BY <1>a, <1>17, Zenon DEF relinquishConn, Goto, Rest
<1>18. CASE waitForCollectorEnd
  BY <1>a, <1>18, Zenon DEF waitForCollectorEnd, Goto, Rest
<1>19. CASE joinContinuousThread
  BY <1>a, <1>19, Zenon DEF joinContinuousThread, Goto, Rest
<1>20. CASE checkIsCollecting
  BY <1>a, <1>20, Zenon DEF checkIsCollecting, Goto, Rest
<1>21. CASE stopThread
  BY <1>a, <1>21, Zenon DEF stopThread, Notified
<1>22. CASE join
  BY <1>a, <1>22, Zenon DEF join, Goto, Rest
<1>23. CASE pc[Mutator] = "unlock" /\ releaseAccess
  BY <1>a, <1>23, Zenon DEF releaseAccess, Goto, Rest
<1> QED
  BY <1>1, <1>2, <1>3, <1>4, <1>5, <1>6, <1>7, <1>8, <1>9, <1>10, <1>11, <1>12, <1>13, <1>14,
     <1>15, <1>16, <1>17, <1>18, <1>19, <1>20, <1>21, <1>22, <1>23, Zenon DEF MutatorStep

(* The beginning of a call preserves AccessInv. *)
LEMMA AccessCall ==
    ASSUME TypeOK, AccessInv, MutatorCall
    PROVE  AccessInv'
<1> USE DEF AccessInv, Conductors, Mutator, Collector, Has, phaseVars, cycleVars, ticketVars,
            threadVars, callVars, continuousVars, faultVars
<1>a. /\ pc \in [Conductors -> MutatorPCs \cup CollectorPCs]
      /\ ret \in [Conductors -> {"check", "dispatch"}]
      /\ pc[Mutator] # "finalizeParked"
      /\ finRet \in {"acquireFinalize", "stopSlow", "stopEnd", "wait", "release", "resume", "suspend"}
  BY Zenon DEF TypeOK, MutatorPCs, ConductorPCs
<1>1. CASE acquireAccess("acquire")
  BY <1>a, <1>1, Zenon DEF acquireAccess, Goto, AfterAcquire, Rest
<1>2. CASE timerDidFire
  BY <1>a, <1>2, Zenon DEF timerDidFire, acquireAccess, Goto, AfterAcquire, Rest
<1>3. CASE pc[Mutator] = "run" /\ releaseAccess
  BY <1>a, <1>3, Zenon DEF releaseAccess, Goto, Rest
<1>4. CASE callStopIfNecessary
  BY <1>a, <1>4, Zenon DEF callStopIfNecessary, Goto, Rest
<1>5. ASSUME NEW r \in Requests, NEW kind \in {"async", "asyncNow"}, collectAsync(kind, r)
      PROVE  AccessInv'
  BY <1>a, <1>5, Zenon DEF collectAsync, Goto, Rest
<1>6. ASSUME NEW r \in Requests, collectSync(r)
      PROVE  AccessInv'
  BY <1>a, <1>6, Zenon DEF collectSync, Goto, Rest
<1>7. CASE preventCollection
  BY <1>a, <1>7, Zenon DEF preventCollection, Goto
<1>8. CASE allowCollection
  BY <1>a, <1>8, Zenon DEF allowCollection
<1>9. CASE lastChanceToFinalize
  BY <1>a, <1>9, Zenon DEF lastChanceToFinalize, Goto
<1> QED
  BY <1>1, <1>2, <1>3, <1>4, <1>5, <1>6, <1>7, <1>8, <1>9, Zenon DEF MutatorCall

(* The mutator has heap access wherever it runs JavaScript or finalizers.   *)
THEOREM AccessWhileRunning == Spec => []AccessInv
<1>1. Init => AccessInv
  BY Zenon DEF Init, AccessInv, Conductors, Mutator, Collector, Has
<1>2. TypeOK /\ AccessInv /\ [Next]_vars => AccessInv'
  <2> SUFFICES ASSUME TypeOK, AccessInv, [Next]_vars PROVE AccessInv'
    BY Zenon
  <2> USE DEF AccessInv, Conductors, Mutator, Collector, Has, phaseVars, cycleVars, ticketVars,
              threadVars, callVars, continuousVars, faultVars
  <2>a. pc \in [Conductors -> MutatorPCs \cup CollectorPCs]
    BY Zenon DEF TypeOK
  <2>1. CASE AssertsHold(Mutator) /\ MutatorStep
    BY <2>1, AccessMutator, Zenon
  <2>2. CASE MutatorCall
    BY <2>2, AccessCall, Zenon
  <2>3. CASE AssertsHold(Collector) /\ CollectorStep
    BY <2>3, AccessCollector, Zenon
  <2>4. CASE continuousRequest
    BY <2>a, <2>4, Zenon DEF continuousRequest, Goto, Notified
  <2>5. CASE continuousPause
    BY <2>a, <2>5, Zenon DEF continuousPause
  <2>6. CASE stopForTimeout
    BY <2>a, <2>6, Zenon DEF stopForTimeout, Goto
  <2>7. CASE schedulerTick
    BY <2>a, <2>7, Zenon DEF schedulerTick
  <2>8. CASE crash
    BY <2>a, <2>8, Zenon DEF crash
  <2>9. CASE UNCHANGED vars
    BY <2>9, Zenon DEF vars
  <2>10. QED
    BY <2>1, <2>2, <2>3, <2>4, <2>5, <2>6, <2>7, <2>8, <2>9, Zenon DEF Next, ContinuousStep
<1>3. QED
  BY <1>1, <1>2, TypeCorrect, PTL DEF Spec

(* The phase that m_nextPhase may be when m_currentPhase is p.              *)
NextPhases(p) ==
    CASE p = "NotRunning" -> {"NotRunning", "Begin"}
      [] p = "Begin" -> {"Begin", "Fixpoint"}
      [] p = "Fixpoint" -> {"Fixpoint", "Concurrent", "End"}
      [] p = "Concurrent" -> {"Concurrent", "Reloop"}
      [] p = "Reloop" -> {"Reloop", "Fixpoint"}
      [] p = "End" -> {"End", "NotRunning"}

(* runEndPhase after its collection ended, and after setNeedFinalize.       *)
Ending == {"serve", "serveUnpark", "needFinalize", "needFinalizeUnpark", "needFinalizeTimer",
           "endChange"}
Finishing == {"needFinalizeUnpark", "needFinalizeTimer", "endChange"}

(* The order of the phases: m_nextPhase is a successor of m_currentPhase,   *)
(* and the steps of runEndPhase are taken in End with the collection over.  *)
PhaseInv == ~raced =>
    /\ nextPhase \in NextPhases(currentPhase)
    /\ \A c \in Conductors : pc[c] \in Ending => currentPhase = "End" /\ collectionScope = "none"


(* A step of runCurrentPhase preserves the order of the phases. *)
LEMMA PhaseConductor ==
    ASSUME TypeOK, OneConductor, PhaseInv, NEW c \in Conductors,
           PhaseAsserts(c), ConductorStep(c)
    PROVE  PhaseInv'
<1> USE DEF PhaseInv, Ending, Conductors, Mutator, Collector, Has, phaseVars, cycleVars,
            ticketVars, threadVars, callVars, continuousVars, faultVars
<1>a. /\ pc \in [Conductors -> MutatorPCs \cup CollectorPCs]
      /\ ret \in [Conductors -> {"check", "dispatch"}]
      /\ pc[Mutator] # "finalizeParked"
      /\ finRet \in {"acquireFinalize", "stopSlow", "stopEnd", "wait", "release", "resume", "suspend"}
  BY Zenon DEF TypeOK, MutatorPCs, ConductorPCs
<1>1. CASE runCurrentPhase(c)
  BY <1>a, <1>1, Zenon DEF runCurrentPhase, Goto
<1>2. CASE runNotRunningPhase(c)
  BY <1>a, <1>2, Zenon DEF runNotRunningPhase, Goto, changePhase, Finished, NextPhases
<1>3. CASE runBeginPhase(c)
  BY <1>a, <1>3, Zenon DEF runBeginPhase, changePhase, ScopesFor, Goto, NextPhases
<1>4. CASE runFixpointPhase(c)
  BY <1>a, <1>4, Zenon DEF runFixpointPhase, changePhase, Goto, NextPhases
<1>5. CASE runConcurrentPhase(c)
  BY <1>a, <1>5, Zenon DEF runConcurrentPhase, Goto, changePhase, Finished, NextPhases
<1>6. CASE runReloopPhase(c)
  BY <1>a, <1>6, Zenon DEF runReloopPhase, changePhase, Goto, NextPhases
<1>7. CASE runEndPhase(c)
  BY <1>a, <1>7, Zenon DEF runEndPhase, Goto
<1>8. CASE serveTicket(c)
  BY <1>a, <1>8, Zenon DEF serveTicket, Goto
<1>9. CASE serveUnpark(c)
  BY <1>a, <1>9, Zenon DEF serveUnpark, unparkAllAndGoto, Unparked
<1>10. CASE setNeedFinalize(c)
  BY <1>a, <1>10, Zenon DEF setNeedFinalize, Goto
<1>11. CASE setNeedFinalizeUnpark(c)
  BY <1>a, <1>11, Zenon DEF setNeedFinalizeUnpark, unparkAllAndGoto, Unparked
<1>12. CASE setNeedFinalizeTimer(c)
  BY <1>a, <1>12, Zenon DEF setNeedFinalizeTimer, Goto
<1>13. CASE endChange(c)
  BY <1>a, <1>13, Zenon DEF endChange, changePhase, Goto, NextPhases
<1>14. CASE finishChangingPhase(c)
  <2>1. nextPhase \in NextPhases(nextPhase)
    BY Zenon DEF TypeOK, NextPhases, Phases
  <2>2. ~raced' => nextPhase' \in NextPhases(currentPhase')
    BY <1>14, <2>1, Zenon DEF finishChangingPhase
  <2>3. \A d \in Conductors : pc'[d] \in Ending => pc[d] \in Ending /\ d # c
    BY <1>a, <1>14, Zenon DEF finishChangingPhase, Goto
  <2>4. QED
    BY <1>14, <2>2, <2>3, Zenon DEF finishChangingPhase, OneConductor, MutatorConducts,
       CollectorConducts,
       ConductorPCs
<1>15. CASE setPhase(c)
  <2>1. nextPhase \in NextPhases(nextPhase)
    BY Zenon DEF TypeOK, NextPhases, Phases
  <2>2. QED
    BY <1>a, <1>15, <2>1, Zenon DEF setPhase, Goto, OneConductor, MutatorConducts,
       CollectorConducts,
       ConductorPCs
<1>16. CASE stopThePeriphery(c)
  <2>1. nextPhase \in NextPhases(nextPhase)
    BY Zenon DEF TypeOK, NextPhases, Phases
  <2>2. QED
    BY <1>a, <1>16, <2>1, Zenon DEF stopThePeriphery, Goto, OneConductor, MutatorConducts,
       CollectorConducts,
       ConductorPCs
<1> QED
  BY <1>1, <1>2, <1>3, <1>4, <1>5, <1>6, <1>7, <1>8, <1>9, <1>10, <1>11, <1>12, <1>13, <1>14,
     <1>15, <1>16, Zenon DEF ConductorStep

(* A step of the collector thread preserves the order of the phases. *)
LEMMA PhaseCollector ==
    ASSUME TypeOK, OneConductor, PhaseInv, AssertsHold(Collector), CollectorStep
    PROVE  PhaseInv'
<1> USE DEF PhaseInv, Ending, Conductors, Mutator, Collector, Has, phaseVars, cycleVars,
            ticketVars, threadVars, callVars, continuousVars, faultVars
<1>a. /\ pc \in [Conductors -> MutatorPCs \cup CollectorPCs]
      /\ ret \in [Conductors -> {"check", "dispatch"}]
      /\ pc[Mutator] # "finalizeParked"
      /\ finRet \in {"acquireFinalize", "stopSlow", "stopEnd", "wait", "release", "resume", "suspend"}
  BY Zenon DEF TypeOK, MutatorPCs, ConductorPCs
<1>1. CASE ConductorStep(Collector)
  BY <1>1, PhaseConductor, Zenon DEF AssertsHold
<1>2. CASE resumeTheMutator
  BY <1>a, <1>2, Zenon DEF resumeTheMutator, Goto
<1>3. CASE resumeTheMutatorUnpark
  BY <1>a, <1>3, Zenon DEF resumeTheMutatorUnpark, unparkAllAndGoto, Unparked
<1>4. CASE waitWhileNeedFinalize
  BY <1>a, <1>4, Zenon DEF waitWhileNeedFinalize, Goto
<1>5. CASE stopTheMutator
  BY <1>a, <1>5, Zenon DEF stopTheMutator, Goto, Finished
<1>6. CASE stopTheMutatorHandoff
  BY <1>a, <1>6, Zenon DEF stopTheMutatorHandoff, Goto
<1>7. CASE stopTheMutatorUnpark
  BY <1>a, <1>7, Zenon DEF stopTheMutatorUnpark, unparkAllAndGoto, Finished, Unparked
<1>8. CASE poll
  BY <1>a, <1>8, Zenon DEF poll, Goto, unparkAllAndGoto, Unparked
<1> QED
  BY <1>1, <1>2, <1>3, <1>4, <1>5, <1>6, <1>7, <1>8, Zenon DEF CollectorStep

(* A step of a call of the mutator preserves the order of the phases. *)
LEMMA PhaseMutator ==
    ASSUME TypeOK, OneConductor, PhaseInv, AssertsHold(Mutator), MutatorStep
    PROVE  PhaseInv'
<1> USE DEF PhaseInv, Ending, Conductors, Mutator, Collector, Has, phaseVars, cycleVars,
            ticketVars, threadVars, callVars, continuousVars, faultVars
<1>a. /\ pc \in [Conductors -> MutatorPCs \cup CollectorPCs]
      /\ ret \in [Conductors -> {"check", "dispatch"}]
      /\ pc[Mutator] # "finalizeParked"
      /\ finRet \in {"acquireFinalize", "stopSlow", "stopEnd", "wait", "release", "resume", "suspend"}
  BY Zenon DEF TypeOK, MutatorPCs, ConductorPCs
<1>1. CASE ConductorStep(Mutator)
  BY <1>1, PhaseConductor, Zenon DEF AssertsHold
<1>2. CASE handleNeedFinalizeLoop \/ handleNeedFinalize("waitLoad", "wait")
  BY <1>a, <1>2, Zenon DEF handleNeedFinalizeLoop, handleNeedFinalize, Goto
<1>3. CASE finalize
  BY <1>a, <1>3, Zenon DEF finalize, unparkAllAndGoto, Unparked
<1>4. CASE mutatorResumes
  BY <1>a, <1>4, Zenon DEF mutatorResumes, Goto
<1>5. CASE cancelTimer
  BY <1>a, <1>5, Zenon DEF cancelTimer, Goto, Rest
<1>6. CASE acquireAccessSlow
  BY <1>a, <1>6, Zenon DEF acquireAccessSlow, Goto, Rest
<1>7. CASE acquireAccessFinalized
  BY <1>a, <1>7, Zenon DEF acquireAccessFinalized, Goto, Rest
<1>8. CASE releaseAccessSlow
  BY <1>a, <1>8, Zenon DEF releaseAccessSlow, Goto, Rest
<1>9. CASE finishRelinquishingConn
  BY <1>a, <1>9, Zenon DEF finishRelinquishingConn, Unparked, Notified, Rest
<1>10. CASE stopIfNecessary
  BY <1>a, <1>10, Zenon DEF stopIfNecessary, Goto, AfterStop, Rest
<1>11. CASE stopIfNecessarySlow
  BY <1>a, <1>11, Zenon DEF stopIfNecessarySlow, Goto, Rest
<1>12. CASE stopIfNecessaryEnd
  BY <1>a, <1>12, Zenon DEF stopIfNecessaryEnd, Goto, AfterStop, Rest
<1>13. CASE requestCollection
  <2>1. ~raced' => ~raced
    BY <1>13, Zenon DEF requestCollection
  <2>2. QED
    BY <1>a, <1>13, <2>1, Zenon DEF requestCollection, Goto
<1>14. CASE requestCollectionAppend
  BY <1>a, <1>14, Zenon DEF requestCollectionAppend, Notified
<1>15. CASE waitForCollector
  BY <1>a, <1>15, Zenon DEF waitForCollector, Goto, CollectorIsDone, Rest
<1>16. CASE waitForCollectorLoad
  BY <1>a, <1>16, Zenon DEF waitForCollectorLoad, Goto, Rest
<1>17. CASE relinquishConn
  BY <1>a, <1>17, Zenon DEF relinquishConn, Goto, Rest
<1>18. CASE waitForCollectorEnd
  BY <1>a, <1>18, Zenon DEF waitForCollectorEnd, Goto, Rest
<1>19. CASE joinContinuousThread
  BY <1>a, <1>19, Zenon DEF joinContinuousThread, Goto, Rest
<1>20. CASE checkIsCollecting
  BY <1>a, <1>20, Zenon DEF checkIsCollecting, Goto, Rest
<1>21. CASE stopThread
  BY <1>a, <1>21, Zenon DEF stopThread, Notified
<1>22. CASE join
  BY <1>a, <1>22, Zenon DEF join, Goto, Rest
<1>23. CASE pc[Mutator] = "unlock" /\ releaseAccess
  BY <1>a, <1>23, Zenon DEF releaseAccess, Goto, Rest
<1> QED
  BY <1>1, <1>2, <1>3, <1>4, <1>5, <1>6, <1>7, <1>8, <1>9, <1>10, <1>11, <1>12, <1>13, <1>14,
     <1>15, <1>16, <1>17, <1>18, <1>19, <1>20, <1>21, <1>22, <1>23, Zenon DEF MutatorStep

(* The beginning of a call preserves the order of the phases. *)
LEMMA PhaseCall ==
    ASSUME TypeOK, OneConductor, PhaseInv, MutatorCall
    PROVE  PhaseInv'
<1> USE DEF PhaseInv, Ending, Conductors, Mutator, Collector, Has, phaseVars, cycleVars,
            ticketVars, threadVars, callVars, continuousVars, faultVars
<1>a. /\ pc \in [Conductors -> MutatorPCs \cup CollectorPCs]
      /\ ret \in [Conductors -> {"check", "dispatch"}]
      /\ pc[Mutator] # "finalizeParked"
      /\ finRet \in {"acquireFinalize", "stopSlow", "stopEnd", "wait", "release", "resume", "suspend"}
  BY Zenon DEF TypeOK, MutatorPCs, ConductorPCs
<1>1. CASE acquireAccess("acquire")
  BY <1>a, <1>1, Zenon DEF acquireAccess, Goto, AfterAcquire, Rest
<1>2. CASE timerDidFire
  BY <1>a, <1>2, Zenon DEF timerDidFire, acquireAccess, Goto, AfterAcquire, Rest
<1>3. CASE pc[Mutator] = "run" /\ releaseAccess
  BY <1>a, <1>3, Zenon DEF releaseAccess, Goto, Rest
<1>4. CASE callStopIfNecessary
  BY <1>a, <1>4, Zenon DEF callStopIfNecessary, Goto, Rest
<1>5. ASSUME NEW r \in Requests, NEW kind \in {"async", "asyncNow"}, collectAsync(kind, r)
      PROVE  PhaseInv'
  BY <1>a, <1>5, Zenon DEF collectAsync, Goto, Rest
<1>6. ASSUME NEW r \in Requests, collectSync(r)
      PROVE  PhaseInv'
  BY <1>a, <1>6, Zenon DEF collectSync, Goto, Rest
<1>7. CASE preventCollection
  BY <1>a, <1>7, Zenon DEF preventCollection, Goto
<1>8. CASE allowCollection
  BY <1>a, <1>8, Zenon DEF allowCollection
<1>9. CASE lastChanceToFinalize
  BY <1>a, <1>9, Zenon DEF lastChanceToFinalize, Goto
<1> QED
  BY <1>1, <1>2, <1>3, <1>4, <1>5, <1>6, <1>7, <1>8, <1>9, Zenon DEF MutatorCall

(* The phases follow one another as the switch of runCurrentPhase lays out, *)
(* whichever threads conduct them.                                          *)
THEOREM PhaseOrder == Spec => []PhaseInv
<1>1. Init => PhaseInv
  BY Zenon DEF Init, PhaseInv, Ending, Conductors, Mutator, Collector, Has, NextPhases
<1>2. TypeOK /\ OneConductor /\ PhaseInv /\ [Next]_vars => PhaseInv'
  <2> SUFFICES ASSUME TypeOK, OneConductor, PhaseInv, [Next]_vars PROVE PhaseInv'
    BY Zenon
  <2> USE DEF PhaseInv, Ending, Conductors, Mutator, Collector, Has, phaseVars, cycleVars,
              ticketVars, threadVars, callVars, continuousVars, faultVars
  <2>a. pc \in [Conductors -> MutatorPCs \cup CollectorPCs]
    BY Zenon DEF TypeOK
  <2>1. CASE AssertsHold(Mutator) /\ MutatorStep
    BY <2>1, PhaseMutator, Zenon
  <2>2. CASE MutatorCall
    BY <2>2, PhaseCall, Zenon
  <2>3. CASE AssertsHold(Collector) /\ CollectorStep
    BY <2>3, PhaseCollector, Zenon
  <2>4. CASE continuousRequest
    BY <2>a, <2>4, Zenon DEF continuousRequest, Goto, Notified
  <2>5. CASE continuousPause
    BY <2>a, <2>5, Zenon DEF continuousPause
  <2>6. CASE stopForTimeout
    BY <2>a, <2>6, Zenon DEF stopForTimeout, Goto
  <2>7. CASE schedulerTick
    BY <2>a, <2>7, Zenon DEF schedulerTick
  <2>8. CASE crash
    BY <2>a, <2>8, Zenon DEF crash
  <2>9. CASE UNCHANGED vars
    BY <2>9, Zenon DEF vars
  <2>10. QED
    BY <2>1, <2>2, <2>3, <2>4, <2>5, <2>6, <2>7, <2>8, <2>9, Zenon DEF Next, ContinuousStep
<1>3. QED
  BY <1>1, <1>2, TypeCorrect, ConnIsExclusive, PTL DEF Spec

(* The inductive strengthening of FinalizedBeforeNextCycle: finalizers are  *)
(* left to run only between runEndPhase and the suspension of the world for *)
(* the next Begin, which waits for them.                                    *)
FinalizeInv == ~raced =>
    /\ Has("needFinalize") \/ pc[Mutator] = "finalize" =>
          /\ collectionScope = "none"
          /\ \/ currentPhase = "NotRunning"
             \/ currentPhase = "End" /\ nextPhase = "NotRunning"
             \/ currentPhase = "End" /\ (pc[Mutator] \in Finishing \/ pc[Collector] \in Finishing)
    /\ pc[Collector] \in {"stop", "periphery"} => ~Has("needFinalize")
    /\ pc[Mutator] = "periphery" => ~Has("needFinalize")


(* A step of runCurrentPhase preserves FinalizeInv. *)
LEMMA FinalizeConductor ==
    ASSUME TypeOK, OneConductor, StopInv, AccessInv, PhaseInv, FinalizeInv, NEW c \in Conductors,
           PhaseAsserts(c), ConductorStep(c)
    PROVE  FinalizeInv'
<1> USE DEF FinalizeInv, Finishing, Conductors, Mutator, Collector, Has, phaseVars, cycleVars,
            ticketVars, threadVars, callVars, continuousVars, faultVars
<1>a. /\ pc \in [Conductors -> MutatorPCs \cup CollectorPCs]
      /\ ret \in [Conductors -> {"check", "dispatch"}]
      /\ pc[Mutator] # "finalizeParked"
      /\ finRet \in {"acquireFinalize", "stopSlow", "stopEnd", "wait", "release", "resume", "suspend"}
  BY Zenon DEF TypeOK, MutatorPCs, ConductorPCs
<1>1. CASE runCurrentPhase(c)
  BY <1>a, <1>1, Zenon DEF runCurrentPhase, Goto
<1>2. CASE runNotRunningPhase(c)
  BY <1>a, <1>2, Zenon DEF runNotRunningPhase, Goto, changePhase, Finished
<1>3. CASE runBeginPhase(c)
  BY <1>a, <1>3, Zenon DEF runBeginPhase, changePhase, ScopesFor, Goto
<1>4. CASE runFixpointPhase(c)
  BY <1>a, <1>4, Zenon DEF runFixpointPhase, changePhase, Goto
<1>5. CASE runConcurrentPhase(c)
  BY <1>a, <1>5, Zenon DEF runConcurrentPhase, Goto, changePhase, Finished
<1>6. CASE runReloopPhase(c)
  BY <1>a, <1>6, Zenon DEF runReloopPhase, changePhase, Goto
<1>7. CASE runEndPhase(c)
  BY <1>a, <1>7, Zenon DEF runEndPhase, Goto
<1>8. CASE serveTicket(c)
  BY <1>a, <1>8, Zenon DEF serveTicket, Goto
<1>9. CASE serveUnpark(c)
  BY <1>a, <1>9, Zenon DEF serveUnpark, unparkAllAndGoto, Unparked
<1>10. CASE setNeedFinalize(c)
  BY <1>a, <1>10, Zenon DEF setNeedFinalize, Goto, PhaseInv, Ending, OneConductor, MutatorConducts,
     CollectorConducts, ConductorPCs
<1>11. CASE setNeedFinalizeUnpark(c)
  BY <1>a, <1>11, Zenon DEF setNeedFinalizeUnpark, unparkAllAndGoto, Unparked
<1>12. CASE setNeedFinalizeTimer(c)
  BY <1>a, <1>12, Zenon DEF setNeedFinalizeTimer, Goto
<1>13. CASE endChange(c)
  BY <1>a, <1>13, Zenon DEF endChange, changePhase, Goto
<1>14. CASE finishChangingPhase(c)
  BY <1>a, <1>14 DEF finishChangingPhase, Goto, worldShouldBeSuspended, PhaseInv, NextPhases
<1>15. CASE setPhase(c)
  BY <1>a, <1>15, Zenon DEF setPhase, Goto, PhaseInv, NextPhases, StopInv, At,
     worldShouldBeSuspended
<1>16. CASE stopThePeriphery(c)
  <2>1. ~raced => pc[Mutator] # "finalize" /\ ~Has("needFinalize")
    BY <1>16, Zenon DEF stopThePeriphery, StopInv, AccessInv
  <2>2. QED
    BY <1>a, <1>16, <2>1, Zenon DEF stopThePeriphery, Goto, OneConductor, MutatorConducts,
       CollectorConducts, ConductorPCs
<1> QED
  BY <1>1, <1>2, <1>3, <1>4, <1>5, <1>6, <1>7, <1>8, <1>9, <1>10, <1>11, <1>12, <1>13, <1>14,
     <1>15, <1>16, Zenon DEF ConductorStep

(* A step of the collector thread preserves FinalizeInv. *)
LEMMA FinalizeCollector ==
    ASSUME TypeOK, OneConductor, StopInv, AccessInv, PhaseInv, FinalizeInv, AssertsHold(Collector), CollectorStep
    PROVE  FinalizeInv'
<1> USE DEF FinalizeInv, Finishing, Conductors, Mutator, Collector, Has, phaseVars, cycleVars,
            ticketVars, threadVars, callVars, continuousVars, faultVars
<1>a. /\ pc \in [Conductors -> MutatorPCs \cup CollectorPCs]
      /\ ret \in [Conductors -> {"check", "dispatch"}]
      /\ pc[Mutator] # "finalizeParked"
      /\ finRet \in {"acquireFinalize", "stopSlow", "stopEnd", "wait", "release", "resume", "suspend"}
  BY Zenon DEF TypeOK, MutatorPCs, ConductorPCs
<1>1. CASE ConductorStep(Collector)
  BY <1>1, FinalizeConductor, Zenon DEF AssertsHold
<1>2. CASE resumeTheMutator
  BY <1>a, <1>2, Zenon DEF resumeTheMutator, Goto
<1>3. CASE resumeTheMutatorUnpark
  BY <1>a, <1>3, Zenon DEF resumeTheMutatorUnpark, unparkAllAndGoto, Unparked
<1>4. CASE waitWhileNeedFinalize
  BY <1>a, <1>4, Zenon DEF waitWhileNeedFinalize, Goto
<1>5. CASE stopTheMutator
  BY <1>a, <1>5 DEF stopTheMutator, Goto, Finished
<1>6. CASE stopTheMutatorHandoff
  BY <1>a, <1>6, Zenon DEF stopTheMutatorHandoff, Goto
<1>7. CASE stopTheMutatorUnpark
  BY <1>a, <1>7, Zenon DEF stopTheMutatorUnpark, unparkAllAndGoto, Finished, Unparked
<1>8. CASE poll
  BY <1>a, <1>8, Zenon DEF poll, Goto, unparkAllAndGoto, Unparked
<1> QED
  BY <1>1, <1>2, <1>3, <1>4, <1>5, <1>6, <1>7, <1>8, Zenon DEF CollectorStep

(* A step of a call of the mutator preserves FinalizeInv. *)
LEMMA FinalizeMutator ==
    ASSUME TypeOK, OneConductor, StopInv, AccessInv, PhaseInv, FinalizeInv, AssertsHold(Mutator), MutatorStep
    PROVE  FinalizeInv'
<1> USE DEF FinalizeInv, Finishing, Conductors, Mutator, Collector, Has, phaseVars, cycleVars,
            ticketVars, threadVars, callVars, continuousVars, faultVars
<1>a. /\ pc \in [Conductors -> MutatorPCs \cup CollectorPCs]
      /\ ret \in [Conductors -> {"check", "dispatch"}]
      /\ pc[Mutator] # "finalizeParked"
      /\ finRet \in {"acquireFinalize", "stopSlow", "stopEnd", "wait", "release", "resume", "suspend"}
  BY Zenon DEF TypeOK, MutatorPCs, ConductorPCs
<1>1. CASE ConductorStep(Mutator)
  BY <1>1, FinalizeConductor, Zenon DEF AssertsHold
<1>2. CASE handleNeedFinalizeLoop \/ handleNeedFinalize("waitLoad", "wait")
  BY <1>a, <1>2, Zenon DEF handleNeedFinalizeLoop, handleNeedFinalize, Goto
<1>3. CASE finalize
  BY <1>a, <1>3, Zenon DEF finalize, unparkAllAndGoto, Unparked
<1>4. CASE mutatorResumes
  BY <1>a, <1>4, Zenon DEF mutatorResumes, Goto
<1>5. CASE cancelTimer
  BY <1>a, <1>5, Zenon DEF cancelTimer, Goto, Rest
<1>6. CASE acquireAccessSlow
  <2>1. Has("needFinalize")' = Has("needFinalize")
    <3>1. worldState' = worldState \/ worldState' = worldState \cup {"hasAccess"}
      BY <1>6, Zenon DEF acquireAccessSlow
    <3>2. QED
      BY <3>1
  <2>2. pc[Mutator] = "acquire" /\ pc'[Mutator] \in {"acquireParked", "acquireFinalize"}
    BY <1>a, <1>6, Zenon DEF acquireAccessSlow, Goto
  <2>3. pc'[Collector] = pc[Collector]
    BY <1>a, <1>6, Zenon DEF acquireAccessSlow, Goto
  <2> HIDE DEF Has
  <2>4. QED
    BY <1>6, <2>1, <2>2, <2>3, Zenon DEF acquireAccessSlow, Rest
<1>7. CASE acquireAccessFinalized
  BY <1>a, <1>7, Zenon DEF acquireAccessFinalized, Goto, Rest
<1>8. CASE releaseAccessSlow
  BY <1>a, <1>8, Zenon DEF releaseAccessSlow, Goto, Rest
<1>9. CASE finishRelinquishingConn
  BY <1>a, <1>9, Zenon DEF finishRelinquishingConn, Unparked, Notified, Rest
<1>10. CASE stopIfNecessary
  BY <1>a, <1>10, Zenon DEF stopIfNecessary, Goto, AfterStop, Rest
<1>11. CASE stopIfNecessarySlow
  BY <1>a, <1>11, Zenon DEF stopIfNecessarySlow, Goto, Rest
<1>12. CASE stopIfNecessaryEnd
  BY <1>a, <1>12, Zenon DEF stopIfNecessaryEnd, Goto, AfterStop, Rest
<1>13. CASE requestCollection
  <2>1. ~raced' => ~raced
    BY <1>13, Zenon DEF requestCollection
  <2>2. Has("needFinalize")' = Has("needFinalize")
    <3>1. worldState' = worldState \/ worldState' = worldState \cup {"mutatorHasConn"}
      BY <1>13, Zenon DEF requestCollection
    <3>2. QED
      BY <3>1
  <2>3. /\ pc' = [pc EXCEPT ![Mutator] = "requestLocked"] /\ pc[Mutator] = "request"
        /\ UNCHANGED <<currentPhase, nextPhase, collectionScope>>
    BY <1>13, Zenon DEF requestCollection, Goto
  <2> HIDE DEF Has
  <2>4. QED
    BY <1>a, <2>1, <2>2, <2>3, Zenon
<1>14. CASE requestCollectionAppend
  BY <1>a, <1>14, Zenon DEF requestCollectionAppend, Notified
<1>15. CASE waitForCollector
  BY <1>a, <1>15, Zenon DEF waitForCollector, Goto, CollectorIsDone, Rest
<1>16. CASE waitForCollectorLoad
  BY <1>a, <1>16, Zenon DEF waitForCollectorLoad, Goto, Rest
<1>17. CASE relinquishConn
  BY <1>a, <1>17, Zenon DEF relinquishConn, Goto, Rest
<1>18. CASE waitForCollectorEnd
  BY <1>a, <1>18, Zenon DEF waitForCollectorEnd, Goto, Rest
<1>19. CASE joinContinuousThread
  BY <1>a, <1>19, Zenon DEF joinContinuousThread, Goto, Rest
<1>20. CASE checkIsCollecting
  BY <1>a, <1>20, Zenon DEF checkIsCollecting, Goto, Rest
<1>21. CASE stopThread
  BY <1>a, <1>21, Zenon DEF stopThread, Notified
<1>22. CASE join
  BY <1>a, <1>22, Zenon DEF join, Goto, Rest
<1>23. CASE pc[Mutator] = "unlock" /\ releaseAccess
  BY <1>a, <1>23, Zenon DEF releaseAccess, Goto, Rest
<1> QED
  BY <1>1, <1>2, <1>3, <1>4, <1>5, <1>6, <1>7, <1>8, <1>9, <1>10, <1>11, <1>12, <1>13, <1>14,
     <1>15, <1>16, <1>17, <1>18, <1>19, <1>20, <1>21, <1>22, <1>23, Zenon DEF MutatorStep

(* The beginning of a call preserves FinalizeInv. *)
LEMMA FinalizeCall ==
    ASSUME TypeOK, OneConductor, StopInv, AccessInv, PhaseInv, FinalizeInv, MutatorCall
    PROVE  FinalizeInv'
<1> USE DEF FinalizeInv, Finishing, Conductors, Mutator, Collector, Has, phaseVars, cycleVars,
            ticketVars, threadVars, callVars, continuousVars, faultVars
<1>a. /\ pc \in [Conductors -> MutatorPCs \cup CollectorPCs]
      /\ ret \in [Conductors -> {"check", "dispatch"}]
      /\ pc[Mutator] # "finalizeParked"
      /\ finRet \in {"acquireFinalize", "stopSlow", "stopEnd", "wait", "release", "resume", "suspend"}
  BY Zenon DEF TypeOK, MutatorPCs, ConductorPCs
<1>1. CASE acquireAccess("acquire")
  <2>1. Has("needFinalize")' = Has("needFinalize")
    BY <1>1 DEF acquireAccess
  <2>2. pc[Mutator] = "out" /\ pc'[Mutator] \in {"run", "cancelTimer", "acquire"}
    BY <1>a, <1>1, Zenon DEF acquireAccess, AfterAcquire, Goto
  <2>3. pc'[Collector] = pc[Collector]
    BY <1>a, <1>1, Zenon DEF acquireAccess, Goto
  <2> HIDE DEF Has
  <2>4. QED
    BY <1>1, <2>1, <2>2, <2>3, Zenon DEF acquireAccess, Rest
<1>2. CASE timerDidFire
  <2>1. Has("needFinalize")' = Has("needFinalize")
    BY <1>2 DEF timerDidFire, acquireAccess
  <2>2. pc[Mutator] = "out" /\ pc'[Mutator] \in {"run", "cancelTimer", "acquire"}
    BY <1>a, <1>2, Zenon DEF timerDidFire, acquireAccess, AfterAcquire, Goto
  <2>3. pc'[Collector] = pc[Collector]
    BY <1>a, <1>2, Zenon DEF timerDidFire, acquireAccess, Goto
  <2> HIDE DEF Has
  <2>4. QED
    BY <1>2, <2>1, <2>2, <2>3, Zenon DEF timerDidFire, acquireAccess, Rest
<1>3. CASE pc[Mutator] = "run" /\ releaseAccess
  BY <1>a, <1>3, Zenon DEF releaseAccess, Goto, Rest
<1>4. CASE callStopIfNecessary
  BY <1>a, <1>4, Zenon DEF callStopIfNecessary, Goto, Rest
<1>5. ASSUME NEW r \in Requests, NEW kind \in {"async", "asyncNow"}, collectAsync(kind, r)
      PROVE  FinalizeInv'
  BY <1>a, <1>5, Zenon DEF collectAsync, Goto, Rest
<1>6. ASSUME NEW r \in Requests, collectSync(r)
      PROVE  FinalizeInv'
  BY <1>a, <1>6, Zenon DEF collectSync, Goto, Rest
<1>7. CASE preventCollection
  BY <1>a, <1>7, Zenon DEF preventCollection, Goto
<1>8. CASE allowCollection
  BY <1>a, <1>8, Zenon DEF allowCollection
<1>9. CASE lastChanceToFinalize
  BY <1>a, <1>9, Zenon DEF lastChanceToFinalize, Goto
<1> QED
  BY <1>1, <1>2, <1>3, <1>4, <1>5, <1>6, <1>7, <1>8, <1>9, Zenon DEF MutatorCall

(* FinalizeInv holds in every state of the conn protocol.                   *)
THEOREM FinalizeInvariant == Spec => []FinalizeInv
<1>1. Init => FinalizeInv
  BY Zenon DEF Init, FinalizeInv, Finishing, Conductors, Mutator, Collector, Has
<1>2. TypeOK /\ OneConductor /\ StopInv /\ AccessInv /\ PhaseInv /\ FinalizeInv /\ [Next]_vars => FinalizeInv'
  <2> SUFFICES ASSUME TypeOK, OneConductor, StopInv, AccessInv, PhaseInv, FinalizeInv, [Next]_vars PROVE FinalizeInv'
    BY Zenon
  <2> USE DEF FinalizeInv, Finishing, Conductors, Mutator, Collector, Has, phaseVars,
              cycleVars, ticketVars, threadVars, callVars, continuousVars, faultVars
  <2>a. pc \in [Conductors -> MutatorPCs \cup CollectorPCs]
    BY Zenon DEF TypeOK
  <2>1. CASE AssertsHold(Mutator) /\ MutatorStep
    BY <2>1, FinalizeMutator, Zenon
  <2>2. CASE MutatorCall
    BY <2>2, FinalizeCall, Zenon
  <2>3. CASE AssertsHold(Collector) /\ CollectorStep
    BY <2>3, FinalizeCollector, Zenon
  <2>4. CASE continuousRequest
    BY <2>a, <2>4, Zenon DEF continuousRequest, Goto, Notified
  <2>5. CASE continuousPause
    BY <2>a, <2>5, Zenon DEF continuousPause
  <2>6. CASE stopForTimeout
    BY <2>a, <2>6, Zenon DEF stopForTimeout, Goto
  <2>7. CASE schedulerTick
    BY <2>a, <2>7, Zenon DEF schedulerTick
  <2>8. CASE crash
    BY <2>a, <2>8, Zenon DEF crash
  <2>9. CASE UNCHANGED vars
    BY <2>9, Zenon DEF vars
  <2>10. QED
    BY <2>1, <2>2, <2>3, <2>4, <2>5, <2>6, <2>7, <2>8, <2>9, Zenon DEF Next, ContinuousStep
<1>3. QED
  BY <1>1, <1>2, TypeCorrect, ConnIsExclusive, StopInvariant, AccessWhileRunning, PhaseOrder,
     PTL DEF Spec

(* A collection begins only after the finalizers of the one before it have  *)
(* run to their end.                                                        *)
THEOREM FinalizersFirst == Spec => []FinalizedBeforeNextCycle
<1>1. FinalizeInv => FinalizedBeforeNextCycle
  BY Zenon DEF FinalizeInv, FinalizedBeforeNextCycle
<1>2. QED
  BY <1>1, FinalizeInvariant, PTL

=============================================================================

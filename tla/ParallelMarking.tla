-------------------------- MODULE ParallelMarking --------------------------
(***************************************************************************)
(* SlotVisitor.cpp: how the collector, the marking helpers and the mutator *)
(* share the mark stacks, and how they find out that marking is over.      *)
(* Marking models what a scan marks; here a mark stack is the number of    *)
(* cells on it, and a scan finds some of the cells that are still to be    *)
(* marked.  m_markingMutex is a mutex: one critical section is one step.   *)
(***************************************************************************)
EXTENDS Naturals, FiniteSets

CONSTANTS
    Collector,          \* the collector's visitor: MasterDrain
    Mutator,            \* the mutator's visitor: performIncrementOfDraining
    Helpers,            \* the marking helpers' visitors: SlaveDrain
    MaxCells,           \* bound on the cells a collection marks
    MaxTimeouts         \* bound on the drains that time out

\* What the constants have to satisfy.
ParallelMarkingAssumption ==
    /\ IsFiniteSet(Helpers)
    /\ Collector \notin Helpers /\ Mutator \notin Helpers \cup {Collector}
    /\ MaxCells \in Nat /\ MaxTimeouts \in Nat

VARIABLES
    unmarked,           \* the cells no visitor has found yet
    own,                \* the size of each visitor's mark stacks
    shared,             \* the size of the shared mark stacks
    active,             \* m_numberOfActiveParallelMarkers
    waiting,            \* m_numberOfWaitingParallelMarkers
    bonusTask,          \* m_bonusVisitorTask is set
    shouldExit,         \* m_parallelMarkersShouldExit
    elapsed,            \* the collector's timeout has passed
    timeouts,
    worldRuns,          \* the mutator runs, in the concurrent phase
    stopIfNecessary,    \* m_stopIfNecessaryTimer is scheduled
    visited,            \* didVisitSomething(): the constraints found a cell
    isActive,           \* the visitor's local of that name
    pc

counters == <<active, waiting>>
clock == <<elapsed, timeouts, worldRuns>>
work == <<unmarked, own, shared>>
vars == <<work, counters, clock, bonusTask, shouldExit, stopIfNecessary, visited, isActive, pc>>

Visitors == Helpers \cup {Collector, Mutator}

TypeOK ==
    /\ unmarked \in Nat /\ shared \in Nat /\ own \in [Visitors -> Nat]
    /\ active \in 0 .. Cardinality(Visitors) /\ waiting \in Nat
    /\ bonusTask \in BOOLEAN /\ shouldExit \in BOOLEAN /\ elapsed \in BOOLEAN
    /\ worldRuns \in BOOLEAN /\ stopIfNecessary \in BOOLEAN /\ visited \in BOOLEAN
    /\ timeouts \in 0 .. MaxTimeouts
    /\ isActive \in [Visitors -> BOOLEAN]
    /\ pc \in [Visitors -> {"out", "lock", "asleep", "awake", "scan", "task",
                            "fixpoint", "endTask", "waitTask", "drain", "passive", "stop", "finish"}]

\* The first fixpoint iteration: nothing is marked, and the helpers may start.
Init ==
    /\ unmarked = MaxCells /\ own = [v \in Visitors |-> 0] /\ shared = 0
    /\ active = 0 /\ waiting = 0
    /\ bonusTask = FALSE /\ shouldExit = FALSE /\ elapsed = FALSE /\ timeouts = 0
    /\ worldRuns = FALSE /\ stopIfNecessary = FALSE /\ visited = FALSE
    /\ isActive = [v \in Visitors |-> FALSE]
    /\ pc = [v \in Visitors |-> IF v = Collector THEN "fixpoint" ELSE "out"]

hasWork(v) == own[v] > 0 \/ shared > 0
(* Mutant: nobody is active, so there is no work. *)
didReachTerminationIdle(v) == active = 0 /\ own[v] \in Nat

didReachTermination(v) == active = 0 /\ ~hasWork(v)

\* pc after v goes to label, and after it notified m_markingConditionVariable first.
GotoOf(p, v, label) == [p EXCEPT ![v] = label]
Goto(v, label) == pc' = GotoOf(pc, v, label)
Notified == [v \in Visitors |-> IF pc[v] = "asleep" THEN "awake" ELSE pc[v]]
NotifyAndGoto(v, label) == pc' = GotoOf(Notified, v, label)

----------------------------------------------------------------------------
(* Scanning *)

\* visitChildren() of one cell: it marks and pushes some cells.
Visit(v) ==
    \E found \in 0 .. (IF unmarked < 2 THEN unmarked ELSE 2) :
        /\ unmarked' = unmarked - found
        /\ own' = [own EXCEPT ![v] = @ - 1 + found]
        /\ UNCHANGED shared

\* drain(): a visitor scans a cell, or its stacks are empty, or its time is over.
scan(v) ==
    /\ pc[v] \in {"scan", "drain"} /\ own[v] > 0 /\ ~(v = Collector /\ elapsed)
    /\ Visit(v)
    /\ UNCHANGED <<counters, bonusTask, shouldExit, clock, stopIfNecessary, visited, isActive, pc>>

\* donateKnownParallel(): half of the cells; the visitor may also not bother.
donateKnownParallel(v) ==
    /\ pc[v] \in {"scan", "drain"} /\ own[v] > 1
    /\ own' = [own EXCEPT ![v] = @ - @ \div 2]
    /\ shared' = shared + own[v] \div 2
    /\ pc' = Notified
    /\ UNCHANGED <<unmarked, counters, bonusTask, shouldExit, clock, stopIfNecessary, visited, isActive>>

\* drain() returns, to the loop of drainFromShared().
drained(v) ==
    /\ pc[v] \in {"scan", "drain"} /\ (own[v] = 0 \/ (v = Collector /\ elapsed))
    /\ isActive' = [isActive EXCEPT ![v] = (pc[v] = "scan")]
    /\ Goto(v, "lock")
    /\ UNCHANGED <<work, counters, bonusTask, shouldExit, clock, stopIfNecessary, visited>>

----------------------------------------------------------------------------
(* drainFromShared(): active and waiting as the visitor comes to the lock,
   and as it leaves with work. *)

Arrives(v) ==
    LET first == pc[v] = "lock" IN
    [active |-> IF first /\ isActive[v] THEN active - 1 ELSE active,
     waiting |-> IF first THEN waiting + 1 ELSE waiting]

stealSomeCells(v, idle) ==
    LET stolen == IF own[v] > 0 THEN 0 ELSE (shared + idle - 1) \div idle IN
    /\ own' = [own EXCEPT ![v] = @ + stolen]
    /\ shared' = shared - stolen
    /\ UNCHANGED unmarked

Waits(v, a, notify) ==
    /\ pc' = GotoOf(IF notify THEN Notified ELSE pc, v, "asleep")
    /\ active' = a.active /\ waiting' = a.waiting
    /\ UNCHANGED <<work, isActive>>

\* A return from the middle of the critical section: `waiting` keeps its count.
Returns(v, a, label, notify) ==
    /\ pc' = GotoOf(IF notify THEN Notified ELSE pc, v, label)
    /\ active' = a.active /\ waiting' = a.waiting
    /\ isActive' = [isActive EXCEPT ![v] = FALSE]
    /\ UNCHANGED work

Works(v, a) ==
    /\ stealSomeCells(v, a.waiting)
    /\ active' = a.active + 1 /\ waiting' = a.waiting - 1
    /\ Goto(v, "scan")
    /\ UNCHANGED isActive

masterDrain ==
    /\ pc[Collector] \in {"lock", "awake"}
    /\ LET a == Arrives(Collector)
           terminated == a.active = 0 /\ ~hasWork(Collector)
           caller == IF worldRuns THEN "stop" ELSE "fixpoint"
       IN IF elapsed THEN Returns(Collector, a, caller, FALSE)
          ELSE IF terminated THEN Returns(Collector, a, caller, TRUE)
          ELSE IF hasWork(Collector) THEN Works(Collector, a)
          ELSE Waits(Collector, a, FALSE)
    /\ UNCHANGED <<bonusTask, shouldExit, clock, stopIfNecessary, visited>>

slaveDrain(v) ==
    /\ v \in Helpers /\ pc[v] \in {"lock", "awake"}
    /\ LET a == Arrives(v)
           terminated == pc[v] = "lock" /\ a.active = 0 /\ ~hasWork(v)
       IN /\ stopIfNecessary' = (stopIfNecessary \/ terminated)
          /\ IF shouldExit THEN Returns(v, a, "out", terminated)
             ELSE IF hasWork(v) THEN Works(v, a)
             ELSE IF bonusTask
             THEN /\ active' = a.active + 1 /\ waiting' = a.waiting - 1
                  /\ pc' = GotoOf(IF terminated THEN Notified ELSE pc, v, "task")
                  /\ UNCHANGED <<work, isActive>>
             ELSE Waits(v, a, terminated)
    /\ UNCHANGED <<bonusTask, shouldExit, clock, visited>>

\* The pool gives a helper the client's function.
helperStarts(v) ==
    /\ v \in Helpers /\ pc[v] = "out" /\ pc[Collector] \notin {"finish", "out"}
    /\ isActive' = [isActive EXCEPT ![v] = FALSE]
    /\ Goto(v, "lock")
    /\ UNCHANGED <<work, counters, bonusTask, shouldExit, clock, stopIfNecessary, visited>>

\* A helper ran the task: it marked some cells, and drops its reference.
helperRanTask(v) ==
    /\ v \in Helpers /\ pc[v] = "task"
    /\ \E found \in 0 .. (IF unmarked < 1 THEN unmarked ELSE 1) :
        /\ unmarked' = unmarked - found
        /\ own' = [own EXCEPT ![v] = @ + found]
        /\ visited' = (visited \/ found > 0)
    /\ bonusTask' = FALSE
    /\ isActive' = [isActive EXCEPT ![v] = TRUE]
    /\ NotifyAndGoto(v, "lock")
    /\ UNCHANGED <<shared, counters, shouldExit, clock, stopIfNecessary>>

----------------------------------------------------------------------------
(* The collector *)

\* runFixpointPhase(), at termination: the constraints, by runTaskInParallel().
startTask ==
    /\ pc[Collector] = "fixpoint" /\ didReachTermination(Collector)
    /\ bonusTask' = TRUE /\ visited' = FALSE
    /\ NotifyAndGoto(Collector, "task")
    /\ UNCHANGED <<work, counters, shouldExit, clock, stopIfNecessary, isActive>>

runTask ==
    /\ pc[Collector] = "task"
    /\ \E found \in 0 .. (IF unmarked < 2 THEN unmarked ELSE 2) :
        /\ unmarked' = unmarked - found
        /\ own' = [own EXCEPT ![Collector] = @ + found]
        /\ visited' = (visited \/ found > 0)
    /\ Goto(Collector, "endTask")
    /\ UNCHANGED <<shared, counters, bonusTask, shouldExit, clock, stopIfNecessary, isActive>>

endTask ==
    /\ pc[Collector] = "endTask"
    /\ bonusTask' = FALSE
    /\ NotifyAndGoto(Collector, "waitTask")
    /\ UNCHANGED <<work, counters, shouldExit, clock, stopIfNecessary, visited, isActive>>

(* Mutant: the sleeping helpers are not told to exit. *)
taskIsOverSilently ==
    /\ pc[Collector] = "waitTask" /\ \A v \in Helpers : pc[v] # "task"
    /\ elapsed' = FALSE
    /\ IF visited \/ own[Collector] > 0
       THEN Goto(Collector, "drain") /\ UNCHANGED shouldExit
       ELSE shouldExit' = TRUE /\ Goto(Collector, "finish")
    /\ UNCHANGED <<work, counters, bonusTask, timeouts, worldRuns, stopIfNecessary, visited, isActive>>

\* runTaskInParallel() waits for the task's references, and the fixpoint goes
\* on: to the end when the constraints found nothing, or to draining.
taskIsOver ==
    /\ pc[Collector] = "waitTask" /\ \A v \in Helpers : pc[v] # "task"
    /\ elapsed' = FALSE
    /\ IF visited \/ own[Collector] > 0
       THEN Goto(Collector, "drain") /\ UNCHANGED shouldExit
       ELSE shouldExit' = TRUE /\ NotifyAndGoto(Collector, "finish")
    /\ UNCHANGED <<work, counters, bonusTask, timeouts, worldRuns, stopIfNecessary, visited, isActive>>

\* drainInParallel() when there is still work: the world stays stopped.
drainAgain ==
    /\ pc[Collector] = "fixpoint" /\ ~didReachTermination(Collector)
    /\ elapsed' = FALSE
    /\ Goto(Collector, "drain")
    /\ UNCHANGED <<work, counters, bonusTask, shouldExit, timeouts, worldRuns, stopIfNecessary, visited, isActive>>

\* runConcurrentPhase(): the world runs.  drainInParallelPassively() gives the collector's
\* cells to the others, or drains them itself when the mutator waits or has no heap access.
drainInParallelPassively ==
    /\ pc[Collector] = "fixpoint" /\ ~didReachTermination(Collector)
    /\ timeouts < MaxTimeouts
    /\ elapsed' = FALSE /\ timeouts' = timeouts + 1 /\ worldRuns' = TRUE
    /\ \/ /\ own' = [own EXCEPT ![Collector] = 0]
          /\ shared' = shared + own[Collector]
          /\ NotifyAndGoto(Collector, "passive")
       \/ Goto(Collector, "drain") /\ UNCHANGED <<own, shared>>
    /\ UNCHANGED <<unmarked, counters, bonusTask, shouldExit, stopIfNecessary, visited, isActive>>

waitForTermination ==
    /\ pc[Collector] = "passive"
    /\ \/ elapsed /\ Goto(Collector, "stop")
       \/ ~elapsed /\ didReachTermination(Collector) /\ NotifyAndGoto(Collector, "stop")
    /\ UNCHANGED <<work, counters, bonusTask, shouldExit, clock, stopIfNecessary, visited, isActive>>

\* runReloopPhase(): the world is stopped again, not in the middle of an increment of the
\* mutator's.
stopTheMutator ==
    /\ pc[Collector] = "stop" /\ pc[Mutator] = "out"
    /\ worldRuns' = FALSE
    /\ Goto(Collector, "fixpoint")
    /\ UNCHANGED <<work, counters, bonusTask, shouldExit, elapsed, timeouts, stopIfNecessary, visited, isActive>>

\* The collector's time is over; a wait with that timeout ends.
elapse ==
    /\ pc[Collector] \in {"drain", "lock", "asleep", "awake", "scan"}
    /\ ~elapsed /\ (worldRuns \/ timeouts < MaxTimeouts)
    /\ elapsed' = TRUE /\ timeouts' = IF worldRuns THEN timeouts ELSE timeouts + 1
    /\ pc' = IF pc[Collector] = "asleep" THEN GotoOf(pc, Collector, "awake") ELSE pc
    /\ UNCHANGED <<work, counters, worldRuns, bonusTask, shouldExit, stopIfNecessary, visited, isActive>>

elapsePassively ==
    /\ pc[Collector] = "passive" /\ ~elapsed
    /\ elapsed' = TRUE
    /\ UNCHANGED <<work, counters, timeouts, worldRuns, bonusTask, shouldExit, stopIfNecessary, visited, isActive, pc>>

\* ParallelHelperClient::finish()
finish ==
    /\ pc[Collector] = "finish" /\ \A v \in Helpers : pc[v] = "out"
    /\ Goto(Collector, "out")
    /\ UNCHANGED <<work, counters, bonusTask, shouldExit, clock, stopIfNecessary, visited, isActive>>

----------------------------------------------------------------------------
(* The mutator's increments, while the world runs *)

performIncrement ==
    /\ worldRuns /\ pc[Mutator] = "out" /\ shared > 0
    /\ \E n \in 1 .. shared :
        own' = [own EXCEPT ![Mutator] = n] /\ shared' = shared - n
    /\ Goto(Mutator, "scan")
    /\ UNCHANGED <<unmarked, counters, bonusTask, shouldExit, clock, stopIfNecessary, visited, isActive>>

mutatorScans ==
    /\ pc[Mutator] \in {"scan", "drain"} /\ own[Mutator] > 0
    /\ Visit(Mutator)
    /\ Goto(Mutator, "drain")
    /\ UNCHANGED <<counters, clock, bonusTask, shouldExit, stopIfNecessary, visited, isActive>>

\* donateAll() ends the increment, in which at least one cell was scanned.
donateAll ==
    /\ pc[Mutator] = "drain"
    /\ own' = [own EXCEPT ![Mutator] = 0]
    /\ shared' = shared + own[Mutator]
    /\ IF own[Mutator] = 0 THEN Goto(Mutator, "out") ELSE NotifyAndGoto(Mutator, "out")
    /\ UNCHANGED <<unmarked, counters, bonusTask, shouldExit, clock, stopIfNecessary, visited, isActive>>

----------------------------------------------------------------------------

Scans(v) == scan(v) \/ drained(v)

Collects ==
    \/ Scans(Collector) \/ masterDrain
    \/ startTask \/ runTask \/ endTask \/ taskIsOver
    \/ drainAgain \/ waitForTermination \/ elapsePassively \/ stopTheMutator \/ finish

Helps(v) == Scans(v) \/ slaveDrain(v) \/ helperRanTask(v)

Increments == mutatorScans \/ donateAll

Next ==
    \/ Collects
    \/ \E v \in Helpers : Helps(v) \/ helperStarts(v)
    \/ \E v \in Visitors : donateKnownParallel(v)
    \/ drainInParallelPassively \/ elapse
    \/ performIncrement \/ Increments

Spec == Init /\ [][Next]_vars

----------------------------------------------------------------------------

Busy(v) == pc[v] \in {"scan", "drain", "task"}

\* The comment in runFixpointPhase(): when the collector sees termination
\* with the world stopped, no visitor holds a cell and no helper runs a task,
\* although it looks at no stack but its own and the shared ones.
TerminationIsReal ==
    \/ pc[Collector] = "fixpoint" /\ didReachTermination(Collector)
    \/ pc[Collector] = "finish"
    => shared = 0 /\ \A v \in Visitors : own[v] = 0 /\ ~Busy(v)

\* RELEASE_ASSERT(!isEmpty()) in drainFromShared(): a visitor that was told
\* there is work gets at least one cell of it.
StealFindsWork == [][\A v \in Helpers \cup {Collector} :
    pc[v] \in {"lock", "awake"} /\ pc'[v] = "scan" => own'[v] > 0]_vars

\* The comment in runTaskInParallel(): its return implies that the task has
\* terminated in all threads, so the lambda on the collector's stack is dead.
TaskIsOver ==
    pc[Collector] \notin {"task", "endTask", "waitTask"} => \A v \in Helpers : pc[v] # "task"

\* A visitor that sleeps is not needed: while the collector waits for others,
\* work is in the hands of a visitor that is awake.
NobodySleepsOnWork ==
    pc[Collector] = "asleep" => shared = 0 /\ \E v \in Visitors : Busy(v) \/ pc[v] \in {"lock", "awake"}

\* A cell is on one mark stack: no two of them hold more than was found.
StacksAreBounded == \A v \in Visitors : unmarked + shared + own[v] <= MaxCells

\* Marking ends and every helper goes back to the pool.
MarkingEnds == <>[](\A v \in Visitors : pc[v] = "out")

=============================================================================

----------------------------- MODULE Periphery -----------------------------
(***************************************************************************)
(* How the SlotVisitors learn that the mutator is stopped or resumed.      *)
(* Heap::stopThePeriphery and Heap::resumeThePeriphery, run by the thread  *)
(* that conducts the collection, bring each visitor's m_mutatorIsStopped   *)
(* up to date; SlotVisitor::drain brings it up to date too, under the      *)
(* visitor's m_rightToRun, which it gives up at safepoints.  A visitor     *)
(* whose flag is set scans objects without looking for races.  The flag    *)
(* and Heap::m_worldIsStopped are plain bools: reading the one and writing *)
(* the other are two steps.                                                *)
(***************************************************************************)
EXTENDS Naturals

CONSTANTS
    Collector,          \* m_collectorSlotVisitor, drained by the conducting thread
    Helpers,            \* the parallel visitors, each drained by a helper thread
    MaxStops            \* bound: how often the world is stopped

\* What the constants have to satisfy.
PeripheryAssumption ==
    Collector \notin Helpers /\ MaxStops \in Nat

Visitors == Helpers \cup {Collector}

VARIABLES
    optimizeParallel,   \* Options::optimizeParallelSlotVisitorsForStoppedMutator, set at startup
    worldIsStopped,     \* Heap::m_worldIsStopped
    registered,         \* the visitors that were made so far
    mutatorIsStopped,   \* each visitor's m_mutatorIsStopped
    rightToRun,         \* who holds each visitor's m_rightToRun: itself, "conductor" or "nobody"
    drain,              \* what each visitor does: away, about to read, about to write, visiting
    read,               \* the value the visitor computed and has not written
    conductor,          \* what the conducting thread does
    todo,               \* the visitors it has not brought up to date
    stops               \* how often it stopped the world

vars == <<optimizeParallel, worldIsStopped, registered, mutatorIsStopped, rightToRun, drain, read,
          conductor, todo, stops>>

\* Heap's constructor and the helper function: who got optimizeForStoppedMutator().
m_canOptimizeForStoppedMutator(v) == v = Collector \/ optimizeParallel

TypeOK ==
    /\ optimizeParallel \in BOOLEAN /\ worldIsStopped \in BOOLEAN
    /\ registered \subseteq Visitors /\ todo \subseteq registered
    /\ mutatorIsStopped \in [Visitors -> BOOLEAN]
    /\ rightToRun \in [Visitors -> {"itself", "conductor", "nobody"}]
    /\ drain \in [Visitors -> {"away", "wait", "read", "write", "visit"}]
    /\ read \in [Visitors -> BOOLEAN]
    /\ conductor \in {"running", "stopping", "stopped", "trying", "locking"}
    /\ stops \in 0 .. MaxStops

Init ==
    /\ optimizeParallel \in BOOLEAN /\ worldIsStopped = FALSE
    /\ registered = {Collector}
    /\ mutatorIsStopped = [v \in Visitors |-> FALSE]
    /\ rightToRun = [v \in Visitors |-> "nobody"]
    /\ drain = [v \in Visitors |-> "away"]
    /\ read = [v \in Visitors |-> FALSE]
    /\ conductor = "running" /\ todo = {} /\ stops = 0

-----------------------------------------------------------------------------
(* The visitors. *)

conducting == <<optimizeParallel, worldIsStopped, conductor, todo, stops>>

\* The helper function makes a visitor when none is available.  forEachSlotVisitor, and
\* so the loop of stopThePeriphery, excludes it by m_parallelSlotVisitorLock.
makeVisitor(v) ==
    /\ v \notin registered /\ conductor # "stopping"
    /\ registered' = registered \cup {v}
    /\ UNCHANGED <<conducting, mutatorIsStopped, rightToRun, drain, read>>

\* The conducting thread drains its own visitor between two changes of the world.
MayDrain(v) == v \in registered /\ (v = Collector => conductor \in {"running", "stopped"})

\* drain() asks for m_rightToRun; it may have to wait for the conductor.
beginDrain(v) ==
    /\ MayDrain(v) /\ drain[v] = "away"
    /\ drain' = [drain EXCEPT ![v] = "wait"]
    /\ UNCHANGED <<conducting, registered, mutatorIsStopped, rightToRun, read>>

lock(v) ==
    /\ drain[v] = "wait" /\ rightToRun[v] = "nobody"
    /\ rightToRun' = [rightToRun EXCEPT ![v] = "itself"]
    /\ drain' = [drain EXCEPT ![v] = "read"]
    /\ UNCHANGED <<conducting, registered, mutatorIsStopped, read>>

\* updateMutatorIsStopped(locker): the load of worldIsStopped(), then the store.
readWorldIsStopped(v) ==
    /\ drain[v] = "read"
    /\ read' = [read EXCEPT ![v] = worldIsStopped /\ m_canOptimizeForStoppedMutator(v)]
    /\ drain' = [drain EXCEPT ![v] = "write"]
    /\ UNCHANGED <<conducting, registered, mutatorIsStopped, rightToRun>>

updateMutatorIsStopped(v) ==
    /\ drain[v] = "write"
    /\ mutatorIsStopped' = [mutatorIsStopped EXCEPT ![v] = read[v]]
    /\ read' = [read EXCEPT ![v] = FALSE]
    /\ drain' = [drain EXCEPT ![v] = "visit"]
    /\ UNCHANGED <<conducting, registered, rightToRun>>

\* The last loop of resumeThePeriphery waits for one lock at a time, in some order.
Current == CHOOSE v \in todo : TRUE

\* m_rightToRun.safepoint(): somebody who is parked on the lock gets it at once.
Parked(v) == conductor = "locking" /\ v \in todo /\ v = Current
safepoint(v) ==
    /\ drain[v] = "visit"
    /\ IF Parked(v)
       THEN /\ rightToRun' = [rightToRun EXCEPT ![v] = "conductor"]
            /\ drain' = [drain EXCEPT ![v] = "wait"]
       ELSE drain' = [drain EXCEPT ![v] = "read"] /\ UNCHANGED rightToRun
    /\ UNCHANGED <<conducting, registered, mutatorIsStopped, read>>

\* The stacks are empty, or the time has elapsed: the lock is released.
endDrain(v) ==
    /\ drain[v] = "visit"
    /\ drain' = [drain EXCEPT ![v] = "away"]
    /\ rightToRun' = [rightToRun EXCEPT ![v] = "nobody"]
    /\ UNCHANGED <<conducting, registered, mutatorIsStopped, read>>

-----------------------------------------------------------------------------
(* The conducting thread. *)

Conducts == drain[Collector] = "away"

stopThePeriphery ==
    /\ Conducts /\ conductor = "running" /\ stops < MaxStops
    /\ stops' = stops + 1
    /\ worldIsStopped' = TRUE
    /\ conductor' = "stopping" /\ todo' = registered
    /\ UNCHANGED <<optimizeParallel, registered, mutatorIsStopped, rightToRun, drain, read>>

\* updateMutatorIsStopped(NoLockingNecessary): a plain store into a visitor that may be draining.
tellStopped ==
    /\ conductor = "stopping"
    /\ \E v \in todo :
        /\ mutatorIsStopped' = [mutatorIsStopped EXCEPT ![v] = m_canOptimizeForStoppedMutator(v)]
        /\ todo' = todo \ {v}
    /\ conductor' = IF todo' = {} THEN "stopped" ELSE "stopping"
    /\ UNCHANGED <<optimizeParallel, worldIsStopped, registered, rightToRun, drain, read, stops>>

(* Mutant: the world still counts as stopped. *)
resumeStopped ==
    /\ Conducts /\ conductor = "stopped"
    /\ worldIsStopped' = TRUE
    /\ conductor' = "trying" /\ todo' = registered
    /\ UNCHANGED <<optimizeParallel, registered, mutatorIsStopped, rightToRun, drain, read, stops>>

resumeThePeriphery ==
    /\ Conducts /\ conductor = "stopped"
    /\ worldIsStopped' = FALSE
    /\ conductor' = "trying" /\ todo' = registered
    /\ UNCHANGED <<optimizeParallel, registered, mutatorIsStopped, rightToRun, drain, read, stops>>

\* One visitor of one of the 40 rounds: it has acknowledged, or tryHoldLock succeeds.
hasAcknowledgedThatTheMutatorIsResumed(v) == ~mutatorIsStopped[v]
tellResumed ==
    /\ conductor = "trying"
    /\ \E v \in todo :
        /\ hasAcknowledgedThatTheMutatorIsResumed(v) \/ rightToRun[v] = "nobody"
        /\ mutatorIsStopped' = [mutatorIsStopped EXCEPT ![v] = FALSE]
        /\ todo' = todo \ {v}
    /\ conductor' = IF todo' = {} THEN "running" ELSE "trying"
    /\ UNCHANGED <<optimizeParallel, worldIsStopped, registered, rightToRun, drain, read, stops>>

\* The countdown is over: the conductor will wait for the locks that are left.
stopTrying ==
    /\ conductor = "trying"
    /\ conductor' = "locking"
    /\ UNCHANGED <<optimizeParallel, worldIsStopped, registered, mutatorIsStopped, rightToRun, drain, read, todo, stops>>

\* updateMutatorIsStopped(): nothing if it is up to date, else with the lock, once it is free
\* or was handed over at a safepoint.  A visitor that released the lock and took it again has
\* brought its flag up to date itself; the eventual fairness of WTF::Lock lets the conductor in.
updateUnderLock ==
    /\ conductor = "locking"
    /\ \E v \in todo :
        /\ v = Current
        /\ \/ hasAcknowledgedThatTheMutatorIsResumed(v) /\ UNCHANGED rightToRun
           \/ /\ rightToRun[v] \in {"nobody", "conductor"}
              /\ rightToRun' = [rightToRun EXCEPT ![v] = "nobody"]
        /\ mutatorIsStopped' = [mutatorIsStopped EXCEPT ![v] = FALSE]
        /\ todo' = todo \ {v}
    /\ conductor' = IF todo' = {} THEN "running" ELSE "locking"
    /\ UNCHANGED <<optimizeParallel, worldIsStopped, registered, drain, read, stops>>

-----------------------------------------------------------------------------
\* What a visitor that is draining goes on doing.
Drains(v) == lock(v) \/ readWorldIsStopped(v) \/ updateMutatorIsStopped(v) \/ safepoint(v)

visits(v) ==
    beginDrain(v) \/ Drains(v) \/ endDrain(v)

conducts ==
    \/ stopThePeriphery \/ tellStopped \/ resumeThePeriphery \/ tellResumed
    \/ stopTrying \/ updateUnderLock

Next == conducts \/ \E v \in Visitors : makeVisitor(v) \/ visits(v)

Spec == Init /\ [][Next]_vars

-----------------------------------------------------------------------------
\* A visitor that skips the race checks of visitButterflyImpl does so only while the world
\* is stopped: once resumeThePeriphery is over, no visitor scans with its flag set.
BelieversAreRight ==
    conductor = "running" => \A v \in Visitors : drain[v] = "visit" => ~mutatorIsStopped[v]

\* The collector's own visitor takes the fast path whenever it drains a stopped world.
StoppedIsNoticed == conductor = "stopped" /\ drain[Collector] = "visit" => mutatorIsStopped[Collector]

\* resumeThePeriphery returns, however long the visitors go on draining: a draining visitor
\* gives up its lock at the next safepoint.
ResumeReturns == conductor \in {"trying", "locking"} ~> conductor = "running"

=============================================================================

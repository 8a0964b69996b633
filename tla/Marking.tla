------------------------------ MODULE Marking ------------------------------
(***************************************************************************)
(* Concurrent, generational marking: the mutator's stores and the write    *)
(* barrier (Heap::writeBarrier, writeBarrierSlowPath, addToRememberedSet), *)
(* the SlotVisitors that scan cells while the mutator runs, and the        *)
(* constraint fixpoint that decides that marking is over.  HeapConductor   *)
(* models who runs the phases; here a phase change is one step, and the    *)
(* world stops only when the mutator is between two operations.            *)
(***************************************************************************)
EXTENDS Naturals

CONSTANTS
    Cells, NoCell,
    Fields,             \* the slots of a cell that hold cells
    Visitors            \* the SlotVisitors: the collector's, the mutator's, the helpers'

ASSUME MarkingAssumption == NoCell \notin Cells

VARIABLES
    field,              \* the heap: the cell each slot of each cell points to
    roots,              \* the cells the mutator's stack and registers hold
    allocated,          \* the cells that have not been swept
    cellState,          \* the cell's CellState
    marked,             \* the cells whose mark bit is set in the current marking version
    markStack,          \* the cells on the mark stacks of the visitors and on the shared ones
    mutatorMarkStack,   \* Heap::m_mutatorMarkStack, the remembered set
    raceMarkStack,      \* Heap::m_raceMarkStack
    scope,              \* m_collectionScope
    phase,              \* m_currentPhase, as far as marking tells phases apart
    iteration,          \* MarkingConstraintSet::m_iteration, up to 3
    scanned,            \* the Conservative Scan's lastVersion = m_phaseVersion
    mutator,            \* what the mutator does: at a step of the barrier of a cell
    visitor,            \* what each visitor does: the cell it scans
    garbage             \* the cells no root led to when the full collection began

heapVars == <<field, roots, allocated>>
stacks == <<markStack, mutatorMarkStack, raceMarkStack>>
phaseVars == <<scope, phase, iteration, scanned, garbage>>
vars == <<heapVars, cellState, marked, stacks, phaseVars, mutator, visitor>>

States == {"PossiblyBlack", "DefinitelyWhite", "PossiblyGrey"}

Running == [at |-> "run", cell |-> NoCell]
Resting == [at |-> "scan", cell |-> NoCell, todo |-> {}, child |-> NoCell]

TypeOK ==
    /\ field \in [Cells -> [Fields -> Cells \cup {NoCell}]]
    /\ roots \subseteq Cells /\ allocated \subseteq Cells /\ marked \subseteq Cells
    /\ cellState \in [Cells -> States]
    /\ markStack \subseteq Cells /\ mutatorMarkStack \subseteq Cells /\ raceMarkStack \subseteq Cells
    /\ scope \in {"None", "Eden", "Full"}
    /\ phase \in {"NotRunning", "Fixpoint", "Concurrent", "End"}
    /\ iteration \in 1 .. 3 /\ scanned \in BOOLEAN
    /\ mutator \in [at: {"run", "check", "isMarked", "cas", "recheck", "remember"}, cell: Cells \cup {NoCell}]
    /\ visitor \in [Visitors -> [at: {"scan", "mark", "grey"}, cell: Cells \cup {NoCell},
                                 todo: SUBSET Fields, child: Cells \cup {NoCell}]]
    /\ garbage \subseteq Cells

Empty == [f \in Fields |-> NoCell]

Init ==
    /\ field = [c \in Cells |-> Empty]
    /\ roots = {} /\ allocated = {} /\ marked = {}
    /\ cellState = [c \in Cells |-> "DefinitelyWhite"]
    /\ markStack = {} /\ mutatorMarkStack = {} /\ raceMarkStack = {}
    /\ scope = "None" /\ phase = "NotRunning" /\ iteration = 1 /\ scanned = FALSE
    /\ mutator = Running
    /\ visitor = [v \in Visitors |-> Resting]
    /\ garbage = {}

\* What the program can still reach: the least set that holds the roots and
\* the cells its members point to.
Reachable ==
    {c \in Cells : \A S \in SUBSET Cells :
        (roots \subseteq S /\ \A d \in S, f \in Fields : field[d][f] \in S \cup {NoCell}) => c \in S}

\* Heap::mutatorShouldBeFenced(): from beginMarking() to endMarking().
mutatorShouldBeFenced == scope # "None"

----------------------------------------------------------------------------
(* The mutator *)

MutatorRuns == phase \in {"NotRunning", "Concurrent"} /\ mutator = Running

\* A new JSCell: as a swept cell is left here, white, not marked, its slots empty.
allocate(c) ==
    /\ MutatorRuns /\ c \notin allocated
    /\ allocated' = allocated \cup {c}
    /\ roots' = roots \cup {c}
    /\ UNCHANGED <<field, cellState, marked, stacks, phaseVars, mutator, visitor>>

load(c, f) ==
    /\ MutatorRuns /\ c \in roots /\ field[c][f] # NoCell
    /\ roots' = roots \cup {field[c][f]}
    /\ UNCHANGED <<field, allocated, cellState, marked, stacks, phaseVars, mutator, visitor>>

forget(c) ==
    /\ MutatorRuns /\ c \in roots
    /\ roots' = roots \ {c}
    /\ UNCHANGED <<field, allocated, cellState, marked, stacks, phaseVars, mutator, visitor>>

\* WriteBarrier<T>::set(): the store, then Heap::writeBarrier(from, to),
\* which does nothing for a null `to`.
store(c, f, to) ==
    /\ MutatorRuns /\ c \in roots /\ to \in roots \cup {NoCell} /\ field[c][f] # to
    /\ field' = [field EXCEPT ![c][f] = to]
    /\ mutator' = IF to = NoCell THEN Running ELSE [at |-> "check", cell |-> c]
    /\ UNCHANGED <<roots, allocated, cellState, marked, stacks, phaseVars, visitor>>

\* isWithinThreshold() without a fence, or the check behind the
\* storeLoadFence() of writeBarrierSlowPath(): only a black cell goes on.
writeBarrierSlowPath ==
    /\ mutator.at = "check"
    /\ mutator' = IF cellState[mutator.cell] # "PossiblyBlack" THEN Running
                  ELSE [mutator EXCEPT !.at = IF mutatorShouldBeFenced THEN "isMarked" ELSE "remember"]
    /\ UNCHANGED <<heapVars, cellState, marked, stacks, phaseVars, visitor>>

(* addToRememberedSet(), one action per access to what a visitor may change *)

(* Mutant: every cell is remembered. *)
barrierSkipsIsMarked ==
    /\ mutator.at = "isMarked"
    /\ mutator' = [mutator EXCEPT !.at = "remember"]
    /\ UNCHANGED <<heapVars, cellState, marked, stacks, phaseVars, visitor>>

barrierIsMarked ==
    /\ mutator.at = "isMarked"
    /\ mutator' = [mutator EXCEPT !.at = IF mutator.cell \in marked THEN "remember" ELSE "cas"]
    /\ UNCHANGED <<heapVars, cellState, marked, stacks, phaseVars, visitor>>

barrierWhiten ==
    /\ mutator.at = "cas"
    /\ IF cellState[mutator.cell] = "PossiblyBlack"
       THEN /\ cellState' = [cellState EXCEPT ![mutator.cell] = "DefinitelyWhite"]
            /\ mutator' = [mutator EXCEPT !.at = "recheck"]
       ELSE mutator' = Running /\ UNCHANGED cellState
    /\ UNCHANGED <<heapVars, marked, stacks, phaseVars, visitor>>

barrierRecheck ==
    /\ mutator.at = "recheck"
    /\ cellState' = IF mutator.cell \in marked
                    THEN [cellState EXCEPT ![mutator.cell] = "PossiblyBlack"] ELSE cellState
    /\ mutator' = Running
    /\ UNCHANGED <<heapVars, marked, stacks, phaseVars, visitor>>

(* Mutant: the cell does not get onto the mark stack. *)
barrierOnlyGreys ==
    /\ mutator.at = "remember"
    /\ cellState' = [cellState EXCEPT ![mutator.cell] = "PossiblyGrey"]
    /\ mutatorMarkStack' = mutatorMarkStack
    /\ mutator' = Running
    /\ UNCHANGED <<heapVars, marked, markStack, raceMarkStack, phaseVars, visitor>>

barrierRemember ==
    /\ mutator.at = "remember"
    /\ cellState' = [cellState EXCEPT ![mutator.cell] = "PossiblyGrey"]
    /\ mutatorMarkStack' = mutatorMarkStack \cup {mutator.cell}
    /\ mutator' = Running
    /\ UNCHANGED <<heapVars, marked, markStack, raceMarkStack, phaseVars, visitor>>

----------------------------------------------------------------------------
(* The visitors *)

Marking == phase \in {"Fixpoint", "Concurrent"}
IsResting(v) == visitor[v] = Resting

\* The step of a visitor that ends with its fields todo: it rests after the last.
Scan(v, todo) ==
    IF todo = {} THEN Resting
    ELSE [at |-> "scan", cell |-> visitor[v].cell, todo |-> todo, child |-> NoCell]

\* drain() takes a cell, and visitChildren() blackens it before it loads a slot.
\* The stacks may hold the cell more than once, so it may also stay.
visitChildren(v, c) ==
    /\ Marking /\ IsResting(v) /\ c \in markStack
    /\ markStack' \in {markStack, markStack \ {c}}
    /\ cellState' = [cellState EXCEPT ![c] = "PossiblyBlack"]
    /\ visitor' = [visitor EXCEPT ![v] = [at |-> "scan", cell |-> c, todo |-> Fields, child |-> NoCell]]
    /\ UNCHANGED <<heapVars, marked, mutatorMarkStack, raceMarkStack, phaseVars, mutator>>

\* append() of one slot: an empty slot is skipped.
append(v, f) ==
    /\ visitor[v].at = "scan" /\ f \in visitor[v].todo
    /\ LET child == field[visitor[v].cell][f] IN
       visitor' = [visitor EXCEPT ![v] = IF child = NoCell THEN Scan(v, visitor[v].todo \ {f})
                                         ELSE [at |-> "mark", cell |-> visitor[v].cell,
                                               todo |-> visitor[v].todo \ {f}, child |-> child]]
    /\ UNCHANGED <<heapVars, cellState, marked, stacks, phaseVars, mutator>>

\* setMarkedAndAppendToMarkStack(): testAndSetMarked(), then grey, then append.
testAndSetMarked(v) ==
    /\ visitor[v].at = "mark"
    /\ marked' = marked \cup {visitor[v].child}
    /\ visitor' = [visitor EXCEPT ![v] = IF @.child \in marked THEN Scan(v, @.todo) ELSE [@ EXCEPT !.at = "grey"]]
    /\ UNCHANGED <<heapVars, cellState, stacks, phaseVars, mutator>>

appendToMarkStack(v) ==
    /\ visitor[v].at = "grey"
    /\ cellState' = [cellState EXCEPT ![visitor[v].child] = "PossiblyGrey"]
    /\ markStack' = markStack \cup {visitor[v].child}
    /\ visitor' = [visitor EXCEPT ![v] = Scan(v, @.todo)]
    /\ UNCHANGED <<heapVars, marked, mutatorMarkStack, raceMarkStack, phaseVars, mutator>>

\* A visitor that sees the cell change shape under it gives up its scan; it may report the
\* race only after the mutator was stopped again.
didRace(v) ==
    /\ Marking /\ visitor[v].at = "scan" /\ ~IsResting(v)
    /\ cellState' = [cellState EXCEPT ![visitor[v].cell] = "PossiblyGrey"]
    /\ raceMarkStack' = raceMarkStack \cup {visitor[v].cell}
    /\ visitor' = [visitor EXCEPT ![v] = Resting]
    /\ UNCHANGED <<heapVars, marked, markStack, mutatorMarkStack, phaseVars, mutator>>

----------------------------------------------------------------------------
(* The phases *)

didReachTermination == markStack = {} /\ \A v \in Visitors : IsResting(v)

(* Mutant: the marks of the last collection are kept. *)
runBeginPhaseMarked(s) ==
    /\ phase = "NotRunning" /\ mutator = Running
    /\ scope' = s /\ phase' = "Fixpoint" /\ iteration' = 1 /\ scanned' = FALSE
    /\ IF s = "Full"
       THEN marked' = marked /\ mutatorMarkStack' = {}
       ELSE UNCHANGED <<marked, mutatorMarkStack>>
    /\ garbage' = IF s = "Full" THEN allocated \ Reachable ELSE {}
    /\ UNCHANGED <<heapVars, cellState, markStack, raceMarkStack, mutator, visitor>>

\* runBeginPhase(): a full collection starts from no mark and no remembered cell.
runBeginPhase(s) ==
    /\ phase = "NotRunning" /\ mutator = Running
    /\ scope' = s /\ phase' = "Fixpoint" /\ iteration' = 1 /\ scanned' = FALSE
    /\ IF s = "Full"
       THEN marked' = {} /\ mutatorMarkStack' = {}
       ELSE UNCHANGED <<marked, mutatorMarkStack>>
    /\ garbage' = IF s = "Full" THEN allocated \ Reachable ELSE {}
    /\ UNCHANGED <<heapVars, cellState, markStack, raceMarkStack, mutator, visitor>>

(* Mutant: the roots are scanned in the first iteration only. *)
NewRootsOnce(constraints) == IF "Cs" \in constraints /\ iteration = 1 THEN roots \ marked ELSE {}

\* The constraints that are executed: "Cs" is the Conservative Scan, "Msm"
\* is Mark Stack Merging.
NewRoots(constraints) == IF "Cs" \in constraints /\ ~scanned THEN roots \ marked ELSE {}
Merged(constraints) == IF "Msm" \in constraints THEN mutatorMarkStack \cup raceMarkStack ELSE {}

Execute(constraints) ==
    /\ marked' = marked \cup NewRoots(constraints)
    /\ cellState' = [c \in Cells |-> IF c \in NewRoots(constraints) THEN "PossiblyGrey" ELSE cellState[c]]
    /\ markStack' = NewRoots(constraints) \cup Merged(constraints)
    /\ IF "Msm" \in constraints THEN mutatorMarkStack' = {} /\ raceMarkStack' = {}
       ELSE UNCHANGED <<mutatorMarkStack, raceMarkStack>>
    /\ scanned' = (scanned \/ "Cs" \in constraints)
    /\ iteration' = IF iteration < 3 THEN iteration + 1 ELSE 3

VisitsSomething(constraints) == NewRoots(constraints) # {} \/ Merged(constraints) # {}

\* executeConvergence(): every root, then the outgrowths (of which this model
\* has none), then constraints until one of them visits something.
Picks == CASE iteration = 1 -> {{"Cs", "Msm"}}
           [] iteration = 2 -> {{}}
           [] OTHER -> {{"Cs", "Msm"}} \cup {cs \in {{"Cs"}, {"Msm"}} : VisitsSomething(cs)}

runFixpointPhase ==
    /\ phase = "Fixpoint" /\ didReachTermination
    /\ \E cs \in Picks :
        /\ Execute(cs)
        /\ phase' = IF iteration = 3 /\ ~VisitsSomething(cs) THEN "End" ELSE "Fixpoint"
    /\ UNCHANGED <<heapVars, scope, mutator, visitor, garbage>>

\* The scheduler lets the mutator run before the work is done ...
resume ==
    /\ phase = "Fixpoint" /\ ~didReachTermination
    /\ phase' = "Concurrent" /\ scanned' = FALSE
    /\ UNCHANGED <<heapVars, cellState, marked, stacks, scope, iteration, garbage, mutator, visitor>>

\* ... and stops it again.
runReloopPhase ==
    /\ phase = "Concurrent" /\ mutator = Running
    /\ phase' = "Fixpoint" /\ scanned' = FALSE
    /\ UNCHANGED <<heapVars, cellState, marked, stacks, scope, iteration, garbage, mutator, visitor>>

\* runEndPhase(): after it every cell without a mark may be swept and reused;
\* the model clears it at once.
runEndPhase ==
    /\ phase = "End"
    /\ phase' = "NotRunning" /\ scope' = "None"
    /\ allocated' = allocated \cap marked
    /\ field' = [c \in Cells |-> IF c \in marked THEN field[c] ELSE Empty]
    /\ cellState' = [c \in Cells |-> IF c \in marked THEN cellState[c] ELSE "DefinitelyWhite"]
    /\ iteration' = 1 /\ scanned' = FALSE /\ garbage' = {}
    /\ UNCHANGED <<roots, marked, stacks, mutator, visitor>>

----------------------------------------------------------------------------

Mutates ==
    \/ \E c \in Cells : allocate(c) \/ forget(c)
    \/ \E c \in Cells, f \in Fields : load(c, f)
    \/ \E c \in Cells, f \in Fields, to \in Cells \cup {NoCell} : store(c, f, to)
    \/ writeBarrierSlowPath \/ barrierIsMarked \/ barrierWhiten \/ barrierRecheck \/ barrierRemember

Visits(v) ==
    \/ \E c \in Cells : visitChildren(v, c)
    \/ \E f \in Fields : append(v, f)
    \/ testAndSetMarked(v) \/ appendToMarkStack(v) \/ didRace(v)

Next ==
    \/ Mutates
    \/ \E v \in Visitors : Visits(v)
    \/ \E s \in {"Eden", "Full"} : runBeginPhase(s)
    \/ runFixpointPhase \/ resume \/ runReloopPhase \/ runEndPhase

Spec == Init /\ [][Next]_vars

----------------------------------------------------------------------------

\* No cell the program can reach is ever swept, whatever the mutator stored
\* while the visitors were scanning and whatever kind of collection ran.
NoLiveCellIsFreed == Reachable \subseteq allocated

\* Between collections, an old cell (one with a mark) either makes the next
\* store into it run the barrier, or is in the remembered set already; and
\* what the remembered set leaves out points to old cells only.
RememberedSetIsComplete ==
    phase = "NotRunning" /\ mutator = Running =>
        \A c \in allocated \cap marked : c \notin mutatorMarkStack =>
            /\ cellState[c] = "PossiblyBlack"
            /\ \A f \in Fields : field[c][f] \in marked \cup {NoCell}

\* The assertions of addToRememberedSet() (a cell that is not marked meets the
\* barrier only in a full collection), of visitChildren() and of endMarking().
AssertsHold ==
    /\ mutator.at \in {"cas", "recheck"} => scope = "Full"
    /\ mutator.at = "remember" => mutator.cell \in marked
    /\ \A v \in Visitors : visitor[v].cell \in marked \cup {NoCell}
    /\ phase \in {"NotRunning", "End"} => didReachTermination /\ raceMarkStack = {}

\* A full collection frees every cell that was unreachable when it began: no
\* remembered cell of an earlier cycle keeps it alive.
FullCollectionIsComplete ==
    [][runEndPhase /\ scope = "Full" => garbage \cap allocated' = {}]_vars

=============================================================================

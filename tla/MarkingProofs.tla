--------------------------- MODULE MarkingProofs ---------------------------
(***************************************************************************)
(* Safety of Marking, for every set of cells, slots and visitors: what the *)
(* program can reach is not swept, the remembered set is complete between  *)
(* collections, the code's assertions hold, and a full collection frees    *)
(* all that was garbage when it began.                                     *)
(*                                                                         *)
(* The heart of the argument is the wavefront: a grey cell is pending      *)
(* (GreyIsPending), and a pointer from a black cell to a white one is in   *)
(* a visitor's hands or its store has yet to run the barrier               *)
(* (WhiteIsExpected).                                                      *)
(***************************************************************************)
EXTENDS Integers, Marking, MCBlock, FiniteSetTheorems, TLAPS

-----------------------------------------------------------------------------
(* The inductive invariant *)

\* Some stack holds the cell, or a visitor is about to push it.
Pending(c) ==
    \/ c \in markStack \/ c \in mutatorMarkStack \/ c \in raceMarkStack
    \/ \E v \in Visitors : visitor[v].at = "grey" /\ visitor[v].child = c

\* Pointers lead to allocated cells, and a cell that is not allocated is empty.
Heap ==
    /\ roots \subseteq allocated /\ marked \subseteq allocated
    /\ \A c \in Cells, f \in Fields : field[c][f] \in allocated \cup {NoCell}
    /\ \A c \in Cells, f \in Fields : c \notin allocated => field[c][f] = NoCell

\* What a visitor holds: it scans a marked cell, and the child it is about to
\* mark or to push is allocated.
Scanning(v) ==
    /\ visitor[v].cell \in marked \cup {NoCell}
    /\ visitor[v].cell = NoCell => IsResting(v)
    /\ visitor[v].child \in allocated \cup {NoCell}
    /\ visitor[v].at \in {"mark", "grey"} => visitor[v].child # NoCell
    /\ visitor[v].at = "grey" => visitor[v].child \in marked

Scans == \A v \in Visitors : Scanning(v)

\* The world stops between two operations of the mutator, and what the barrier
\* has learned about its cell stays true.
Barrier ==
    /\ phase \in {"Fixpoint", "End"} => mutator = Running
    /\ mutator.at = "run" => mutator = Running
    /\ mutator.at # "run" => mutator.cell \in Cells
    /\ mutator.at = "isMarked" => scope # "None" /\ (scope = "Eden" => mutator.cell \in marked)
    /\ mutator.at \in {"cas", "recheck"} => scope = "Full"
    /\ mutator.at = "remember" => mutator.cell \in marked

\* Where the collection is: nothing is left to visit when it ends, and a
\* conservative scan of this stop has marked the roots.
Phases ==
    /\ scope = "None" <=> phase = "NotRunning"
    /\ phase \in {"NotRunning", "End"} =>
           markStack = {} /\ raceMarkStack = {} /\ \A v \in Visitors : IsResting(v)
    /\ phase = "End" => mutatorMarkStack = {} /\ roots \subseteq marked
    /\ scanned => phase \in {"Fixpoint", "End"} /\ roots \subseteq marked

\* Only marked cells are on the stacks, and outside a full collection only
\* marked cells are black.
Marks ==
    /\ markStack \subseteq marked /\ mutatorMarkStack \subseteq marked /\ raceMarkStack \subseteq marked
    /\ scope # "Full" => \A c \in Cells : cellState[c] = "PossiblyBlack" => c \in marked

\* A marked cell that is not black will be visited.
GreyIsPending ==
    \A c \in marked : cellState[c] # "PossiblyBlack" =>
        Pending(c) \/ (mutator.at = "recheck" /\ mutator.cell = c)

\* The slot f of the marked cell c will still be looked at.
Expected(c, f) ==
    \/ Pending(c)
    \/ \E v \in Visitors :
        \/ visitor[v].cell = c /\ f \in visitor[v].todo
        \/ visitor[v].at = "mark" /\ visitor[v].child = field[c][f]
    \/ mutator.at \in {"check", "isMarked", "remember"} /\ mutator.cell = c

\* The tricolor invariant.
WhiteIsExpected ==
    \A c \in marked, f \in Fields : field[c][f] \in marked \cup {NoCell} \/ Expected(c, f)

\* Nothing leads into the garbage of a full collection.
Garbage ==
    /\ garbage \subseteq allocated
    /\ garbage \cap marked = {} /\ garbage \cap roots = {}
    /\ \A c \in Cells, f \in Fields : field[c][f] \in garbage => c \in garbage
    /\ \A v \in Visitors : visitor[v].child \notin garbage

Inv == TypeOK /\ Heap /\ Scans /\ Barrier /\ Phases /\ Marks
         /\ GreyIsPending /\ WhiteIsExpected /\ Garbage

-----------------------------------------------------------------------------
(* What the program can reach *)

(* Reachable holds the roots and is closed under the slots of its cells. *)
LEMMA ReachableIsClosed ==
    ASSUME TypeOK
    PROVE  /\ roots \subseteq Reachable
           /\ \A c \in Reachable, f \in Fields : field[c][f] \in Reachable \cup {NoCell}
<1>1. roots \subseteq Reachable
  BY Zenon DEF TypeOK, Reachable
<1>2. ASSUME NEW c \in Reachable, NEW f \in Fields, field[c][f] # NoCell
      PROVE  field[c][f] \in Reachable
  <2>1. c \in Cells /\ field[c][f] \in Cells
    BY <1>2 DEF TypeOK, Reachable
  <2>2. ASSUME NEW S \in SUBSET Cells, roots \subseteq S,
               \A d \in S, g \in Fields : field[d][g] \in S \cup {NoCell}
        PROVE  field[c][f] \in S
    <3>1. c \in S
      BY <2>2, Zenon DEF Reachable
    <3>q. QED
      BY <1>2, <2>2, <3>1, Zenon
  <2>q. QED
    BY <2>1, <2>2, Zenon DEF Reachable
<1>q. QED
  BY <1>1, <1>2, Zenon

(* When pointers lead to allocated cells only, no reachable cell is free. *)
LEMMA ReachableIsAllocated ==
    ASSUME TypeOK, Heap
    PROVE  NoLiveCellIsFreed
<1>1. ASSUME NEW c \in Reachable
      PROVE  c \in allocated
  BY Zenon DEF Reachable, Heap, TypeOK
<1>q. QED
  BY <1>1, Zenon DEF NoLiveCellIsFreed
-----------------------------------------------------------------------------
(* What the steps of a visitor leave as it is *)

(* A visitor that takes no step still holds what it held: a step of another *)
(* one only adds marks.                                                     *)
LEMMA OthersScan ==
    ASSUME NEW u \in Visitors, Scanning(u), visitor'[u] = visitor[u],
           marked \subseteq marked', allocated \subseteq allocated'
    PROVE  Scanning(u)'
  BY DEF Scanning, IsResting

(* A visitor that is in the middle of a scan shows that the collection is   *)
(* neither over nor at its end, so its step keeps what Phases says of them. *)
LEMMA VisitingKeepsPhases ==
    ASSUME Phases, NEW v \in Visitors, ~IsResting(v), marked \subseteq marked',
           UNCHANGED <<scope, phase, scanned, roots>>
    PROVE  Phases'
<1>1. phase \notin {"NotRunning", "End"}
  BY Zenon DEF Phases
<1>2. phase' \notin {"NotRunning", "End"} /\ (scope' = "None" <=> phase' = "NotRunning")
  BY <1>1, Zenon DEF Phases
<1>3. scanned' => phase' \in {"Fixpoint", "End"} /\ roots' \subseteq marked'
  BY Zenon DEF Phases
<1>q. QED
  BY <1>2, <1>3, Zenon DEF Phases

(* When every visitor rests, none of them holds a cell.                     *)
LEMMA RestingScans ==
    ASSUME \A v \in Visitors : visitor'[v] = Resting
    PROVE  Scans'
  BY DEF Scans, Scanning, IsResting, Resting

-----------------------------------------------------------------------------
(* Every action preserves the invariant *)


(* allocate() preserves the invariant. *)
LEMMA AllocateStep ==
    ASSUME Inv, NEW c \in Cells, allocate(c)
    PROVE  Inv'
<1> USE MarkingAssumption DEF heapVars, stacks, phaseVars
<1>1. TypeOK'
  BY Zenon DEF Inv, TypeOK, allocate
<1>2. Heap'
  BY Zenon DEF Inv, Heap, allocate
<1>3. Scans'
  BY Zenon DEF Inv, Scans, Scanning, IsResting, allocate
<1>4. Barrier'
  BY Zenon DEF Barrier, Running, allocate, MutatorRuns
<1>5. Phases'
  BY Zenon DEF Inv, Phases, IsResting, allocate, MutatorRuns
<1>6. Marks'
  BY Zenon DEF Inv, Marks, allocate
<1>7. GreyIsPending'
  BY Zenon DEF Inv, GreyIsPending, Pending, allocate
<1>8. WhiteIsExpected'
  BY DEF Inv, WhiteIsExpected, Expected, Pending, allocate
<1>9. Garbage'
  BY DEF Inv, Garbage, allocate
<1>q. QED
  BY <1>1, <1>2, <1>3, <1>4, <1>5, <1>6, <1>7, <1>8, <1>9, Zenon DEF Inv

(* A load into a register preserves the invariant. *)
LEMMA LoadStep ==
    ASSUME Inv, NEW c \in Cells, NEW f \in Fields, load(c, f)
    PROVE  Inv'
<1> USE MarkingAssumption DEF heapVars, stacks, phaseVars
<1>1. TypeOK'
  BY DEF Inv, TypeOK, load
<1>2. Heap'
  BY Zenon DEF Inv, Heap, load
<1>3. Scans'
  BY Zenon DEF Inv, Scans, Scanning, IsResting, load
<1>4. Barrier'
  BY Zenon DEF Barrier, Running, load, MutatorRuns
<1>5. Phases'
  BY Zenon DEF Inv, Phases, IsResting, load, MutatorRuns
<1>6. Marks'
  BY Zenon DEF Inv, Marks, load
<1>7. GreyIsPending'
  BY Zenon DEF Inv, GreyIsPending, Pending, load
<1>8. WhiteIsExpected'
  BY DEF Inv, WhiteIsExpected, Expected, Pending, load
<1>9. Garbage'
  BY DEF Inv, Garbage, load
<1>q. QED
  BY <1>1, <1>2, <1>3, <1>4, <1>5, <1>6, <1>7, <1>8, <1>9, Zenon DEF Inv

(* A register that is overwritten preserves the invariant. *)
LEMMA ForgetStep ==
    ASSUME Inv, NEW c \in Cells, forget(c)
    PROVE  Inv'
<1> USE MarkingAssumption DEF heapVars, stacks, phaseVars
<1>1. TypeOK'
  BY Zenon DEF Inv, TypeOK, forget
<1>2. Heap'
  BY Zenon DEF Inv, Heap, forget
<1>3. Scans'
  BY Zenon DEF Inv, Scans, Scanning, IsResting, forget
<1>4. Barrier'
  BY Zenon DEF Barrier, Running, forget, MutatorRuns
<1>5. Phases'
  BY Zenon DEF Inv, Phases, IsResting, forget
<1>6. Marks'
  BY Zenon DEF Inv, Marks, forget
<1>7. GreyIsPending'
  BY Zenon DEF Inv, GreyIsPending, Pending, forget
<1>8. WhiteIsExpected'
  BY DEF Inv, WhiteIsExpected, Expected, Pending, forget
<1>9. Garbage'
  BY Zenon DEF Inv, Garbage, forget
<1>q. QED
  BY <1>1, <1>2, <1>3, <1>4, <1>5, <1>6, <1>7, <1>8, <1>9, Zenon DEF Inv

(* WriteBarrier::set() preserves the invariant. *)
LEMMA StoreStep ==
    ASSUME Inv, NEW c \in Cells, NEW f \in Fields, NEW to \in Cells \cup {NoCell}, store(c, f, to)
    PROVE  Inv'
<1> USE MarkingAssumption DEF heapVars, stacks, phaseVars
<1>1. TypeOK'
  BY Zenon DEF Inv, TypeOK, store, MutatorRuns
<1>2. Heap'
  BY DEF Inv, Heap, store
<1>3. Scans'
  BY Zenon DEF Inv, Scans, Scanning, IsResting, store
<1>4. Barrier'
  BY Zenon DEF Barrier, Running, store, MutatorRuns
<1>5. Phases'
  BY Zenon DEF Inv, Phases, IsResting, store
<1>6. Marks'
  BY Zenon DEF Inv, Marks, store
<1>7. GreyIsPending'
  BY Zenon DEF Inv, GreyIsPending, Pending, Running, store, MutatorRuns
<1>8. WhiteIsExpected'
  BY DEF Inv, WhiteIsExpected, Expected, Pending, Running, store, MutatorRuns
<1>9. Garbage'
  BY DEF Inv, TypeOK, Garbage, store
<1>q. QED
  BY <1>1, <1>2, <1>3, <1>4, <1>5, <1>6, <1>7, <1>8, <1>9, Zenon DEF Inv

(* writeBarrierSlowPath() preserves the invariant. *)
LEMMA SlowPathStep ==
    ASSUME Inv, writeBarrierSlowPath
    PROVE  Inv'
<1> USE MarkingAssumption DEF heapVars, stacks, phaseVars
<1>1. TypeOK'
  BY Zenon DEF Inv, TypeOK, Running, writeBarrierSlowPath
<1>2. Heap'
  BY Zenon DEF Inv, Heap, writeBarrierSlowPath
<1>3. Scans'
  BY Zenon DEF Inv, Scans, Scanning, IsResting, writeBarrierSlowPath
<1>4. Barrier'
  BY DEF Inv, Barrier, Marks, Running, writeBarrierSlowPath, mutatorShouldBeFenced
<1>5. Phases'
  BY Zenon DEF Inv, Phases, IsResting, writeBarrierSlowPath
<1>6. Marks'
  BY Zenon DEF Inv, Marks, writeBarrierSlowPath
<1>7. GreyIsPending'
  BY Zenon DEF Inv, GreyIsPending, Pending, writeBarrierSlowPath
<1>8. WhiteIsExpected'
  BY DEF Inv, WhiteIsExpected, Expected, Pending, GreyIsPending, writeBarrierSlowPath
<1>9. Garbage'
  BY Zenon DEF Inv, Garbage, writeBarrierSlowPath
<1>q. QED
  BY <1>1, <1>2, <1>3, <1>4, <1>5, <1>6, <1>7, <1>8, <1>9, Zenon DEF Inv

(* addToRememberedSet() looks at the mark bit preserves the invariant. *)
LEMMA IsMarkedStep ==
    ASSUME Inv, barrierIsMarked
    PROVE  Inv'
<1> USE MarkingAssumption DEF heapVars, stacks, phaseVars
<1>1. TypeOK'
  BY Zenon DEF Inv, TypeOK, barrierIsMarked
<1>2. Heap'
  BY Zenon DEF Inv, TypeOK, Heap, barrierIsMarked
<1>3. Scans'
  BY Zenon DEF Inv, Scans, Scanning, IsResting, barrierIsMarked
<1>4. Barrier'
  BY DEF Inv, TypeOK, Barrier, Running, barrierIsMarked
<1>5. Phases'
  BY Zenon DEF Inv, Phases, IsResting, barrierIsMarked
<1>6. Marks'
  BY Zenon DEF Inv, Marks, barrierIsMarked
<1>7. GreyIsPending'
  BY Zenon DEF Inv, GreyIsPending, Pending, barrierIsMarked
<1>8. WhiteIsExpected'
  BY DEF Inv, WhiteIsExpected, Expected, Pending, barrierIsMarked
<1>9. Garbage'
  BY Zenon DEF Inv, Garbage, barrierIsMarked
<1>q. QED
  BY <1>1, <1>2, <1>3, <1>4, <1>5, <1>6, <1>7, <1>8, <1>9, Zenon DEF Inv

(* addToRememberedSet() turns an unmarked cell white preserves the invariant. *)
LEMMA WhitenStep ==
    ASSUME Inv, barrierWhiten
    PROVE  Inv'
<1> USE MarkingAssumption DEF heapVars, stacks, phaseVars
<1>a. mutator.cell \in Cells
  BY Zenon DEF barrierWhiten, Inv, Barrier
<1>b. mutator' \in {Running, [at |-> "recheck", cell |-> mutator.cell]}
  BY Zenon DEF barrierWhiten, Inv, TypeOK
<1>1. TypeOK'
  BY DEF Inv, TypeOK, States, Running, barrierWhiten
<1>2. Heap'
  BY Zenon DEF Inv, Heap, barrierWhiten
<1>3. Scans'
  BY Zenon DEF Inv, Scans, Scanning, IsResting, barrierWhiten
<1>4. Barrier'
  BY <1>b DEF Inv, Barrier, Running, barrierWhiten
<1>5. Phases'
  BY Zenon DEF Inv, Phases, IsResting, barrierWhiten
<1>6. Marks'
  BY Zenon DEF Inv, Marks, Barrier, barrierWhiten
<1>7. GreyIsPending'
  BY DEF Inv, TypeOK, GreyIsPending, Pending, barrierWhiten
<1>8. WhiteIsExpected'
  BY DEF Inv, WhiteIsExpected, Expected, Pending, barrierWhiten
<1>9. Garbage'
  BY Zenon DEF Inv, Garbage, barrierWhiten
<1>q. QED
  BY <1>1, <1>2, <1>3, <1>4, <1>5, <1>6, <1>7, <1>8, <1>9, Zenon DEF Inv

(* addToRememberedSet() looks at the mark bit again preserves the invariant. *)
LEMMA RecheckStep ==
    ASSUME Inv, barrierRecheck
    PROVE  Inv'
<1> USE MarkingAssumption DEF heapVars, stacks, phaseVars
<1>1. TypeOK'
  BY Zenon DEF Inv, TypeOK, States, Running, barrierRecheck
<1>2. Heap'
  BY Zenon DEF Inv, TypeOK, Heap, barrierRecheck
<1>3. Scans'
  BY Zenon DEF Inv, Scans, Scanning, IsResting, barrierRecheck
<1>4. Barrier'
  BY Zenon DEF Barrier, Running, barrierRecheck
<1>5. Phases'
  BY Zenon DEF Inv, Phases, IsResting, barrierRecheck
<1>6. Marks'
  BY DEF Inv, Marks, barrierRecheck
<1>7. GreyIsPending'
  BY DEF Inv, TypeOK, GreyIsPending, Pending, barrierRecheck
<1>8. WhiteIsExpected'
  BY DEF Inv, WhiteIsExpected, Expected, Pending, barrierRecheck
<1>9. Garbage'
  BY Zenon DEF Inv, Garbage, barrierRecheck
<1>q. QED
  BY <1>1, <1>2, <1>3, <1>4, <1>5, <1>6, <1>7, <1>8, <1>9, Zenon DEF Inv

(* addToRememberedSet() appends the cell preserves the invariant. *)
LEMMA RememberStep ==
    ASSUME Inv, barrierRemember
    PROVE  Inv'
<1> USE MarkingAssumption DEF heapVars, stacks, phaseVars
<1>a. phase \notin {"Fixpoint", "End"}
  BY DEF barrierRemember, Inv, Barrier, Running
<1>1. TypeOK'
  BY Zenon DEF Inv, TypeOK, Barrier, States, Running, barrierRemember
<1>2. Heap'
  BY Zenon DEF Inv, Heap, barrierRemember
<1>3. Scans'
  BY Zenon DEF Inv, Scans, Scanning, IsResting, barrierRemember
<1>4. Barrier'
  BY Zenon DEF Barrier, Running, barrierRemember
<1>5. Phases'
  BY <1>a, Zenon DEF Inv, Phases, IsResting, barrierRemember
<1>6. Marks'
  BY DEF Inv, Marks, Barrier, barrierRemember
<1>7. GreyIsPending'
  BY DEF Inv, GreyIsPending, Pending, barrierRemember
<1>8. WhiteIsExpected'
  BY DEF Inv, WhiteIsExpected, Expected, Pending, barrierRemember
<1>9. Garbage'
  BY Zenon DEF Inv, Garbage, barrierRemember
<1>q. QED
  BY <1>1, <1>2, <1>3, <1>4, <1>5, <1>6, <1>7, <1>8, <1>9, Zenon DEF Inv

(* visitChildren() preserves the invariant. *)
LEMMA VisitChildrenStep ==
    ASSUME Inv, NEW v \in Visitors, NEW c \in Cells, visitChildren(v, c)
    PROVE  Inv'
<1> USE MarkingAssumption DEF heapVars, stacks, phaseVars
<1>v. visitor[v] \in [at: {"scan", "mark", "grey"}, cell: Cells \cup {NoCell},
                       todo: SUBSET Fields, child: Cells \cup {NoCell}]
  BY Zenon DEF Inv, TypeOK
<1>u. \A u \in Visitors : u # v => visitor'[u] = visitor[u]
  BY Zenon DEF visitChildren, Inv, TypeOK
<1>w. visitor[v] = Resting
      /\ visitor'[v] = [at |-> "scan", cell |-> c, todo |-> Fields, child |-> NoCell]
  BY Zenon DEF visitChildren, IsResting, Inv, TypeOK
<1>p. \A d \in Cells : d # c /\ Pending(d) => Pending(d)'
  BY <1>w DEF Pending, visitChildren, Resting
<1>1. TypeOK'
  BY Zenon DEF Inv, TypeOK, States, visitChildren
<1>2. Heap'
  BY Zenon DEF Inv, Heap, visitChildren
<1>3. Scans'
  <2>1. Scanning(v)'
    BY <1>w DEF Scanning, Inv, Marks, visitChildren
  <2>2. ASSUME NEW u \in Visitors, u # v
        PROVE  Scanning(u)'
    <3>1. Scanning(u)
      BY Zenon DEF Inv, Scans
    <3>2. allocated' = allocated /\ marked \subseteq marked'
      BY Zenon DEF visitChildren
    <3>q. QED
      BY <3>1, <3>2, <2>2, <1>u, OthersScan, Zenon
  <2>q. QED
    BY <2>1, <2>2, Zenon DEF Scans
<1>4. Barrier'
  BY Zenon DEF Inv, Barrier, visitChildren
<1>5. Phases'
  BY Zenon DEF Inv, Phases, visitChildren
<1>6. Marks'
  BY DEF Inv, Marks, visitChildren
<1>7. GreyIsPending'
  BY <1>p, Zenon DEF Inv, TypeOK, GreyIsPending, visitChildren
<1>8. WhiteIsExpected'
  <2> SUFFICES ASSUME NEW d \in marked', NEW g \in Fields, field'[d][g] \notin marked' \cup {NoCell}
               PROVE  Expected(d, g)'
    BY Zenon DEF WhiteIsExpected
  <2>0. d \in Cells /\ field' = field
    BY <1>1, Zenon DEF TypeOK, visitChildren
  <2>1. Expected(d, g)
    BY Zenon DEF Inv, WhiteIsExpected, visitChildren
  <2>2. CASE Pending(d) /\ d # c
    BY <2>2, <2>0, <1>p, Zenon DEF Expected
  <2>3. CASE d = c
    BY <2>3, <1>w DEF Expected
  <2>4. ASSUME NEW u \in Visitors,
               (visitor[u].cell = d /\ g \in visitor[u].todo)
                 \/ (visitor[u].at = "mark" /\ visitor[u].child = field[d][g])
        PROVE  Expected(d, g)'
    <3>1. u # v
      BY <2>4, <1>w DEF Resting
    <3>q. QED
      BY <2>4, <3>1, <2>0, <1>u, Zenon DEF Expected
  <2>5. mutator' = mutator
    BY Zenon DEF visitChildren
  <2>q. QED
    BY <2>1, <2>2, <2>3, <2>4, <2>5, Zenon DEF Expected
<1>9. Garbage'
  <2>1. visitor'[v].child \notin garbage
    BY <1>w DEF Inv, TypeOK
  <2>2. \A u \in Visitors : visitor'[u].child \notin garbage
    BY <2>1, <1>u, Zenon DEF Inv, Garbage
  <2>q. QED
    BY <2>2 DEF Inv, Garbage, visitChildren
<1>q. QED
  BY <1>1, <1>2, <1>3, <1>4, <1>5, <1>6, <1>7, <1>8, <1>9, Zenon DEF Inv

(* append() of a slot preserves the invariant. *)
LEMMA AppendStep ==
    ASSUME Inv, NEW v \in Visitors, NEW f \in Fields, append(v, f)
    PROVE  Inv'
<1> USE MarkingAssumption DEF heapVars, stacks, phaseVars
<1>v. visitor[v] \in [at: {"scan", "mark", "grey"}, cell: Cells \cup {NoCell},
                       todo: SUBSET Fields, child: Cells \cup {NoCell}]
  BY Zenon DEF Inv, TypeOK
<1>u. \A u \in Visitors : u # v => visitor'[u] = visitor[u]
  BY Zenon DEF append, Inv, TypeOK
<1>n. /\ visitor[v].at = "scan" /\ f \in visitor[v].todo
      /\ UNCHANGED <<field, roots, allocated, marked, garbage, mutator>>
  BY Zenon DEF append
<1>c. visitor[v].cell \in marked /\ field[visitor[v].cell][f] \in allocated \cup {NoCell}
  BY <1>v DEF append, Inv, Scans, Scanning, Heap, IsResting, Resting
<1>w. IF field[visitor[v].cell][f] = NoCell
      THEN visitor'[v] = IF visitor[v].todo \ {f} = {} THEN Resting
                         ELSE [at |-> "scan", cell |-> visitor[v].cell,
                               todo |-> visitor[v].todo \ {f}, child |-> NoCell]
      ELSE visitor'[v] = [at |-> "mark", cell |-> visitor[v].cell, todo |-> visitor[v].todo \ {f},
                          child |-> field[visitor[v].cell][f]]
  <2>1. CASE field[visitor[v].cell][f] = NoCell
    <3>1. visitor'[v] = Scan(v, visitor[v].todo \ {f})
      BY <2>1, Zenon DEF append, Inv, TypeOK
    <3>q. QED
      BY <2>1, <3>1, Zenon DEF Scan
  <2>2. CASE field[visitor[v].cell][f] # NoCell
    BY <2>2, Zenon DEF append, Inv, TypeOK
  <2>q. QED
    BY <2>1, <2>2, Zenon
<1>p. \A d \in Cells : Pending(d) => Pending(d)'
  BY DEF Pending, append
<1>1. TypeOK'
  BY <1>c, Zenon DEF Inv, TypeOK, Resting, append, Scan
<1>2. Heap'
  BY <1>n, Zenon DEF Inv, Heap
<1>3. Scans'
  <2>1. Scanning(v)'
    <3>1. CASE field[visitor[v].cell][f] = NoCell /\ visitor[v].todo \ {f} = {}
      <4>1. visitor'[v] = Resting
        BY <3>1, <1>w, Zenon
      <4>q. QED
        BY <4>1 DEF Scanning, IsResting, Resting
    <3>2. CASE field[visitor[v].cell][f] = NoCell /\ visitor[v].todo \ {f} # {}
      BY <3>2, <1>c, <1>n, <1>w DEF Scanning, Inv, TypeOK
    <3>3. CASE field[visitor[v].cell][f] # NoCell
      BY <3>3, <1>c, <1>n, <1>w DEF Scanning, Inv, TypeOK
    <3>q. QED
      BY <3>1, <3>2, <3>3, Zenon
  <2>2. ASSUME NEW u \in Visitors, u # v
        PROVE  Scanning(u)'
    <3>1. Scanning(u)
      BY Zenon DEF Inv, Scans
    <3>2. allocated' = allocated /\ marked \subseteq marked'
      BY Zenon DEF append
    <3>q. QED
      BY <3>1, <3>2, <2>2, <1>u, OthersScan, Zenon
  <2>q. QED
    BY <2>1, <2>2, Zenon DEF Scans
<1>4. Barrier'
  BY Zenon DEF Inv, Barrier, append
<1>5. Phases'
  <2>1. ~IsResting(v)
    BY <1>n DEF IsResting, Resting
  <2>2. Phases /\ marked \subseteq marked' /\ UNCHANGED <<scope, phase, scanned, roots>>
    BY Zenon DEF Inv, append
  <2>q. QED
    BY <2>1, <2>2, VisitingKeepsPhases, Zenon
<1>6. Marks'
  BY Zenon DEF Inv, Marks, append
<1>7. GreyIsPending'
  BY DEF Inv, GreyIsPending, Pending, append
<1>8. WhiteIsExpected'
  <2> SUFFICES ASSUME NEW d \in marked', NEW g \in Fields, field'[d][g] \notin marked' \cup {NoCell}
               PROVE  Expected(d, g)'
    BY Zenon DEF WhiteIsExpected
  <2>0. d \in Cells /\ d \in marked /\ field[d][g] \notin marked \cup {NoCell}
    BY <1>n, Zenon DEF Inv, TypeOK
  <2>1. Expected(d, g)
    BY <2>0, Zenon DEF Inv, WhiteIsExpected
  <2>2. CASE visitor[v].cell = d /\ g = f
    BY <2>2, <1>w, <1>n DEF Expected
  <2>3. CASE visitor[v].cell = d /\ g \in visitor[v].todo \ {f}
    BY <2>3, <1>w DEF Expected
  <2>4. ASSUME ~(visitor[v].cell = d /\ g \in visitor[v].todo)
        PROVE  Expected(d, g)'
    BY <2>0, <2>1, <2>4, <1>n, <1>u, <1>p, Zenon DEF Expected
  <2>q. QED
    BY <2>2, <2>3, <2>4, Zenon
<1>9. Garbage'
  <2>1. visitor'[v].child \notin garbage
    BY <1>c, <1>w DEF Inv, TypeOK, Garbage, Resting
  <2>2. \A u \in Visitors : visitor'[u].child \notin garbage
    BY <2>1, <1>u, Zenon DEF Inv, Garbage
  <2>q. QED
    BY <2>2, <1>n, Zenon DEF Inv, Garbage
<1>q. QED
  BY <1>1, <1>2, <1>3, <1>4, <1>5, <1>6, <1>7, <1>8, <1>9, Zenon DEF Inv

(* testAndSetMarked() preserves the invariant. *)
LEMMA TestAndSetStep ==
    ASSUME Inv, NEW v \in Visitors, testAndSetMarked(v)
    PROVE  Inv'
<1> USE MarkingAssumption DEF heapVars, stacks, phaseVars
<1>v. visitor[v] \in [at: {"scan", "mark", "grey"}, cell: Cells \cup {NoCell},
                       todo: SUBSET Fields, child: Cells \cup {NoCell}]
  BY Zenon DEF Inv, TypeOK
<1>u. \A u \in Visitors : u # v => visitor'[u] = visitor[u]
  BY Zenon DEF testAndSetMarked, Inv, TypeOK
<1>c. visitor[v].child \in allocated
  BY Zenon DEF testAndSetMarked, Inv, Scans, Scanning
<1>w. IF visitor[v].child \in marked
      THEN visitor'[v] = IF visitor[v].todo = {} THEN Resting
                         ELSE [at |-> "scan", cell |-> visitor[v].cell,
                               todo |-> visitor[v].todo, child |-> NoCell]
      ELSE visitor'[v] = [at |-> "grey", cell |-> visitor[v].cell, todo |-> visitor[v].todo,
                          child |-> visitor[v].child]
  <2>1. CASE visitor[v].child \in marked
    <3>1. visitor'[v] = Scan(v, visitor[v].todo)
      BY <2>1, Zenon DEF testAndSetMarked, Inv, TypeOK
    <3>q. QED
      BY <2>1, <3>1, Zenon DEF Scan
  <2>2. CASE visitor[v].child \notin marked
    BY <2>2 DEF testAndSetMarked, Inv, TypeOK
  <2>q. QED
    BY <2>1, <2>2, Zenon
<1>p. \A d \in Cells : Pending(d) => Pending(d)'
  BY DEF Pending, testAndSetMarked
<1>1. TypeOK'
  BY <1>c, <1>w DEF Inv, TypeOK, Resting, testAndSetMarked
<1>2. Heap'
  BY <1>c, Zenon DEF Inv, Heap, testAndSetMarked
<1>3. Scans'
  <2>1. Scanning(v)'
    BY <1>w DEF Scanning, Inv, Scans, IsResting, Resting, testAndSetMarked
  <2>2. ASSUME NEW u \in Visitors, u # v
        PROVE  Scanning(u)'
    <3>1. Scanning(u)
      BY Zenon DEF Inv, Scans
    <3>2. allocated' = allocated /\ marked \subseteq marked'
      BY Zenon DEF testAndSetMarked
    <3>q. QED
      BY <3>1, <3>2, <2>2, <1>u, OthersScan, Zenon
  <2>q. QED
    BY <2>1, <2>2, Zenon DEF Scans
<1>4. Barrier'
  BY Zenon DEF Inv, Barrier, testAndSetMarked
<1>5. Phases'
  <2>1. ~IsResting(v)
    BY DEF testAndSetMarked, IsResting, Resting
  <2>2. Phases /\ marked \subseteq marked' /\ UNCHANGED <<scope, phase, scanned, roots>>
    BY Zenon DEF Inv, testAndSetMarked
  <2>q. QED
    BY <2>1, <2>2, VisitingKeepsPhases, Zenon
<1>6. Marks'
  BY Zenon DEF Inv, Marks, testAndSetMarked
<1>7. GreyIsPending'
  BY <1>w DEF Inv, GreyIsPending, Pending, testAndSetMarked
<1>8. WhiteIsExpected'
  <2> SUFFICES ASSUME NEW d \in marked', NEW g \in Fields, field'[d][g] \notin marked' \cup {NoCell}
               PROVE  Expected(d, g)'
    BY Zenon DEF WhiteIsExpected
  <2>0. d \in Cells /\ field' = field
    BY <1>1, Zenon DEF TypeOK, testAndSetMarked
  <2>1. CASE d \in marked
    <3>1. Expected(d, g)
      BY <2>1, Zenon DEF Inv, WhiteIsExpected, testAndSetMarked
    <3>q. QED
      BY <1>w, <1>p, <2>0, <3>1 DEF Expected, testAndSetMarked
  <2>2. CASE d \notin marked
    BY <1>w, <2>2 DEF Expected, Pending, testAndSetMarked
  <2>q. QED
    BY <2>1, <2>2, Zenon
<1>9. Garbage'
  <2>1. visitor'[v].child \notin garbage
    BY <1>w DEF Inv, TypeOK, Garbage, Resting
  <2>2. \A u \in Visitors : visitor'[u].child \notin garbage
    BY <2>1, <1>u, Zenon DEF Inv, Garbage
  <2>q. QED
    BY <2>2 DEF Inv, Garbage, testAndSetMarked
<1>q. QED
  BY <1>1, <1>2, <1>3, <1>4, <1>5, <1>6, <1>7, <1>8, <1>9, Zenon DEF Inv

(* appendToMarkStack() preserves the invariant. *)
LEMMA AppendToStackStep ==
    ASSUME Inv, NEW v \in Visitors, appendToMarkStack(v)
    PROVE  Inv'
<1> USE MarkingAssumption DEF heapVars, stacks, phaseVars
<1>v. visitor[v] \in [at: {"scan", "mark", "grey"}, cell: Cells \cup {NoCell},
                       todo: SUBSET Fields, child: Cells \cup {NoCell}]
  BY Zenon DEF Inv, TypeOK
<1>u. \A u \in Visitors : u # v => visitor'[u] = visitor[u]
  BY Zenon DEF appendToMarkStack, Inv, TypeOK
<1>c. visitor[v].child \in marked
  BY Zenon DEF appendToMarkStack, Inv, Scans, Scanning
<1>w. visitor'[v] = IF visitor[v].todo = {} THEN Resting
                  ELSE [at |-> "scan", cell |-> visitor[v].cell, todo |-> visitor[v].todo, child |-> NoCell]
  <2>1. visitor'[v] = Scan(v, visitor[v].todo)
    BY Zenon DEF appendToMarkStack, Inv, TypeOK
  <2>q. QED
    BY <2>1, Zenon DEF Scan
<1>p. \A d \in Cells : Pending(d) => Pending(d)'
  BY DEF Pending, appendToMarkStack
<1>1. TypeOK'
  BY <1>c, <1>w DEF Inv, TypeOK, States, Resting, appendToMarkStack
<1>2. Heap'
  BY Zenon DEF Inv, Heap, appendToMarkStack
<1>3. Scans'
  <2>1. Scanning(v)'
    BY <1>w DEF Scanning, Inv, Scans, IsResting, Resting, appendToMarkStack
  <2>2. ASSUME NEW u \in Visitors, u # v
        PROVE  Scanning(u)'
    <3>1. Scanning(u)
      BY Zenon DEF Inv, Scans
    <3>2. allocated' = allocated /\ marked \subseteq marked'
      BY Zenon DEF appendToMarkStack
    <3>q. QED
      BY <3>1, <3>2, <2>2, <1>u, OthersScan, Zenon
  <2>q. QED
    BY <2>1, <2>2, Zenon DEF Scans
<1>4. Barrier'
  BY Zenon DEF Inv, Barrier, appendToMarkStack
<1>5. Phases'
  <2>1. ~IsResting(v)
    BY DEF appendToMarkStack, IsResting, Resting
  <2>2. Phases /\ marked \subseteq marked' /\ UNCHANGED <<scope, phase, scanned, roots>>
    BY Zenon DEF Inv, appendToMarkStack
  <2>q. QED
    BY <2>1, <2>2, VisitingKeepsPhases, Zenon
<1>6. Marks'
  BY <1>c DEF Inv, Marks, appendToMarkStack
<1>7. GreyIsPending'
  BY DEF Inv, GreyIsPending, Pending, appendToMarkStack
<1>8. WhiteIsExpected'
  <2> SUFFICES ASSUME NEW d \in marked', NEW g \in Fields, field'[d][g] \notin marked' \cup {NoCell}
               PROVE  Expected(d, g)'
    BY Zenon DEF WhiteIsExpected
  <2>0. d \in Cells /\ field' = field
    BY <1>1, Zenon DEF TypeOK, appendToMarkStack, Pending
  <2>1. Expected(d, g)
    BY <2>0, Zenon DEF Inv, WhiteIsExpected, appendToMarkStack
  <2>q. QED
    BY <1>w, <1>p, <2>0, <2>1 DEF Expected, appendToMarkStack
<1>9. Garbage'
  <2>1. visitor'[v].child \notin garbage
    BY <1>w DEF Inv, TypeOK, Resting
  <2>2. \A u \in Visitors : visitor'[u].child \notin garbage
    BY <2>1, <1>u, Zenon DEF Inv, Garbage
  <2>q. QED
    BY <2>2 DEF Inv, Garbage, appendToMarkStack
<1>q. QED
  BY <1>1, <1>2, <1>3, <1>4, <1>5, <1>6, <1>7, <1>8, <1>9, Zenon DEF Inv

(* didRace() preserves the invariant. *)
LEMMA RaceStep ==
    ASSUME Inv, NEW v \in Visitors, didRace(v)
    PROVE  Inv'
<1> USE MarkingAssumption DEF heapVars, stacks, phaseVars
<1>v. visitor[v] \in [at: {"scan", "mark", "grey"}, cell: Cells \cup {NoCell},
                       todo: SUBSET Fields, child: Cells \cup {NoCell}]
  BY Zenon DEF Inv, TypeOK
<1>u. \A u \in Visitors : u # v => visitor'[u] = visitor[u]
  BY Zenon DEF didRace, Inv, TypeOK
<1>c. visitor[v].cell \in marked
  BY Zenon DEF didRace, Inv, Scans, Scanning
<1>w. visitor'[v] = Resting
  BY Zenon DEF didRace, Inv, TypeOK
<1>p. \A d \in Cells : Pending(d) => Pending(d)'
  BY DEF Pending, didRace
<1>1. TypeOK'
  BY <1>c, Zenon DEF Inv, TypeOK, States, Resting, didRace
<1>2. Heap'
  BY Zenon DEF Inv, Heap, didRace
<1>3. Scans'
  <2>1. Scanning(v)'
    BY <1>w DEF Scanning, IsResting, Resting
  <2>2. ASSUME NEW u \in Visitors, u # v
        PROVE  Scanning(u)'
    <3>1. Scanning(u)
      BY Zenon DEF Inv, Scans
    <3>2. allocated' = allocated /\ marked \subseteq marked'
      BY Zenon DEF didRace
    <3>q. QED
      BY <3>1, <3>2, <2>2, <1>u, OthersScan, Zenon
  <2>q. QED
    BY <2>1, <2>2, Zenon DEF Scans
<1>4. Barrier'
  BY Zenon DEF Inv, Barrier, didRace
<1>5. Phases'
  <2>1. ~IsResting(v)
    BY Zenon DEF didRace
  <2>2. Phases /\ marked \subseteq marked' /\ UNCHANGED <<scope, phase, scanned, roots>>
    BY Zenon DEF Inv, didRace
  <2>q. QED
    BY <2>1, <2>2, VisitingKeepsPhases, Zenon
<1>6. Marks'
  BY <1>c DEF Inv, Marks, didRace
<1>7. GreyIsPending'
  BY DEF Inv, GreyIsPending, Pending, didRace
<1>8. WhiteIsExpected'
  <2> SUFFICES ASSUME NEW d \in marked', NEW g \in Fields, field'[d][g] \notin marked' \cup {NoCell}
               PROVE  Expected(d, g)'
    BY Zenon DEF WhiteIsExpected
  <2>0. d \in Cells /\ field' = field
    BY <1>1, Zenon DEF TypeOK, didRace
  <2>1. Expected(d, g)
    BY <2>0, Zenon DEF Inv, WhiteIsExpected, didRace
  <2>2. d = visitor[v].cell => Pending(d)'
    BY Zenon DEF Pending, didRace
  <2>q. QED
    BY <1>p, <2>0, <2>1, <2>2 DEF Expected, didRace
<1>9. Garbage'
  <2>1. visitor'[v].child \notin garbage
    BY <1>w DEF Inv, TypeOK, Resting
  <2>2. \A u \in Visitors : visitor'[u].child \notin garbage
    BY <2>1, <1>u, Zenon DEF Inv, Garbage
  <2>q. QED
    BY <2>2 DEF Inv, Garbage, didRace
<1>q. QED
  BY <1>1, <1>2, <1>3, <1>4, <1>5, <1>6, <1>7, <1>8, <1>9, Zenon DEF Inv

(* runBeginPhase() preserves the invariant. *)
LEMMA BeginStep ==
    ASSUME Inv, NEW s \in {"Eden", "Full"}, runBeginPhase(s)
    PROVE  Inv'
<1> USE MarkingAssumption DEF heapVars, stacks, phaseVars
<1>r. \A v \in Visitors : visitor[v] = Resting
  BY Zenon DEF runBeginPhase, Inv, Phases, IsResting
<1>m. /\ marked' \subseteq Cells /\ mutatorMarkStack' \subseteq marked' /\ marked' \subseteq marked
      /\ garbage' \subseteq allocated /\ garbage' \subseteq Cells
  BY Zenon DEF runBeginPhase, Inv, TypeOK, Marks
<1>1. TypeOK'
  <2>1. /\ scope' \in {"Eden", "Full"} /\ phase' = "Fixpoint" /\ iteration' = 1 /\ scanned' = FALSE
        /\ UNCHANGED <<field, roots, allocated, cellState, markStack, raceMarkStack, mutator, visitor>>
    BY Zenon DEF runBeginPhase
  <2>2. iteration' \in 1 .. 3
    BY <2>1, SMT
  <2>4. scanned' \in BOOLEAN
    BY <2>1, Zenon
  <2>3. mutatorMarkStack' \subseteq Cells
    BY <1>m, Zenon
  <2>q. QED
    BY <1>m, <2>1, <2>4 DEF Inv, TypeOK
<1>2. Heap'
  BY Zenon DEF Inv, Heap, runBeginPhase
<1>3. Scans'
  BY <1>r, RestingScans, Zenon DEF runBeginPhase
<1>4. Barrier'
  BY Zenon DEF Barrier, Running, runBeginPhase
<1>5. Phases'
  BY Zenon DEF Phases, runBeginPhase
<1>6. Marks'
  BY Zenon DEF Inv, Marks, Phases, runBeginPhase
<1>7. GreyIsPending'
  BY Zenon DEF Inv, GreyIsPending, Pending, runBeginPhase
<1>8. WhiteIsExpected'
  BY DEF Inv, WhiteIsExpected, Expected, Pending, runBeginPhase
<1>9. Garbage'
  <2>1. CASE s = "Eden"
    BY <2>1, <1>r, Zenon DEF runBeginPhase, Garbage
  <2>2. CASE s = "Full"
    <3>1. garbage' = allocated \ Reachable /\ marked' = {}
          /\ UNCHANGED <<field, roots, allocated, visitor>>
      BY <2>2, Zenon DEF runBeginPhase
    <3>2. \A c \in Cells, f \in Fields : field[c][f] \in garbage' => c \in garbage'
      <4> SUFFICES ASSUME NEW c \in Cells, NEW f \in Fields, field[c][f] \in garbage'
                   PROVE  c \in garbage'
        BY Zenon
      <4>1. field[c][f] \in allocated /\ field[c][f] \notin Reachable /\ field[c][f] # NoCell
        BY <3>1, Zenon DEF Inv, TypeOK
      <4>2. c \in allocated
        BY <4>1, Zenon DEF Inv, Heap
      <4>3. c \notin Reachable
        BY <4>1, ReachableIsClosed, Zenon DEF Inv
      <4>q. QED
        BY <3>1, <4>2, <4>3, Zenon
    <3>3. garbage' \cap roots = {}
      BY <3>1, ReachableIsClosed, Zenon DEF Inv
    <3>4. NoCell \notin garbage'
      BY <1>m, Zenon
    <3>q. QED
      <4>a. visitor' = visitor
        BY <3>1, Zenon
      <4>b. \A v \in Visitors : visitor'[v].child = NoCell
        BY <4>a, <1>r DEF Resting
      <4>1. \A v \in Visitors : visitor'[v].child \notin garbage'
        BY <4>b, <3>4, Zenon
      <4>2. garbage' \subseteq allocated' /\ garbage' \cap marked' = {} /\ garbage' \cap roots' = {}
        BY <3>1, <3>3, Zenon
      <4>3. \A c \in Cells, f \in Fields : field'[c][f] \in garbage' => c \in garbage'
        BY <3>1, <3>2, Zenon
      <4>q. QED
        BY <4>1, <4>2, <4>3, Zenon DEF Garbage
  <2>q. QED
    BY <2>1, <2>2, Zenon
<1>q. QED
  BY <1>1, <1>2, <1>3, <1>4, <1>5, <1>6, <1>7, <1>8, <1>9, Zenon DEF Inv

(* runFixpointPhase() preserves the invariant. *)
LEMMA FixpointStep ==
    ASSUME Inv, runFixpointPhase
    PROVE  Inv'
<1> USE MarkingAssumption DEF heapVars, stacks, phaseVars
<1>1. TypeOK'
  BY DEF Inv, TypeOK, States, runFixpointPhase, Execute, NewRoots, Merged
<1>2. Heap'
  BY Zenon DEF Inv, Heap, runFixpointPhase, Execute, NewRoots
<1>3. Scans'
  BY Zenon DEF Inv, Scans, Scanning, IsResting, runFixpointPhase, Execute
<1>4. Barrier'
  BY Zenon DEF Inv, Barrier, runFixpointPhase, Execute
<1>5. Phases'
  BY DEF Inv, TypeOK, Phases, IsResting, runFixpointPhase, Picks, VisitsSomething, Execute,
     NewRoots, didReachTermination
<1>6. Marks'
  BY Zenon DEF Inv, Marks, runFixpointPhase, Execute, Merged
<1>7. GreyIsPending'
  BY DEF Inv, TypeOK, GreyIsPending, Pending, runFixpointPhase, Execute, Merged,
     didReachTermination
<1>8. WhiteIsExpected'
  BY DEF Inv, WhiteIsExpected, Expected, Pending, runFixpointPhase, Execute, Merged,
     didReachTermination
<1>9. Garbage'
  BY Zenon DEF Inv, Garbage, runFixpointPhase, Execute, NewRoots
<1>q. QED
  BY <1>1, <1>2, <1>3, <1>4, <1>5, <1>6, <1>7, <1>8, <1>9, Zenon DEF Inv

(* The mutator is resumed preserves the invariant. *)
LEMMA ResumeStep ==
    ASSUME Inv, resume
    PROVE  Inv'
<1> USE MarkingAssumption DEF heapVars, stacks, phaseVars
<1>1. TypeOK'
  BY Zenon DEF Inv, TypeOK, resume
<1>2. Heap'
  BY Zenon DEF Inv, Heap, resume
<1>3. Scans'
  BY Zenon DEF Inv, Scans, Scanning, IsResting, resume
<1>4. Barrier'
  BY Zenon DEF Inv, Barrier, resume
<1>5. Phases'
  BY Zenon DEF Inv, Phases, resume
<1>6. Marks'
  BY Zenon DEF Inv, Marks, resume
<1>7. GreyIsPending'
  BY Zenon DEF Inv, GreyIsPending, Pending, resume
<1>8. WhiteIsExpected'
  BY DEF Inv, WhiteIsExpected, Expected, Pending, resume
<1>9. Garbage'
  BY Zenon DEF Inv, Garbage, resume
<1>q. QED
  BY <1>1, <1>2, <1>3, <1>4, <1>5, <1>6, <1>7, <1>8, <1>9, Zenon DEF Inv

(* runReloopPhase() preserves the invariant. *)
LEMMA ReloopStep ==
    ASSUME Inv, runReloopPhase
    PROVE  Inv'
<1> USE MarkingAssumption DEF heapVars, stacks, phaseVars
<1>1. TypeOK'
  BY Zenon DEF Inv, TypeOK, runReloopPhase
<1>2. Heap'
  BY Zenon DEF Inv, TypeOK, Heap, runReloopPhase
<1>3. Scans'
  BY Zenon DEF Inv, Scans, Scanning, IsResting, runReloopPhase
<1>4. Barrier'
  BY Zenon DEF Inv, Barrier, runReloopPhase
<1>5. Phases'
  BY Zenon DEF Inv, Phases, runReloopPhase
<1>6. Marks'
  BY Zenon DEF Inv, Marks, runReloopPhase
<1>7. GreyIsPending'
  BY Zenon DEF Inv, GreyIsPending, Pending, runReloopPhase
<1>8. WhiteIsExpected'
  BY DEF Inv, WhiteIsExpected, Expected, Pending, runReloopPhase
<1>9. Garbage'
  BY Zenon DEF Inv, Garbage, runReloopPhase
<1>q. QED
  BY <1>1, <1>2, <1>3, <1>4, <1>5, <1>6, <1>7, <1>8, <1>9, Zenon DEF Inv

(* runEndPhase() preserves the invariant. *)
LEMMA EndStep ==
    ASSUME Inv, runEndPhase
    PROVE  Inv'
<1> USE MarkingAssumption DEF heapVars, stacks, phaseVars
<1>r. \A v \in Visitors : visitor[v] = Resting
  BY Zenon DEF runEndPhase, Inv, Phases, IsResting
<1>m. /\ roots \subseteq marked /\ marked \subseteq allocated /\ marked \subseteq Cells
      /\ field' = [c \in Cells |-> IF c \in marked THEN field[c] ELSE Empty]
      /\ allocated' = marked /\ marked' = marked /\ roots' = roots /\ visitor' = visitor /\ garbage' = {}
  BY Zenon DEF runEndPhase, Inv, TypeOK, Heap, Phases
<1>e. Empty \in [Fields -> Cells \cup {NoCell}] /\ \A f \in Fields : Empty[f] = NoCell
  BY Zenon DEF Empty
<1>c. \A c \in marked, f \in Fields : field[c][f] \in marked \cup {NoCell}
  BY <1>r DEF runEndPhase, Inv, WhiteIsExpected, Expected, Pending, Phases, Barrier, Running,
     Resting
<1>1. TypeOK'
  <2>1. field' \in [Cells -> [Fields -> Cells \cup {NoCell}]]
    BY <1>m, <1>e, Zenon DEF Inv, TypeOK
  <2>2. cellState' \in [Cells -> States]
    BY Zenon DEF runEndPhase, Inv, TypeOK, States
  <2>3. /\ scope' = "None" /\ phase' = "NotRunning" /\ iteration' = 1 /\ scanned' = FALSE
        /\ UNCHANGED <<markStack, mutatorMarkStack, raceMarkStack, mutator>>
    BY Zenon DEF runEndPhase
  <2>4. iteration' \in 1 .. 3
    BY <2>3, SMT
  <2>5. scanned' \in BOOLEAN
    BY <2>3, Zenon
  <2>q. QED
    BY <2>1, <2>2, <2>3, <2>5, <1>m DEF Inv, TypeOK
<1>2. Heap'
  BY <1>m, <1>e, <1>c, Zenon DEF Heap
<1>3. Scans'
  BY <1>m, <1>r, RestingScans, Zenon
<1>4. Barrier'
  BY DEF Inv, Barrier, Running, runEndPhase
<1>5. Phases'
  BY Zenon DEF Inv, Phases, IsResting, runEndPhase
<1>6. Marks'
  BY Zenon DEF Inv, Marks, runEndPhase
<1>7. GreyIsPending'
  BY <1>m, Zenon DEF Inv, GreyIsPending, Pending, runEndPhase
<1>8. WhiteIsExpected'
  BY <1>m, <1>c, Zenon DEF WhiteIsExpected
<1>9. Garbage'
  BY <1>m, Zenon DEF Garbage
<1>q. QED
  BY <1>1, <1>2, <1>3, <1>4, <1>5, <1>6, <1>7, <1>8, <1>9, Zenon DEF Inv

-----------------------------------------------------------------------------
(* The invariant holds, and what follows from it *)

(* The heap the program starts with satisfies the invariant. *)
LEMMA InitInv == Init => Inv
<1> SUFFICES ASSUME Init PROVE Inv
  BY Zenon
<1> USE MarkingAssumption DEF Init, Resting, Running
<1>1. TypeOK
  <2>1. iteration \in 1 .. 3
    BY SMT
  <2>2. scanned \in BOOLEAN
    BY Zenon
  <2>q. QED
    BY <2>2 DEF TypeOK, Empty, States
<1>2. Heap /\ Scans /\ Barrier /\ Phases
  BY Zenon DEF Heap, Empty, Scans, Scanning, Barrier, Phases, IsResting
<1>3. Marks /\ GreyIsPending /\ WhiteIsExpected /\ Garbage
  BY Zenon DEF Marks, GreyIsPending, WhiteIsExpected, Garbage
<1>q. QED
  BY <1>1, <1>2, <1>3, Zenon DEF Inv

(* Every step of the mutator, the visitors and the collection preserves it. *)
LEMMA InvStep == Inv /\ [Next]_vars => Inv'
<1> SUFFICES ASSUME Inv, [Next]_vars PROVE Inv'
  BY Zenon
<1>1. CASE Mutates
  BY <1>1, AllocateStep, LoadStep, ForgetStep, StoreStep, SlowPathStep, IsMarkedStep, WhitenStep,
     RecheckStep, RememberStep, Zenon DEF Mutates
<1>2. ASSUME NEW v \in Visitors, Visits(v)
      PROVE  Inv'
  BY <1>2, VisitChildrenStep, AppendStep, TestAndSetStep, AppendToStackStep, RaceStep, Zenon
     DEF Visits
<1>3. CASE \E s \in {"Eden", "Full"} : runBeginPhase(s)
  BY <1>3, BeginStep, Zenon
<1>4. CASE runFixpointPhase \/ resume \/ runReloopPhase \/ runEndPhase
  BY <1>4, FixpointStep, ResumeStep, ReloopStep, EndStep, Zenon
<1>5. CASE UNCHANGED vars
  <2>1. UNCHANGED <<field, roots, allocated, cellState, marked, markStack, mutatorMarkStack, raceMarkStack,
                    scope, phase, iteration, scanned, garbage, mutator, visitor>>
    BY <1>5, Zenon DEF vars, heapVars, stacks, phaseVars
  <2>2. TypeOK' /\ Heap' /\ Barrier'
    BY <2>1, Zenon DEF Inv, TypeOK, Heap, Barrier
  <2>3. Scans' /\ Phases'
    BY <2>1, Zenon DEF Inv, Scans, Scanning, IsResting, Phases
  <2>4. Marks' /\ Garbage'
    BY <2>1, Zenon DEF Inv, Marks, Garbage
  <2>5. GreyIsPending'
    BY <2>1, Zenon DEF Inv, GreyIsPending, Pending
  <2>6. WhiteIsExpected'
    BY <2>1 DEF Inv, WhiteIsExpected, Expected, Pending
  <2>q. QED
    BY <2>2, <2>3, <2>4, <2>5, <2>6, Zenon DEF Inv
<1>q. QED
  BY <1>1, <1>2, <1>3, <1>4, <1>5, Zenon DEF Next

(* The invariant holds in every state of every behaviour of the collector *)
(* and the mutator.                                                        *)
THEOREM MarkingInvariant == Spec => []Inv
<1>q. QED
  BY InitInv, InvStep, PTL DEF Spec

(* runEndPhase() never makes a cell available for reuse that the program    *)
(* can reach, whatever was stored while the visitors scanned.               *)
THEOREM LiveCellsSurvive == Spec => []NoLiveCellIsFreed
<1>1. Inv => NoLiveCellIsFreed
  BY ReachableIsAllocated, Zenon DEF Inv
<1>q. QED
  BY <1>1, MarkingInvariant, PTL

(* Between two collections addToRememberedSet() has recorded every old cell *)
(* that may point to a new one, and every other old cell is black, so that  *)
(* the next store into it takes the slow path of the barrier.               *)
THEOREM RememberedSetComplete == Spec => []RememberedSetIsComplete
<1>1. Inv => RememberedSetIsComplete
  <2> SUFFICES ASSUME Inv, phase = "NotRunning", mutator = Running, NEW c \in allocated \cap marked,
                      c \notin mutatorMarkStack
               PROVE  /\ cellState[c] = "PossiblyBlack"
                      /\ \A f \in Fields : field[c][f] \in marked \cup {NoCell}
    BY Zenon DEF RememberedSetIsComplete
  <2>1. mutator.at = "run"
    BY Zenon DEF Running
  <2>2. /\ markStack = {} /\ raceMarkStack = {}
        /\ \A v \in Visitors : visitor[v].at = "scan" /\ visitor[v].todo = {}
    BY DEF Inv, Phases, IsResting, Resting
  <2>3. ~Pending(c)
    BY <2>2, Zenon DEF Pending
  <2>4. \A f \in Fields : ~Expected(c, f)
    BY <2>1, <2>2, <2>3, Zenon DEF Expected
  <2>5. cellState[c] = "PossiblyBlack"
    BY <2>1, <2>3, Zenon DEF Inv, GreyIsPending
  <2>6. \A f \in Fields : field[c][f] \in marked \cup {NoCell}
    BY <2>4, Zenon DEF Inv, WhiteIsExpected
  <2>q. QED
    BY <2>5, <2>6, Zenon
<1>q. QED
  BY <1>1, MarkingInvariant, PTL

(* The assertions of addToRememberedSet(), visitChildren() and endMarking() *)
(* hold whenever they are evaluated.                                        *)
THEOREM MarkingAsserts == Spec => []AssertsHold
<1>1. Inv => AssertsHold
  BY Zenon DEF Inv, AssertsHold, Barrier, Scans, Scanning, Phases, didReachTermination
<1>q. QED
  BY <1>1, MarkingInvariant, PTL

(* runEndPhase() of a full collection frees every cell that was unreachable *)
(* when runBeginPhase() ran.                                                *)
THEOREM FullCollectionComplete == Spec => FullCollectionIsComplete
<1>1. Inv /\ [Next]_vars => [runEndPhase /\ scope = "Full" => garbage \cap allocated' = {}]_vars
  BY Zenon DEF Inv, Garbage, runEndPhase
<1>q. QED
  BY <1>1, MarkingInvariant, PTL DEF Spec, FullCollectionIsComplete

-----------------------------------------------------------------------------
(***************************************************************************)
(* What the mark bits and the newly allocated bits of a block say is true, *)
(* for every number of cells and every number of collections before the    *)
(* marking version wraps: a cell taken for live holds an object, a cell on *)
(* the free list does not, and an empty block has none.  With an exact     *)
(* mark count, every cell the mutator holds is taken for live.             *)
(*                                                                         *)
(* Which of the two sets of bits describes the block depends on the        *)
(* versions, the phase and the allocator, and changes when nobody touches  *)
(* the block.  The invariant says that every set of bits that may be       *)
(* consulted later holds objects only (Sound), and that the one consulted  *)
(* now holds all of them (Complete).                                       *)
(***************************************************************************)

(* The inductive invariant *)

\* Versions only grow, so a version that is not the heap's is an older one; and
\* the bit of the directory tells whether the block has marks of the current one.
Versioned ==
    /\ bMarkingVersion <= bSpace.marking /\ bNewlyAllocatedVersion <= bSpace.newlyAllocated
    /\ bSpace.marking # B!nullVersion /\ bSpace.newlyAllocated # B!nullVersion
    /\ bMarkingVersion = B!nullVersion => bMarks = {}
    /\ bSpace.scope = "None" <=> ~bSpace.isMarking
    /\ bSpace.isMarking => bSpace.newlyAllocated # LastVersion
    /\ "markingNotEmpty" \in bBits <=> ~B!areMarksStale

\* The bits that say how the block may be swept or allocated from.
Available == {"allocated", "empty", "canAllocateButNotEmpty"} \cup B!Swept

\* What the directory and the allocator know of the block.
Directory ==
    /\ bBits # {} => "live" \in bBits
    /\ bBits = {} => /\ bMarkingVersion = B!nullVersion /\ bNewlyAllocatedVersion = B!nullVersion
                     /\ bAllocator.block = "none"
                     /\ \A c \in BlockCells : bCell[c] = "garbage"
    /\ bIsFreeListed <=> bAllocator.block = "current"
    /\ bAllocator.block = "current" => bWorld = "running"
    /\ bAllocator.block = "lastActive" => bWorld = "stopped" /\ B!hasAnyNewlyAllocated
    /\ B!hasAnyNewlyAllocated => bAllocator.block = "lastActive" \/ (bSpace.isMarking /\ ~B!areMarksStale)
    /\ bAllocator.block # "none" => bBits \cap Available = {}
    /\ "allocated" \in bBits => bBits \cap Available = {"allocated"}
    /\ "empty" \in bBits => "markingNotEmpty" \notin bBits

\* Whatever says that a cell is live, or that it is not, is right about it.
Sound ==
    \A c \in BlockCells :
        /\ B!marksMode /\ c \in bMarks => bCell[c] = "object"
        /\ B!hasAnyNewlyAllocated /\ c \in bNewlyAllocated => bCell[c] = "object"
        /\ "allocated" \in bBits => bCell[c] = "object"
        /\ bIsFreeListed /\ c \notin bFreeList => bCell[c] = "object"
        /\ "empty" \in bBits => bCell[c] # "object"
        /\ c \in bFreeList => bCell[c] # "object"
        /\ c \in bHeld => bCell[c] = "object"

\* Every destructor that has yet to run will be run by the next sweep, and only the
\* free list of a block with destructors has cells that a sweep could mistake for objects.
Destroys ==
    \A c \in BlockCells :
        /\ bCell[c] = "dead" => bNeedsDestruction /\ "destructible" \in bBits
        /\ bNeedsDestruction /\ bCell[c] = "garbage" => c \in bFreeList \/ bBits = {}

\* A full block that was not retired and that tryAllocateIn() has given up: its
\* newly allocated bits are gone, and nothing is allocated in it or swept before
\* the next collection ends.
Skipped ==
    /\ ~B!Exact
    /\ bBits \cap Available = {} /\ bAllocator.block = "none"

\* Every object is taken for live.
Complete ==
    ~bIsFreeListed => Skipped \/ \A c \in BlockCells : bCell[c] = "object" => B!isLive(c)

\* A block that may be allocated from has room.
Retires ==
    B!Exact => /\ ~B!areMarksStale /\ "markingRetired" \notin bBits => bMarks # BlockCells
               /\ "canAllocateButNotEmpty" \in bBits => \E c \in BlockCells : bCell[c] # "object"

BlockInv == B!TypeOK /\ Versioned /\ Directory /\ Sound /\ Destroys /\ Complete /\ Retires

(* MarkedBlock counts marks of a finite set of cells. *)
LEMMA Counting ==
    ASSUME NEW S
    PROVE  B!Cardinality(S) = Cardinality(S) /\ (B!IsFiniteSet(S) <=> IsFiniteSet(S))
<1>1. B!Cardinality(S) = Cardinality(S)
  BY Zenon DEF B!Cardinality, Cardinality
<1>2. B!IsFiniteSet(S) <=> IsFiniteSet(S)
  BY Zenon DEF B!IsFiniteSet, IsFiniteSet
<1>3. QED
  BY <1>1, <1>2, Zenon

-----------------------------------------------------------------------------
(* Sweeping *)

(* A block with a bit that lets it be swept is neither used up, nor free-listed, nor *)
(* given up.                                                                         *)
LEMMA MayBeSwept ==
    ASSUME BlockInv, NEW b \in {"empty", "unswept", "destructible"}, b \in bBits
    PROVE  "allocated" \notin bBits /\ ~bIsFreeListed /\ ~Skipped
<1>1. b \in bBits \cap Available /\ b # "allocated"
  BY Zenon DEF Available, B!Swept
<1>2. "allocated" \notin bBits
  BY <1>1, Zenon DEF BlockInv, Directory
<1>3. ~bIsFreeListed
  BY <1>1, Zenon DEF BlockInv, Directory
<1>4. ~Skipped
  BY <1>1, Zenon DEF Skipped
<1>5. QED
  BY <1>2, <1>3, <1>4, Zenon

(* sweep() takes a cell to be dead exactly when it holds no object, in a block *)
(* that may be swept.                                                          *)
LEMMA SweepIsRight ==
    ASSUME BlockInv, ~bIsFreeListed, "allocated" \notin bBits, ~Skipped
    PROVE  B!SweepsAway = {c \in BlockCells : bCell[c] # "object"}
<1>1. ASSUME NEW c \in BlockCells, bCell[c] = "object"
      PROVE  c \notin B!SweepsAway
  BY <1>1, Zenon DEF BlockInv, Complete, Sound, B!isLive, B!SweepsAway, B!marksMode
<1>2. ASSUME NEW c \in BlockCells, bCell[c] # "object"
      PROVE  c \in B!SweepsAway
  BY <1>2, Zenon DEF BlockInv, Sound, B!SweepsAway
<1>3. QED
  BY <1>1, <1>2, Zenon DEF B!SweepsAway

(* After the destructors have run, and after a free list was made, the cells *)
(* with objects are the same, and no object waits for its destructor.        *)
LEMMA DestructionIsRight ==
    ASSUME BlockInv, ~bIsFreeListed, "allocated" \notin bBits, ~Skipped
    PROVE  /\ B!AfterDestruction \in [BlockCells -> {"garbage", "zapped", "object", "dead"}]
           /\ \A c \in BlockCells : /\ B!AfterDestruction[c] = "object" <=> bCell[c] = "object"
                                    /\ B!AfterDestruction[c] # "dead"
                                    /\ B!AfterDestruction[c] = "garbage" => bCell[c] = "garbage"
           /\ B!AfterLinking \in [BlockCells -> {"garbage", "zapped", "object", "dead"}]
           /\ \A c \in BlockCells : /\ B!AfterLinking[c] = "object" <=> bCell[c] = "object"
                                    /\ B!AfterLinking[c] # "dead"
<1>1. B!SweepsAway = {c \in BlockCells : bCell[c] # "object"}
  BY SweepIsRight, Zenon
<1>2. B!AfterDestruction \in [BlockCells -> {"garbage", "zapped", "object", "dead"}]
  BY Zenon DEF B!AfterDestruction, BlockInv, B!TypeOK
<1>3. ASSUME NEW c \in BlockCells
      PROVE  /\ B!AfterDestruction[c] = "object" <=> bCell[c] = "object"
             /\ B!AfterDestruction[c] # "dead"
             /\ B!AfterDestruction[c] = "garbage" => bCell[c] = "garbage"
  BY <1>1, Zenon DEF B!AfterDestruction, B!mustDestroy, BlockInv, Destroys, B!TypeOK
<1>4. B!AfterLinking \in [BlockCells -> {"garbage", "zapped", "object", "dead"}]
  BY <1>2, Zenon DEF B!AfterLinking
<1>5. \A c \in BlockCells : /\ B!AfterLinking[c] = "object" <=> bCell[c] = "object"
                            /\ B!AfterLinking[c] # "dead"
  BY <1>3, Zenon DEF B!AfterLinking
<1>6. QED
  BY <1>2, <1>3, <1>4, <1>5, Zenon

-----------------------------------------------------------------------------
(* The steps *)

(* allocate() preserves the invariant. *)
LEMMA AllocatePreserves ==
    ASSUME B!MarkedBlockAssumption, UNCHANGED <<bNeedsDestruction, bForgets>>, BlockInv, NEW c \in BlockCells, B!allocate(c)
    PROVE  BlockInv'
<1> USE DEF B!blockVars, B!allocatorVars, B!nullVersion, B!initialVersion, B!Versions, B!Bits
<1>x. (B!Exact)' = B!Exact
  BY Zenon DEF B!Exact
<1> USE <1>x
<1>a. /\ bAllocator.block = "current" /\ c \in bFreeList /\ bFreeList' = bFreeList \ {c}
      /\ bHeld' = bHeld \cup {c} /\ bCell'[c] = "object"
      /\ \A d \in BlockCells : d # c => bCell'[d] = bCell[d]
      /\ UNCHANGED <<bSpace, bWorld, bMarks, bMarkingVersion, bNewlyAllocated, bNewlyAllocatedVersion,
                     bBits, bIsFreeListed, bAllocator>>
  BY Zenon DEF B!allocate, B!Gets, BlockInv, B!TypeOK
<1>1. B!TypeOK'
  BY DEF BlockInv, B!allocate, B!Gets, B!TypeOK
<1>2. Versioned'
  BY Zenon DEF BlockInv, B!allocate, B!Gets, Versioned, B!areMarksStale
<1>3. Directory'
  BY Zenon DEF BlockInv, B!allocate, Directory, B!hasAnyNewlyAllocated, B!areMarksStale
<1>4. Sound'
  BY <1>a, Zenon DEF BlockInv, Sound, B!marksMode, B!areMarksStale,
     B!marksConveyLivenessDuringMarking, B!hasAnyNewlyAllocated, Directory, Available
<1>5. Complete'
  BY Zenon DEF BlockInv, B!allocate, Complete, Directory
<1>6. Retires'
  BY Zenon DEF BlockInv, B!allocate, Retires, B!areMarksStale, Directory, Available
<1>7. Destroys'
  BY <1>a, Zenon DEF BlockInv, Destroys
<1>8. QED
  BY <1>1, <1>2, <1>3, <1>4, <1>5, <1>6, <1>7, Zenon DEF BlockInv

(* tryAllocateIn() preserves the invariant. *)
LEMMA TryAllocateInPreserves ==
    ASSUME B!MarkedBlockAssumption, UNCHANGED <<bNeedsDestruction, bForgets>>, BlockInv, NEW c \in BlockCells, B!tryAllocateIn(c)
    PROVE  BlockInv'
<1> USE DEF B!blockVars, B!allocatorVars, B!nullVersion, B!initialVersion, B!Versions, B!Bits
<1>x. (B!Exact)' = B!Exact
  BY Zenon DEF B!Exact
<1> USE <1>x
<1>a. "allocated" \notin bBits /\ ~bIsFreeListed /\ ~Skipped
  BY Zenon DEF B!tryAllocateIn, B!findBlockForAllocation, BlockInv, Directory, Skipped, Available
<1>b. B!SweepsAway = {d \in BlockCells : bCell[d] # "object"}
  BY <1>a, SweepIsRight, Zenon
<1>c. /\ B!AfterLinking \in [BlockCells -> {"garbage", "zapped", "object", "dead"}]
      /\ \A d \in BlockCells : /\ B!AfterLinking[d] = "object" <=> bCell[d] = "object"
                               /\ B!AfterLinking[d] # "dead"
  BY <1>a, DestructionIsRight, Zenon
<1>1. B!TypeOK'
  BY <1>c DEF BlockInv, B!tryAllocateIn, B!SweepsAway, B!sweepToFreeList,
     B!Swept, B!Gets, B!TypeOK
<1>2. Versioned'
  BY DEF BlockInv, B!tryAllocateIn, B!areMarksStale, B!sweepToFreeList, B!Swept, B!TypeOK,
     Versioned
<1>3. Directory'
  BY Zenon DEF BlockInv, B!tryAllocateIn, B!sweepToFreeList, B!Swept, B!findBlockForAllocation,
     Directory, Available, B!hasAnyNewlyAllocated, B!areMarksStale
<1>4. Sound'
  <2>1. /\ bCell' = [B!AfterLinking EXCEPT ![c] = "object"] /\ bHeld' = bHeld \cup {c}
        /\ bFreeList' = B!SweepsAway \ {c} /\ bIsFreeListed' /\ c \in B!SweepsAway
        /\ bBits' \cap {"allocated", "empty"} = {}
        /\ UNCHANGED <<bSpace, bMarks, bMarkingVersion, bNewlyAllocated>>
        /\ B!hasAnyNewlyAllocated' => B!hasAnyNewlyAllocated
    BY <1>a, Zenon DEF B!tryAllocateIn, B!Gets, B!sweepToFreeList, B!Swept, B!hasAnyNewlyAllocated
  <2>2. \A d \in BlockCells : bCell[d] = "object" => bCell'[d] = "object"
    BY <1>c, <2>1, Zenon
  <2>3. QED
    BY <1>b, <1>c, <2>1, Zenon DEF BlockInv, Sound, B!marksMode, B!areMarksStale,
       B!marksConveyLivenessDuringMarking
<1>5. Complete'
  BY Zenon DEF B!tryAllocateIn, Complete
<1>6. Retires'
  BY Zenon DEF BlockInv, B!tryAllocateIn, B!sweepToFreeList, B!Swept, Retires, B!areMarksStale
<1>7. Destroys'
  <2>1. /\ bCell' = [B!AfterLinking EXCEPT ![c] = "object"] /\ bFreeList' = B!SweepsAway \ {c}
        /\ c \in B!SweepsAway
    BY Zenon DEF B!tryAllocateIn, B!Gets
  <2>2. \A d \in BlockCells : bCell'[d] # "dead" /\ (bCell'[d] = "garbage" => d \in bFreeList')
    BY <1>b, <1>c, <2>1, Zenon
  <2>3. QED
    BY <2>2, Zenon DEF Destroys
<1>8. QED
  BY <1>1, <1>2, <1>3, <1>4, <1>5, <1>6, <1>7, Zenon DEF BlockInv

(* addBlock() preserves the invariant. *)
LEMMA AddBlockPreserves ==
    ASSUME B!MarkedBlockAssumption, UNCHANGED <<bNeedsDestruction, bForgets>>, BlockInv, NEW c \in BlockCells, B!addBlock(c)
    PROVE  BlockInv'
<1> USE DEF B!blockVars, B!allocatorVars, B!nullVersion, B!initialVersion, B!Versions, B!Bits
<1>x. (B!Exact)' = B!Exact
  BY Zenon DEF B!Exact
<1> USE <1>x
<1>1. B!TypeOK'
  BY Zenon DEF BlockInv, B!addBlock, B!Gets, B!TypeOK
<1>2. Versioned'
  BY Zenon DEF BlockInv, B!addBlock, Versioned, B!areMarksStale, Directory
<1>3. Directory'
  BY DEF BlockInv, B!addBlock, Directory, Available, B!Swept, B!hasAnyNewlyAllocated,
     B!areMarksStale
<1>4. Sound'
  BY Zenon DEF BlockInv, B!addBlock, B!Gets, B!TypeOK, Sound, B!marksMode, B!areMarksStale,
     B!marksConveyLivenessDuringMarking, B!hasAnyNewlyAllocated, Directory
<1>5. Complete'
  BY Zenon DEF B!addBlock, Complete
<1>6. Retires'
  BY Zenon DEF BlockInv, B!addBlock, Retires, B!areMarksStale, Directory
<1>7. Destroys'
  BY Zenon DEF BlockInv, B!addBlock, B!Gets, B!TypeOK, Destroys, Directory, Available, B!Swept
<1>8. QED
  BY <1>1, <1>2, <1>3, <1>4, <1>5, <1>6, <1>7, Zenon DEF BlockInv

(* stealEmptyBlock() preserves the invariant. *)
LEMMA StealEmptyBlockPreserves ==
    ASSUME B!MarkedBlockAssumption, bForgets' = bForgets, BlockInv, NEW c \in BlockCells, B!stealEmptyBlock(c)
    PROVE  BlockInv'
<1> USE DEF B!blockVars, B!allocatorVars, B!nullVersion, B!initialVersion, B!Versions, B!Bits
<1>x. (B!Exact)' = B!Exact
  BY Zenon DEF B!Exact
<1> USE <1>x
<1>a. "allocated" \notin bBits /\ ~bIsFreeListed /\ ~Skipped
  BY MayBeSwept, Zenon DEF B!stealEmptyBlock
<1>1. B!TypeOK'
  BY DEF BlockInv, B!stealEmptyBlock, B!AfterDestruction, B!AfterLinking, B!sweepToFreeList, B!Gets,
     B!TypeOK
<1>2. Versioned'
  BY Zenon DEF BlockInv, B!stealEmptyBlock, B!sweepToFreeList, Versioned, B!areMarksStale,
     Directory
<1>3. Directory'
  BY DEF BlockInv, B!stealEmptyBlock, B!sweepToFreeList, Directory, Available, B!Swept,
     B!hasAnyNewlyAllocated, B!areMarksStale
<1>4. Sound'
  BY Zenon DEF BlockInv, B!stealEmptyBlock, B!AfterDestruction, B!AfterLinking, B!SweepsAway,
     B!hasAnyNewlyAllocated, B!marksMode, B!areMarksStale,
     B!marksConveyLivenessDuringMarking, B!mustDestroy, B!sweepToFreeList, B!Gets, Sound
<1>5. Complete'
  BY Zenon DEF B!stealEmptyBlock, Complete
<1>6. Retires'
  BY Zenon DEF BlockInv, B!stealEmptyBlock, B!areMarksStale, B!sweepToFreeList, Versioned,
     Retires, Directory
<1>7. Destroys'
  <2>1. bCell' = [B!AfterLinking EXCEPT ![c] = "object"] /\ bFreeList' = BlockCells \ {c}
    BY Zenon DEF B!stealEmptyBlock, B!Gets
  <2>2. /\ B!AfterLinking \in [BlockCells -> {"garbage", "zapped", "object", "dead"}]
        /\ \A d \in BlockCells : B!AfterLinking[d] # "dead"
    BY <1>a, DestructionIsRight, Zenon
  <2>3. \A d \in BlockCells : bCell'[d] # "dead" /\ (bCell'[d] = "garbage" => d \in bFreeList')
    BY <2>1, <2>2, Zenon
  <2>4. QED
    BY <2>3, Zenon DEF Destroys
<1>8. QED
  BY <1>1, <1>2, <1>3, <1>4, <1>5, <1>6, <1>7, Zenon DEF BlockInv

(* forget() preserves the invariant. *)
LEMMA ForgetPreserves ==
    ASSUME B!MarkedBlockAssumption, UNCHANGED <<bNeedsDestruction, bForgets>>, BlockInv, NEW c \in BlockCells, B!forget(c)
    PROVE  BlockInv'
<1> USE DEF B!blockVars, B!allocatorVars, B!nullVersion, B!initialVersion, B!Versions, B!Bits
<1>x. (B!Exact)' = B!Exact
  BY Zenon DEF B!Exact
<1> USE <1>x
<1>1. B!TypeOK'
  BY DEF BlockInv, B!forget, B!TypeOK
<1>2. Versioned'
  BY Zenon DEF BlockInv, B!forget, Versioned, B!areMarksStale
<1>3. Directory'
  BY Zenon DEF BlockInv, B!forget, Directory, B!hasAnyNewlyAllocated, B!areMarksStale
<1>4. Sound'
  BY Zenon DEF BlockInv, B!forget, Sound, B!marksMode, B!areMarksStale,
     B!marksConveyLivenessDuringMarking,
     B!hasAnyNewlyAllocated
<1>5. Complete'
  BY Zenon DEF BlockInv, B!forget, Complete, Skipped, B!isLive, B!areMarksStale,
     B!hasAnyNewlyAllocated, B!marksConveyLivenessDuringMarking
<1>6. Retires'
  BY Zenon DEF BlockInv, B!forget, Retires, B!areMarksStale
<1>7. Destroys'
  BY Zenon DEF BlockInv, B!forget, B!Gets, B!TypeOK, Destroys, Directory, Available, B!Swept
<1>8. QED
  BY <1>1, <1>2, <1>3, <1>4, <1>5, <1>6, <1>7, Zenon DEF BlockInv

(* didConsumeFreeList() preserves the invariant. *)
LEMMA DidConsumeFreeListPreserves ==
    ASSUME B!MarkedBlockAssumption, UNCHANGED <<bNeedsDestruction, bForgets>>, BlockInv, B!didConsumeFreeList
    PROVE  BlockInv'
<1> USE DEF B!blockVars, B!allocatorVars, B!nullVersion, B!initialVersion, B!Versions, B!Bits
<1>x. (B!Exact)' = B!Exact
  BY Zenon DEF B!Exact
<1> USE <1>x
<1>1. B!TypeOK'
  BY Zenon DEF BlockInv, B!didConsumeFreeList, B!TypeOK
<1>2. Versioned'
  BY Zenon DEF BlockInv, B!didConsumeFreeList, Versioned, B!areMarksStale
<1>3. Directory'
  BY DEF BlockInv, B!didConsumeFreeList, Directory, Available, B!hasAnyNewlyAllocated,
     B!areMarksStale
<1>4. Sound'
  BY Zenon DEF BlockInv, B!didConsumeFreeList, Sound, Directory
<1>5. Complete'
  BY Zenon DEF B!didConsumeFreeList, Complete, B!isLive
<1>6. Retires'
  BY Zenon DEF BlockInv, B!didConsumeFreeList, Retires, B!areMarksStale
<1>7. Destroys'
  BY Zenon DEF BlockInv, B!didConsumeFreeList, B!Gets, B!TypeOK, Destroys, Directory, Available, B!Swept
<1>8. QED
  BY <1>1, <1>2, <1>3, <1>4, <1>5, <1>6, <1>7, Zenon DEF BlockInv

(* tryAllocateInFull() preserves the invariant. *)
LEMMA TryAllocateInFullPreserves ==
    ASSUME B!MarkedBlockAssumption, UNCHANGED <<bNeedsDestruction, bForgets>>, BlockInv, B!tryAllocateInFull
    PROVE  BlockInv'
<1> USE DEF B!blockVars, B!allocatorVars, B!nullVersion, B!initialVersion, B!Versions, B!Bits
<1>x. (B!Exact)' = B!Exact
  BY Zenon DEF B!Exact
<1> USE <1>x
<1>a. "allocated" \notin bBits /\ ~bIsFreeListed /\ ~Skipped
  BY Zenon DEF B!tryAllocateInFull, B!findBlockForAllocation, BlockInv, Directory, Skipped,
     Available
<1>b. B!SweepsAway = {d \in BlockCells : bCell[d] # "object"}
  BY <1>a, SweepIsRight, Zenon
<1>1. B!TypeOK'
  BY Zenon DEF BlockInv, B!tryAllocateInFull, B!sweepToFreeList, B!findBlockForAllocation,
     B!TypeOK
<1>2. Versioned'
  BY DEF BlockInv, B!tryAllocateInFull, B!areMarksStale, B!sweepToFreeList, B!Swept,
     B!TypeOK, Versioned
<1>3. Directory'
  BY DEF BlockInv, B!tryAllocateInFull, B!sweepToFreeList, B!Swept,
     B!findBlockForAllocation, Directory, B!hasAnyNewlyAllocated, B!areMarksStale
<1>4. Sound'
  BY Zenon DEF BlockInv, B!tryAllocateInFull, B!SweepsAway, Sound
<1>5. Complete'
  <2>1. ~B!Exact
    <3>1. \A c \in BlockCells : bCell[c] = "object"
      BY <1>b, Zenon DEF B!tryAllocateInFull
    <3>2. ASSUME B!Exact
          PROVE  "empty" \in bBits
      <4>1. "canAllocateButNotEmpty" \notin bBits
        BY <3>1, <3>2, Zenon DEF BlockInv, Retires
      <4>2. QED
        BY <4>1, Zenon DEF B!tryAllocateInFull, B!findBlockForAllocation
    <3>3. ASSUME B!Exact
          PROVE  BlockCells # {}
      <4>1. B!Cardinality(BlockCells) # 0
        BY <3>3 DEF B!Exact
      <4>2. QED
        BY <4>1, FS_EmptySet, Counting, Zenon
    <3>4. QED
      BY <3>1, <3>2, <3>3, Zenon DEF BlockInv, Sound
  <2>2. QED
    BY <1>a, <2>1 DEF B!tryAllocateInFull, B!findBlockForAllocation, Complete, Skipped,
       Available, B!Swept
<1>6. Retires'
  BY Zenon DEF BlockInv, B!tryAllocateInFull, B!sweepToFreeList, B!Swept, Retires, B!areMarksStale
<1>7. Destroys'
  BY <1>b, Zenon DEF B!tryAllocateInFull, Destroys
<1>8. QED
  BY <1>1, <1>2, <1>3, <1>4, <1>5, <1>6, <1>7, Zenon DEF BlockInv

(* sweepNextBlock() preserves the invariant. *)
LEMMA SweepNextBlockPreserves ==
    ASSUME B!MarkedBlockAssumption, UNCHANGED <<bNeedsDestruction, bForgets>>, BlockInv, B!sweepNextBlock
    PROVE  BlockInv'
<1> USE DEF B!blockVars, B!allocatorVars, B!nullVersion, B!initialVersion, B!Versions, B!Bits
<1>x. (B!Exact)' = B!Exact
  BY Zenon DEF B!Exact
<1> USE <1>x
<1>a. "allocated" \notin bBits /\ ~bIsFreeListed /\ ~Skipped
  BY MayBeSwept, Zenon DEF B!sweepNextBlock
<1>b. B!SweepsAway = {d \in BlockCells : bCell[d] # "object"}
  BY <1>a, SweepIsRight, Zenon
<1>c. /\ B!AfterDestruction \in [BlockCells -> {"garbage", "zapped", "object", "dead"}]
      /\ \A d \in BlockCells : /\ B!AfterDestruction[d] = "object" <=> bCell[d] = "object"
                               /\ B!AfterDestruction[d] # "dead"
                               /\ B!AfterDestruction[d] = "garbage" => bCell[d] = "garbage"
  BY <1>a, DestructionIsRight, Zenon
<1>d. \/ B!freeBlock /\ \A d \in BlockCells : bCell[d] # "object"
      \/ /\ bCell' = B!AfterDestruction /\ UNCHANGED <<bMarks, bMarkingVersion, bNewlyAllocated, bNewlyAllocatedVersion>>
         /\ bBits' = bBits \ {"unswept", "destructible"} /\ "destructible" \in bBits /\ bNeedsDestruction
      \/ /\ bCell' = bCell /\ UNCHANGED <<bMarks, bMarkingVersion, bNewlyAllocated, bNewlyAllocatedVersion>>
         /\ bBits' = bBits \ {"unswept"}
  <2>1. CASE "empty" \in bBits \/ (B!mustDestroy /\ B!SweepsAway = BlockCells)
    BY <1>b, <2>1, Zenon DEF B!sweepNextBlock, BlockInv, Sound
  <2>2. CASE ~("empty" \in bBits \/ (B!mustDestroy /\ B!SweepsAway = BlockCells)) /\ B!mustDestroy
    BY <2>2, Zenon DEF B!sweepNextBlock, B!mustDestroy
  <2>3. CASE ~("empty" \in bBits \/ (B!mustDestroy /\ B!SweepsAway = BlockCells)) /\ ~B!mustDestroy
    <3>1. B!AfterDestruction = bCell
      BY <2>3, Zenon DEF B!AfterDestruction, BlockInv, B!TypeOK
    <3>2. QED
      BY <2>3, <3>1, Zenon DEF B!sweepNextBlock
  <2>4. QED
    BY <2>1, <2>2, <2>3, Zenon
<1>e. UNCHANGED <<bSpace, bWorld, bIsFreeListed, bAllocator, bFreeList, bHeld>>
  BY Zenon DEF B!sweepNextBlock
<1>1. B!TypeOK'
  <2>1. bMarkingVersion' \in B!Versions /\ bNewlyAllocatedVersion' \in B!Versions
    BY <1>d, Zenon DEF BlockInv, B!TypeOK, B!freeBlock
  <2>2. /\ bMarks' \subseteq BlockCells /\ bNewlyAllocated' \subseteq BlockCells /\ bBits' \subseteq B!Bits
        /\ bCell' \in [BlockCells -> {"garbage", "zapped", "object", "dead"}]
    BY <1>c, <1>d, Zenon DEF BlockInv, B!TypeOK, B!freeBlock
  <2> HIDE DEF B!Versions
  <2>3. QED
    BY <1>e, <2>1, <2>2, Zenon DEF BlockInv, B!TypeOK
<1>2. Versioned'
  BY DEF BlockInv, B!sweepNextBlock, B!areMarksStale, B!freeBlock, B!TypeOK, Versioned
<1>3. Directory'
  BY Zenon DEF BlockInv, B!sweepNextBlock, B!hasAnyNewlyAllocated, B!areMarksStale, B!freeBlock,
     Versioned, Directory, Available, B!Swept
<1>4. Sound'
  BY <1>c, <1>d, <1>e, Zenon DEF BlockInv, Sound, B!freeBlock, B!marksMode, B!areMarksStale,
     B!marksConveyLivenessDuringMarking, B!hasAnyNewlyAllocated
<1>5. Complete'
  BY Zenon DEF BlockInv, B!sweepNextBlock, B!hasAnyNewlyAllocated, B!areMarksStale,
     B!marksConveyLivenessDuringMarking, B!AfterDestruction, B!freeBlock, Complete,
     Skipped, B!isLive
<1>6. Retires'
  BY Zenon DEF BlockInv, B!sweepNextBlock, B!areMarksStale, B!AfterDestruction, B!freeBlock,
     Versioned, Retires
<1>7. Destroys'
  <2>1. CASE B!freeBlock
    BY <2>1, Zenon DEF B!freeBlock, Destroys
  <2>2. CASE bCell' = B!AfterDestruction
    BY <1>c, <1>e, <2>2, Zenon DEF BlockInv, Destroys, B!sweepNextBlock, Directory
  <2>3. CASE bCell' = bCell /\ bBits' = bBits \ {"unswept"}
    BY <1>e, <2>3, Zenon DEF BlockInv, Destroys
  <2>4. QED
    BY <1>d, <2>1, <2>2, <2>3, Zenon
<1>8. QED
  BY <1>1, <1>2, <1>3, <1>4, <1>5, <1>6, <1>7, Zenon DEF BlockInv

(* shrink() preserves the invariant. *)
LEMMA ShrinkPreserves ==
    ASSUME B!MarkedBlockAssumption, UNCHANGED <<bNeedsDestruction, bForgets>>, BlockInv, B!shrink
    PROVE  BlockInv'
<1> USE DEF B!blockVars, B!allocatorVars, B!nullVersion, B!initialVersion, B!Versions, B!Bits
<1>x. (B!Exact)' = B!Exact
  BY Zenon DEF B!Exact
<1> USE <1>x
<1>1. B!TypeOK'
  BY DEF BlockInv, B!shrink, B!freeBlock, B!TypeOK
<1>2. Versioned'
  BY DEF BlockInv, B!shrink, B!freeBlock, B!TypeOK, Versioned, B!areMarksStale
<1>3. Directory'
  BY Zenon DEF BlockInv, B!shrink, B!freeBlock, Versioned, Directory, Available,
     B!hasAnyNewlyAllocated
<1>4. Sound'
  BY Zenon DEF BlockInv, B!shrink, B!freeBlock, Sound
<1>5. Complete'
  BY Zenon DEF B!shrink, B!freeBlock, Complete
<1>6. Retires'
  BY Zenon DEF BlockInv, B!shrink, B!freeBlock, Versioned, Retires, B!areMarksStale
<1>7. Destroys'
  BY Zenon DEF B!shrink, B!freeBlock, Destroys
<1>8. QED
  BY <1>1, <1>2, <1>3, <1>4, <1>5, <1>6, <1>7, Zenon DEF BlockInv

(* stopAllocating() preserves the invariant. *)
LEMMA StopAllocatingPreserves ==
    ASSUME B!MarkedBlockAssumption, UNCHANGED <<bNeedsDestruction, bForgets>>, BlockInv, B!stopAllocating
    PROVE  BlockInv'
<1> USE DEF B!blockVars, B!allocatorVars, B!nullVersion, B!initialVersion, B!Versions, B!Bits
<1>x. (B!Exact)' = B!Exact
  BY Zenon DEF B!Exact
<1> USE <1>x
<1>1. B!TypeOK'
  <2>1. /\ bAllocator' \in [block : {"none", "current", "lastActive"}, passed : BOOLEAN]
        /\ bNewlyAllocated' \subseteq BlockCells /\ bNewlyAllocatedVersion' \in B!Versions
    BY DEF B!stopAllocating, BlockInv, B!TypeOK
  <2>2. QED
    BY <2>1, Zenon DEF B!stopAllocating, BlockInv, B!TypeOK
<1>2. Versioned'
  BY DEF BlockInv, B!stopAllocating, B!TypeOK, Versioned, B!areMarksStale
<1>3. Directory'
  <2>1. bBits = {} => bCell' = bCell
    BY Zenon DEF B!stopAllocating, BlockInv, B!TypeOK, Directory
  <2>2. QED
    BY <2>1 DEF BlockInv, B!stopAllocating, Directory, B!hasAnyNewlyAllocated, B!areMarksStale
<1>4. Sound'
  BY Zenon DEF BlockInv, B!stopAllocating, Sound, B!marksMode, B!areMarksStale,
     B!marksConveyLivenessDuringMarking, B!hasAnyNewlyAllocated
<1>5. Complete'
  BY DEF BlockInv, B!stopAllocating, Complete, Skipped, Directory, B!isLive,
     B!areMarksStale, B!hasAnyNewlyAllocated, B!marksConveyLivenessDuringMarking, Sound
<1>6. Retires'
  BY Zenon DEF BlockInv, B!stopAllocating, Retires, B!areMarksStale
<1>7. Destroys'
  BY Zenon DEF BlockInv, B!stopAllocating, B!Gets, B!TypeOK, Destroys, Directory, Available, B!Swept
<1>8. QED
  BY <1>1, <1>2, <1>3, <1>4, <1>5, <1>6, <1>7, Zenon DEF BlockInv

(* resumeAllocating() preserves the invariant. *)
LEMMA ResumeAllocatingPreserves ==
    ASSUME B!MarkedBlockAssumption, UNCHANGED <<bNeedsDestruction, bForgets>>, BlockInv, B!resumeAllocating
    PROVE  BlockInv'
<1> USE DEF B!blockVars, B!allocatorVars, B!nullVersion, B!initialVersion, B!Versions, B!Bits
<1>x. (B!Exact)' = B!Exact
  BY Zenon DEF B!Exact
<1> USE <1>x
<1>a. /\ ~bIsFreeListed /\ UNCHANGED <<bSpace, bHeld>> /\ bWorld' = "running"
      /\ bAllocator.block = "lastActive" => "allocated" \notin bBits /\ ~Skipped
  BY Zenon DEF B!resumeAllocating, BlockInv, Directory, Skipped
<1>1. B!TypeOK'
  <2>1. bAllocator' \in [block : {"none", "current", "lastActive"}, passed : BOOLEAN]
    BY Zenon DEF B!resumeAllocating, BlockInv, B!TypeOK
  <2>2. bCell' \in [BlockCells -> {"garbage", "zapped", "object", "dead"}]
    BY <1>a, DestructionIsRight, Zenon DEF B!resumeAllocating, BlockInv, B!TypeOK
  <2>3. QED
    BY <2>1, <2>2, Zenon DEF B!resumeAllocating, BlockInv, B!TypeOK, B!sweepToFreeList, B!SweepsAway
<1>2. Versioned'
  BY DEF BlockInv, B!resumeAllocating, B!areMarksStale, B!sweepToFreeList, B!Swept,
     B!TypeOK, Versioned
<1>3. Directory'
  BY DEF BlockInv, B!resumeAllocating, B!hasAnyNewlyAllocated, B!areMarksStale,
     B!sweepToFreeList, B!Swept, Versioned, Directory
<1>4. Sound'
  <2>1. CASE bAllocator.block = "lastActive" /\ B!hasAnyNewlyAllocated
    <3>1. B!SweepsAway = {c \in BlockCells : bCell[c] # "object"}
      BY <1>a, <2>1, SweepIsRight, Zenon
    <3>2. \A c \in BlockCells : /\ B!AfterLinking[c] = "object" <=> bCell[c] = "object"
                                /\ B!AfterLinking[c] # "dead"
      BY <1>a, <2>1, DestructionIsRight, Zenon
    <3>3. /\ bIsFreeListed' /\ bFreeList' = B!SweepsAway /\ bBits' = bBits \ B!Swept /\ bCell' = B!AfterLinking
          /\ UNCHANGED <<bMarks, bMarkingVersion, bNewlyAllocated>> /\ ~B!hasAnyNewlyAllocated'
      BY <2>1, Zenon DEF B!resumeAllocating, B!sweepToFreeList, B!hasAnyNewlyAllocated, BlockInv,
         Versioned
    <3>4. QED
      BY <1>a, <3>1, <3>2, <3>3, Zenon DEF BlockInv, Sound, B!marksMode, B!areMarksStale,
         B!marksConveyLivenessDuringMarking
  <2>2. CASE ~(bAllocator.block = "lastActive" /\ B!hasAnyNewlyAllocated)
    BY <2>2 DEF B!resumeAllocating, BlockInv, Sound, B!marksMode, B!areMarksStale,
       B!marksConveyLivenessDuringMarking, B!hasAnyNewlyAllocated
  <2>3. QED
    BY <2>1, <2>2, Zenon
<1>5. Complete'
  BY DEF BlockInv, B!resumeAllocating, Complete, Skipped, B!isLive, B!areMarksStale,
     B!hasAnyNewlyAllocated, B!marksConveyLivenessDuringMarking
<1>6. Retires'
  BY Zenon DEF BlockInv, B!resumeAllocating, B!areMarksStale, B!AfterLinking, B!AfterDestruction,
     B!sweepToFreeList, B!Swept, Retires
<1>7. Destroys'
  <2>1. CASE bAllocator.block = "lastActive" /\ B!hasAnyNewlyAllocated
    <3>1. /\ B!SweepsAway = {c \in BlockCells : bCell[c] # "object"}
          /\ \A c \in BlockCells : /\ B!AfterLinking[c] = "object" <=> bCell[c] = "object"
                                   /\ B!AfterLinking[c] # "dead"
      BY <1>a, <2>1, SweepIsRight, DestructionIsRight, Zenon
    <3>2. bFreeList' = B!SweepsAway /\ bCell' = B!AfterLinking
      BY <2>1, Zenon DEF B!resumeAllocating
    <3>3. QED
      BY <3>1, <3>2, Zenon DEF Destroys
  <2>2. CASE ~(bAllocator.block = "lastActive" /\ B!hasAnyNewlyAllocated)
    BY <2>2, Zenon DEF B!resumeAllocating, BlockInv, Destroys
  <2>3. QED
    BY <2>1, <2>2, Zenon
<1>8. QED
  BY <1>1, <1>2, <1>3, <1>4, <1>5, <1>6, <1>7, Zenon DEF BlockInv

(* beginMarking() preserves the invariant. *)
LEMMA BeginMarkingPreserves ==
    ASSUME B!MarkedBlockAssumption, UNCHANGED <<bNeedsDestruction, bForgets>>, BlockInv, B!beginMarking
    PROVE  BlockInv'
<1> USE DEF B!blockVars, B!allocatorVars, B!nullVersion, B!initialVersion, B!Versions, B!Bits
<1>x. (B!Exact)' = B!Exact
  BY Zenon DEF B!Exact
<1> USE <1>x
<1>a. /\ bSpace.marking \in 2 .. LastVersion - 1 /\ bSpace.newlyAllocated # LastVersion /\ ~bSpace.isMarking
      /\ LastVersion \in Nat
  BY DEF B!MarkedBlockAssumption, B!beginMarking, BlockInv, B!TypeOK, Versioned
<1>b. \/ /\ bSpace' = [marking |-> bSpace.marking + 1, newlyAllocated |-> bSpace.newlyAllocated,
                    isMarking |-> TRUE, scope |-> "Full"]
         /\ bBits' = bBits \ {"markingNotEmpty", "markingRetired"}
      \/ /\ bSpace' = [marking |-> bSpace.marking, newlyAllocated |-> bSpace.newlyAllocated,
                    isMarking |-> TRUE, scope |-> "Eden"]
         /\ bBits' = bBits
  BY <1>a, Zenon DEF B!beginMarking, B!nextVersion
<1>c. UNCHANGED <<bWorld, bMarks, bMarkingVersion, bNewlyAllocated, bNewlyAllocatedVersion, bIsFreeListed,
                  bAllocator, bFreeList, bCell, bHeld>>
  BY <1>a DEF B!beginMarking, B!nextVersion
<1>1. B!TypeOK'
  <2>1. bSpace.marking + 1 \in B!Versions
    BY <1>a
  <2>2. bBits' \subseteq bBits
    BY <1>b, Zenon
  <2> HIDE DEF B!Versions, B!Bits
  <2>3. bSpace.marking \in B!Versions /\ bSpace.newlyAllocated \in B!Versions
    BY Zenon DEF BlockInv, B!TypeOK
  <2>4. bSpace' \in [marking : B!Versions, newlyAllocated : B!Versions, isMarking : BOOLEAN, scope : {"None", "Full", "Eden"}]
    <3>1. CASE bSpace' = [marking |-> bSpace.marking + 1, newlyAllocated |-> bSpace.newlyAllocated,
                         isMarking |-> TRUE, scope |-> "Full"]
      BY <2>1, <2>3, <3>1, Zenon
    <3>2. CASE bSpace' = [marking |-> bSpace.marking, newlyAllocated |-> bSpace.newlyAllocated,
                         isMarking |-> TRUE, scope |-> "Eden"]
      BY <2>3, <3>2, Zenon
    <3>3. QED
      BY <1>b, <3>1, <3>2, Zenon
  <2>5. QED
    BY <1>c, <2>2, <2>4, Zenon DEF BlockInv, B!TypeOK
<1>2. Versioned'
  BY DEF BlockInv, B!beginMarking, B!nextVersion, B!areMarksStale, B!TypeOK, Versioned
<1>3. Directory'
  BY DEF BlockInv, B!beginMarking, B!resetMarks, Directory, B!hasAnyNewlyAllocated
<1>4. Sound'
  BY DEF BlockInv, B!beginMarking, B!nextVersion, B!areMarksStale, B!TypeOK, Versioned,
     Sound, B!marksMode, B!marksConveyLivenessDuringMarking, B!hasAnyNewlyAllocated
<1>5. Complete'
  <2>1. ~B!areMarksStale => B!marksConveyLivenessDuringMarking' \/ ~B!areMarksStale'
    BY <1>a, <1>b, <1>c DEF B!areMarksStale, B!marksConveyLivenessDuringMarking,
       B!nextVersion
  <2>2. \A c \in BlockCells : B!isLive(c) => B!isLive(c)'
    BY <1>a, <1>b, <1>c, <2>1 DEF B!isLive, B!hasAnyNewlyAllocated
  <2>3. Skipped => Skipped'
    BY <1>b, <1>c, Zenon DEF Skipped
  <2>4. QED
    BY <1>c, <2>2, <2>3, Zenon DEF BlockInv, Complete
<1>6. Retires'
  BY DEF BlockInv, B!beginMarking, B!nextVersion, B!areMarksStale, B!TypeOK, Versioned,
     Retires
<1>7. Destroys'
  BY Zenon DEF BlockInv, B!beginMarking, B!Gets, B!TypeOK, Destroys, Directory, Available, B!Swept
<1>8. QED
  BY <1>1, <1>2, <1>3, <1>4, <1>5, <1>6, <1>7, Zenon DEF BlockInv

(* aboutToMarkSlow() preserves the invariant. *)
LEMMA AboutToMarkSlowPreserves ==
    ASSUME B!MarkedBlockAssumption, UNCHANGED <<bNeedsDestruction, bForgets>>, BlockInv, B!aboutToMarkSlow
    PROVE  BlockInv'
<1> USE DEF B!blockVars, B!allocatorVars, B!nullVersion, B!initialVersion, B!Versions, B!Bits
<1>x. (B!Exact)' = B!Exact
  BY Zenon DEF B!Exact
<1> USE <1>x
<1>1. B!TypeOK'
  BY DEF BlockInv, B!aboutToMarkSlow, B!TypeOK
<1>2. Versioned'
  BY DEF BlockInv, B!aboutToMarkSlow, B!areMarksStale, B!TypeOK, Versioned
<1>3. Directory'
  BY Zenon DEF BlockInv, B!aboutToMarkSlow, B!areMarksStale, B!hasAnyNewlyAllocated, B!MayMark,
     B!isLive, Directory, Available, B!Swept, Sound, B!marksMode
<1>4. Sound'
  BY Zenon DEF BlockInv, B!aboutToMarkSlow, B!hasAnyNewlyAllocated,
     B!marksConveyLivenessDuringMarking, Versioned, Sound, B!marksMode
<1>5. Complete'
  BY Zenon DEF BlockInv, B!aboutToMarkSlow, Complete, Skipped, Available, B!Swept, B!isLive,
     B!hasAnyNewlyAllocated
<1>6. Retires'
  BY Zenon DEF BlockInv, B!aboutToMarkSlow, Retires, B!areMarksStale
<1>7. Destroys'
  <2>1. /\ bBits # {}
        /\ bBits' = bBits \cup {"markingNotEmpty"} /\ UNCHANGED <<bCell, bFreeList>>
    BY Zenon DEF B!aboutToMarkSlow, B!MayMark, B!isLive, B!areMarksStale, B!hasAnyNewlyAllocated,
       B!marksConveyLivenessDuringMarking, BlockInv, Directory, Versioned, Sound, B!marksMode
  <2>2. QED
    BY <2>1, Zenon DEF BlockInv, Destroys
<1>8. QED
  BY <1>1, <1>2, <1>3, <1>4, <1>5, <1>6, <1>7, Zenon DEF BlockInv

(* runEndPhase() preserves the invariant. *)
LEMMA RunEndPhasePreserves ==
    ASSUME B!MarkedBlockAssumption, UNCHANGED <<bNeedsDestruction, bForgets>>, BlockInv, B!runEndPhase
    PROVE  BlockInv'
<1> USE DEF B!blockVars, B!allocatorVars, B!nullVersion, B!initialVersion, B!Versions, B!Bits
<1>x. (B!Exact)' = B!Exact
  BY Zenon DEF B!Exact
<1> USE <1>x
<1>a. /\ bSpace' = [marking |-> bSpace.marking, newlyAllocated |-> bSpace.newlyAllocated + 1,
                   isMarking |-> FALSE, scope |-> "None"]
      /\ bSpace.newlyAllocated \in 2 .. LastVersion - 1 /\ LastVersion \in Nat
      /\ UNCHANGED <<bNewlyAllocated, bNewlyAllocatedVersion>>
  BY DEF B!MarkedBlockAssumption, B!runEndPhase, BlockInv, B!TypeOK, Versioned, B!nextVersion
<1>b. ~B!hasAnyNewlyAllocated' /\ (B!areMarksStale' <=> B!areMarksStale)
  BY <1>a DEF B!runEndPhase, B!hasAnyNewlyAllocated, B!areMarksStale, BlockInv, Versioned
<1>c. /\ ~bIsFreeListed' /\ bFreeList' = {} /\ "allocated" \notin bBits'
      /\ \A c \in BlockCells : bCell'[c] = "object" <=> bCell[c] = "object" /\ B!isMarked(c)
      /\ \A c \in bHeld' : B!isMarked(c) /\ c \in bHeld
      /\ UNCHANGED bMarks
  BY Zenon DEF B!runEndPhase, B!Flipped, B!Where, BlockInv, B!TypeOK, Directory
<1>d. "markingNotEmpty" \in bBits' <=> "markingNotEmpty" \in bBits
  BY Zenon DEF B!runEndPhase, B!Flipped, B!Where
<1>1. B!TypeOK'
  <2>1. bSpace.marking \in B!Versions /\ bSpace.newlyAllocated + 1 \in B!Versions
    <3>1. bSpace.newlyAllocated + 1 \in B!Versions
      BY <1>a
    <3>2. QED
      BY <3>1, Zenon DEF BlockInv, B!TypeOK
  <2>2. bSpace' \in [marking : B!Versions, newlyAllocated : B!Versions, isMarking : BOOLEAN,
                    scope : {"None", "Full", "Eden"}]
    <3> HIDE DEF B!Versions
    <3>1. QED
      BY <1>a, <2>1
  <2>3. bBits' \subseteq B!Bits
    BY Zenon DEF B!runEndPhase, B!Flipped, B!Where, BlockInv, B!TypeOK
  <2>4. bCell' \in [BlockCells -> {"garbage", "zapped", "object", "dead"}]
    BY Zenon DEF B!runEndPhase, BlockInv, B!TypeOK
  <2> HIDE DEF B!Versions, B!Bits
  <2>5. bAllocator' \in [block : {"none", "current", "lastActive"}, passed : BOOLEAN]
    BY DEF B!runEndPhase
  <2>6. QED
    BY <1>a, <1>c, <2>2, <2>3, <2>4, <2>5, Zenon DEF B!runEndPhase, BlockInv, B!TypeOK
<1>2. Versioned'
  <2>1. /\ bSpace'.marking = bSpace.marking /\ bSpace'.newlyAllocated = bSpace.newlyAllocated + 1
        /\ bSpace'.scope = "None" /\ bSpace'.isMarking = FALSE
    BY <1>a
  <2>2. bNewlyAllocatedVersion' <= bSpace'.newlyAllocated /\ bSpace'.newlyAllocated # B!nullVersion
    BY <1>a, <2>1 DEF BlockInv, B!TypeOK, Versioned
  <2>3. QED
    BY <1>b, <1>d, <2>1, <2>2, Zenon DEF B!runEndPhase, BlockInv, Versioned
<1>3. Directory'
  <2>1. "live" \in bBits' <=> "live" \in bBits
    BY Zenon DEF B!runEndPhase, B!Flipped, B!Where
  <2>2. bBits' # {} => "live" \in bBits
    BY Zenon DEF B!runEndPhase, B!Flipped, B!Where, BlockInv, Directory
  <2>3. "empty" \in bBits' => "markingNotEmpty" \notin bBits'
    BY <1>d, Zenon DEF B!runEndPhase, B!Flipped, B!Where
  <2>4. bAllocator'.block = "none"
    BY DEF B!runEndPhase
  <2>5. bBits' = {} => bBits = {}
    BY <2>1, Zenon DEF BlockInv, Directory
  <2>6. bBits = {} => \A c \in BlockCells : bCell'[c] = "garbage"
    BY DEF B!runEndPhase, BlockInv, Directory
  <2>7. QED
    BY <1>a, <1>b, <1>c, <2>1, <2>2, <2>3, <2>4, <2>5, <2>6, Zenon DEF B!runEndPhase, BlockInv, Directory
<1>4. Sound'
  <2>1. "empty" \in bBits' => B!areMarksStale
    BY Zenon DEF B!runEndPhase, B!Flipped, B!Where, BlockInv, Versioned
  <2>2. bNeedsDestruction /\ bBits' # {} => "destructible" \in bBits'
    BY Zenon DEF B!runEndPhase, B!Flipped, B!Where, BlockInv, Directory
  <2>3. bBits' = {} => \A c \in BlockCells : bCell'[c] = "garbage"
    BY DEF B!runEndPhase, B!Flipped, BlockInv, Directory
  <2>4. QED
    BY <1>a, <1>b, <1>c, <2>1, <2>2, <2>3, Zenon DEF BlockInv, Sound, B!isMarked, B!marksMode
<1>5. Complete'
  BY DEF BlockInv, B!runEndPhase, B!nextVersion, B!isMarked, B!areMarksStale, B!TypeOK,
     Versioned, Complete, B!isLive, B!hasAnyNewlyAllocated
<1>6. Retires'
  <2>1. "canAllocateButNotEmpty" \in bBits' => "markingRetired" \notin bBits /\ ~B!areMarksStale
    BY Zenon DEF B!runEndPhase, B!Flipped, B!Where, BlockInv, Versioned
  <2>2. "markingRetired" \in bBits' <=> "markingRetired" \in bBits
    BY Zenon DEF B!runEndPhase, B!Flipped, B!Where
  <2>3. bMarks \subseteq BlockCells
    BY Zenon DEF BlockInv, B!TypeOK
  <2>4. B!Exact' <=> B!Exact
    BY Zenon DEF B!Exact
  <2>5. QED
    BY <1>b, <1>c, <2>1, <2>2, <2>3, Zenon DEF BlockInv, Retires, B!isMarked
<1>7. Destroys'
  <2>1. /\ "live" \in bBits' <=> "live" \in bBits
        /\ bNeedsDestruction /\ "live" \in bBits => "destructible" \in bBits'
        /\ bBits = {} => bBits' = {}
    BY Zenon DEF B!runEndPhase, B!Flipped, B!Where
  <2>2. \A c \in BlockCells :
           bCell'[c] = IF bCell[c] = "object" /\ ~B!isMarked(c)
                       THEN IF bNeedsDestruction THEN "dead" ELSE "garbage"
                       ELSE bCell[c]
    BY Zenon DEF B!runEndPhase
  <2>3. bBits = {} => \A c \in BlockCells : bCell[c] = "garbage"
    BY Zenon DEF BlockInv, Directory
  <2>4. bFreeList = {}
    BY Zenon DEF B!runEndPhase, BlockInv, B!TypeOK, Directory
  <2>5. ASSUME NEW c \in BlockCells, bCell'[c] = "dead"
        PROVE  bNeedsDestruction /\ "destructible" \in bBits'
    BY <2>1, <2>2, <2>3, <2>5, Zenon DEF BlockInv, Destroys, Directory
  <2>6. ASSUME NEW c \in BlockCells, bNeedsDestruction, bCell'[c] = "garbage"
        PROVE  bBits' = {}
    BY <2>1, <2>2, <2>4, <2>6, Zenon DEF BlockInv, Destroys
  <2>7. QED
    BY <2>5, <2>6, Zenon DEF Destroys
<1>8. QED
  BY <1>1, <1>2, <1>3, <1>4, <1>5, <1>6, <1>7, Zenon DEF BlockInv

(* testAndSetMarked() preserves the invariant. *)
LEMMA TestAndSetMarkedPreserves ==
    ASSUME B!MarkedBlockAssumption, UNCHANGED <<bNeedsDestruction, bForgets>>, BlockInv, NEW c \in BlockCells, B!testAndSetMarked(c)
    PROVE  BlockInv'
<1> USE DEF B!blockVars, B!allocatorVars, B!nullVersion, B!initialVersion, B!Versions, B!Bits
<1>x. (B!Exact)' = B!Exact
  BY Zenon DEF B!Exact
<1> USE <1>x
<1>a. /\ bMarks' = bMarks \cup {c} /\ (bBits' = bBits \/ bBits' = bBits \cup {"markingRetired"})
      /\ UNCHANGED <<bSpace, bWorld, bMarkingVersion, bNewlyAllocated, bNewlyAllocatedVersion, bIsFreeListed,
                     bAllocator, bFreeList, bCell, bHeld>>
  BY Zenon DEF B!testAndSetMarked
<1>1. B!TypeOK'
  <2> HIDE DEF B!Versions
  <2>1. bMarks' \subseteq BlockCells /\ bBits' \subseteq B!Bits
    BY <1>a, Zenon DEF BlockInv, B!TypeOK
  <2>2. QED
    BY <1>a, <2>1, Zenon DEF BlockInv, B!TypeOK
<1>2. Versioned'
  BY Zenon DEF BlockInv, B!testAndSetMarked, Versioned, B!areMarksStale
<1>3. Directory'
  BY Zenon DEF BlockInv, B!testAndSetMarked, B!areMarksStale, B!hasAnyNewlyAllocated, Versioned,
     Directory, Available, B!Swept
<1>4. Sound'
  BY DEF BlockInv, B!testAndSetMarked, B!MayMark, B!isLive, B!hasAnyNewlyAllocated, Sound,
     B!marksMode
<1>5. Complete'
  BY Zenon DEF BlockInv, B!testAndSetMarked, Complete, Skipped, Available, B!Swept, B!isLive,
     B!areMarksStale, B!hasAnyNewlyAllocated
<1>6. Retires'
  <2>1. "markingRetired" \notin bBits' => bForgets \/ Cardinality(bMarks') < RetireAt
    BY Counting, Zenon DEF B!testAndSetMarked
  <2>2. Cardinality(BlockCells) \in Nat
    BY FS_CardinalityType, Counting, Zenon DEF B!MarkedBlockAssumption
  <2>3. B!Exact /\ "markingRetired" \notin bBits' => bMarks' # BlockCells
    BY <2>1, <2>2, Counting DEF B!Exact
  <2>4. QED
    BY <1>a, <2>3 DEF BlockInv, Retires, B!areMarksStale
<1>7. Destroys'
  <2>1. bBits # {}
    BY Zenon DEF B!testAndSetMarked, BlockInv, Versioned
  <2>2. QED
    BY <1>a, <2>1, Zenon DEF BlockInv, Destroys
<1>8. QED
  BY <1>1, <1>2, <1>3, <1>4, <1>5, <1>6, <1>7, Zenon DEF BlockInv

-----------------------------------------------------------------------------
(* The invariant holds in every state of a block, up to the last version. *)
THEOREM BlockInvariant == B!Spec => []BlockInv
<1> USE BlockAssumption
<1>1. B!Init => BlockInv
  <2> SUFFICES ASSUME B!Init PROVE BlockInv
    BY Zenon
  <2> USE DEF B!nullVersion, B!initialVersion
  <2>1. B!TypeOK
    <3>1. B!nullVersion \in B!Versions /\ B!initialVersion \in B!Versions
      BY DEF B!MarkedBlockAssumption, B!Versions
    <3> HIDE DEF B!nullVersion, B!initialVersion
    <3>2. QED
      BY <3>1, Zenon DEF B!Init, B!TypeOK
  <2>2. Versioned /\ Directory
    BY DEF B!Init, Versioned, Directory, B!areMarksStale, B!hasAnyNewlyAllocated
  <2>3. Sound /\ Destroys /\ Complete /\ Retires
    BY DEF B!Init, Sound, Destroys, Complete, Retires, B!areMarksStale
  <2>4. QED
    BY <2>1, <2>2, <2>3, Zenon DEF BlockInv
<1>2. BlockInv /\ [B!Next]_(B!vars) => BlockInv'
  <2> SUFFICES ASSUME BlockInv, [B!Next]_(B!vars) PROVE BlockInv'
    BY Zenon
  <2>1. ASSUME NEW c \in BlockCells,
               B!allocate(c) \/ B!tryAllocateIn(c) \/ B!addBlock(c) \/ B!forget(c) \/ B!testAndSetMarked(c),
               UNCHANGED <<bNeedsDestruction, bForgets>>
        PROVE  BlockInv'
    BY <2>1, AllocatePreserves, TryAllocateInPreserves, AddBlockPreserves, ForgetPreserves,
       TestAndSetMarkedPreserves, Zenon
  <2>2. CASE /\ B!didConsumeFreeList \/ B!tryAllocateInFull \/ B!sweepNextBlock \/ B!shrink
             /\ UNCHANGED <<bNeedsDestruction, bForgets>>
    BY <2>2, DidConsumeFreeListPreserves, TryAllocateInFullPreserves, SweepNextBlockPreserves,
       ShrinkPreserves, Zenon
  <2>3. CASE /\ B!stopAllocating \/ B!resumeAllocating \/ B!beginMarking \/ B!aboutToMarkSlow \/ B!runEndPhase
             /\ UNCHANGED <<bNeedsDestruction, bForgets>>
    BY <2>3, StopAllocatingPreserves, ResumeAllocatingPreserves, BeginMarkingPreserves,
       AboutToMarkSlowPreserves, RunEndPhasePreserves, Zenon
  <2>4. ASSUME NEW c \in BlockCells, B!stealEmptyBlock(c), bForgets' = bForgets
        PROVE  BlockInv'
    BY <2>4, StealEmptyBlockPreserves, Zenon
  <2>5. CASE UNCHANGED B!vars
    BY <2>5 DEF B!vars, B!Exact, B!blockVars, B!allocatorVars, BlockInv, B!TypeOK,
       Versioned, Directory, Sound, Destroys, Complete, Skipped,
       Retires, B!isLive, B!marksMode, B!areMarksStale, B!marksConveyLivenessDuringMarking,
       B!hasAnyNewlyAllocated
  <2>6. QED
    BY <2>1, <2>2, <2>3, <2>4, <2>5, Zenon DEF B!Next
<1>3. QED
  BY <1>1, <1>2, PTL DEF B!Spec

(* A conservative scan, and whoever else asks isLive() in a stopped world,  *)
(* never gets a cell whose object an earlier collection found dead; the     *)
(* mutator is never given a cell that holds an object, nor one whose        *)
(* destructor has not run; a destructor runs only on a dead object, whatever *)
(* was in the memory before; a block that shrink(), sweepNextBlock() or       *)
(* another directory takes for empty holds no object; and the assertions of *)
(* aboutToMarkSlow(), sweep() and didConsumeFreeList() hold.  With an exact *)
(* mark count the scan finds every cell that the mutator holds.             *)
THEOREM BlocksAreSound == B!Spec => []BlockIsSound
<1>1. BlockInv => B!LiveIsSound
  BY Zenon DEF BlockInv, Sound, B!LiveIsSound, B!isLive, B!marksMode
<1>2. BlockInv => B!FreeListIsDead
  BY Zenon DEF BlockInv, B!TypeOK, Directory, Available, B!Swept, Sound, Destroys, B!FreeListIsDead
<1>3. BlockInv => B!EmptyIsEmpty
  BY Zenon DEF BlockInv, Sound, B!EmptyIsEmpty
<1>4. BlockInv => B!AssertsHold
  <2> SUFFICES ASSUME BlockInv PROVE B!AssertsHold
    BY Zenon
  <2>1. ASSUME bSpace.isMarking, B!areMarksStale, "allocated" \notin bBits,
               B!marksConveyLivenessDuringMarking, B!hasAnyNewlyAllocated,
               NEW c \in bMarks
        PROVE  c \in bNewlyAllocated
    BY <2>1, Zenon DEF BlockInv, B!TypeOK, Directory, Sound, B!marksMode, Complete, Skipped,
       B!isLive
  <2>2. QED
    BY <2>1 DEF BlockInv, B!TypeOK, Directory, Available, B!Swept, Sound, B!AssertsHold
<1>5. BlockInv /\ B!Exact => B!ReachableIsLive
  BY Zenon DEF BlockInv, B!TypeOK, Directory, Sound, Complete, Skipped, B!ReachableIsLive
<1>6. BlockInv => B!DestroysOnlyObjects
  <2> SUFFICES ASSUME BlockInv, B!mustDestroy, NEW c \in B!SweepsAway
               PROVE  bCell[c] \in {"dead", "zapped"}
    BY Zenon DEF B!DestroysOnlyObjects
  <2>1. /\ ~bIsFreeListed /\ bFreeList = {} /\ bBits # {} /\ "allocated" \notin bBits
        /\ ~Skipped /\ bNeedsDestruction
    <3>1. bNeedsDestruction /\ "destructible" \in bBits
      BY Zenon DEF B!mustDestroy
    <3>2. QED
      BY <3>1, MayBeSwept, Zenon DEF BlockInv, B!TypeOK
  <2>2. c \in BlockCells /\ bCell[c] # "object"
    BY <2>1, SweepIsRight, Zenon
  <2>3. QED
    BY <2>1, <2>2, Zenon DEF BlockInv, B!TypeOK, Destroys
<1>7. BlockInv => BlockIsSound
  BY <1>1, <1>2, <1>3, <1>4, <1>5, <1>6, Zenon DEF BlockInv, BlockIsSound
<1>8. QED
  BY <1>7, BlockInvariant, PTL
=============================================================================

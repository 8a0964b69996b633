--------------------------- MODULE VisitorProofs ---------------------------
(***************************************************************************)
(* Safety of the visitors of a collection, for any number of helpers and   *)
(* cells: when marking is over, and what the visitors believe about the    *)
(* world.  The end of marking follows from what the counters of the active *)
(* and of the waiting visitors count, and from who may hold cells.  Then   *)
(* the deferral of collections, for any number of nested scopes: it        *)
(* forgets none and lets none run where it must not.                       *)
(***************************************************************************)
EXTENDS Integers, Sequences, MCMarkers, MCDeferral, FiniteSetTheorems, TLAPS

-----------------------------------------------------------------------------
(* The periphery *)

\* While the periphery is brought up to date the conducting thread does not drain;
\* otherwise its visitor's flag, and the value it is about to write there, say
\* whether the world is stopped.  The flags of the other visitors stay clear.
PeripheryInv ==
    /\ P!TypeOK
    /\ Collector \in pRegistered
    /\ pConductor \in {"stopping", "trying", "locking"} <=> pTodo # {}
    /\ pTodo # {} => pDrain[Collector] = "away"
    /\ pWorldIsStopped <=> pConductor \in {"stopping", "stopped"}
    /\ pDrain[Collector] = "write" => (pRead[Collector] <=> pWorldIsStopped)
    /\ Collector \notin pTodo => (pMutatorIsStopped[Collector] <=> pWorldIsStopped)
    /\ ~pOptimizeParallel => \A v \in Helpers : ~pMutatorIsStopped[v] /\ ~pRead[v]

(* A step of a visitor preserves PeripheryInv. *)
LEMMA PeripheryVisits ==
    ASSUME PeripheryInv, NEW v \in P!Visitors, P!makeVisitor(v) \/ P!visits(v)
    PROVE  PeripheryInv'
<1> USE DEF PeripheryInv, P!TypeOK, P!Visitors, P!conducting
<1>1. CASE P!makeVisitor(v)
  BY <1>1, Zenon DEF P!makeVisitor
<1>2. CASE P!beginDrain(v)
  BY <1>2, Zenon DEF P!beginDrain, P!MayDrain
<1>3. CASE P!lock(v)
  BY <1>3, Zenon DEF P!lock
<1>4. CASE P!readWorldIsStopped(v)
  BY <1>4, MarkersAssumption, Zenon DEF P!readWorldIsStopped, P!m_canOptimizeForStoppedMutator,
     P!PeripheryAssumption
<1>6. CASE P!updateMutatorIsStopped(v)
  <2>1. pMutatorIsStopped' = [pMutatorIsStopped EXCEPT ![v] = pRead[v]]
        /\ pRead' = [pRead EXCEPT ![v] = FALSE]
    BY <1>6, Zenon DEF P!updateMutatorIsStopped
  <2>2. \A w \in P!Visitors : /\ pMutatorIsStopped'[w] <=> IF w = v THEN pRead[v] ELSE pMutatorIsStopped[w]
                             /\ pRead'[w] <=> w # v /\ pRead[w]
    BY <2>1, Zenon
  <2>3. P!TypeOK'
    BY <1>6, Zenon DEF P!updateMutatorIsStopped
  <2>4. QED
    BY <1>6, <2>2, <2>3, Zenon DEF P!updateMutatorIsStopped
<1>7. CASE P!safepoint(v)
  BY <1>7, Zenon DEF P!safepoint, P!Parked
<1>8. CASE P!endDrain(v)
  BY <1>8, Zenon DEF P!endDrain
<1>9. QED
  BY <1>1, <1>2, <1>3, <1>4, <1>6, <1>7, <1>8, Zenon DEF P!visits, P!Drains

(* A step of the conducting thread preserves PeripheryInv. *)
LEMMA PeripheryConducts ==
    ASSUME PeripheryInv, P!conducts
    PROVE  PeripheryInv'
<1> USE DEF PeripheryInv, P!TypeOK, P!Visitors
<1>1. CASE P!stopThePeriphery
  <2>1. pStops' \in 0 .. MaxStops
    BY <1>1, MarkersAssumption DEF P!stopThePeriphery, P!PeripheryAssumption
  <2>2. QED
    BY <1>1, <2>1, Zenon DEF P!stopThePeriphery, P!Conducts
<1>2. CASE P!tellStopped
  <2>1. PICK v \in pTodo :
               /\ pMutatorIsStopped' = [pMutatorIsStopped EXCEPT ![v] = P!m_canOptimizeForStoppedMutator(v)]
               /\ pTodo' = pTodo \ {v}
    BY <1>2, Zenon DEF P!tellStopped
  <2>2. P!m_canOptimizeForStoppedMutator(v) <=> (v = Collector \/ pOptimizeParallel)
    BY Zenon DEF P!m_canOptimizeForStoppedMutator
  <2>3. P!m_canOptimizeForStoppedMutator(v) \in BOOLEAN
    BY Zenon DEF P!m_canOptimizeForStoppedMutator
  <2>4. \A w \in P!Visitors : pMutatorIsStopped'[w] <=> IF w = v THEN (v = Collector \/ pOptimizeParallel) ELSE pMutatorIsStopped[w]
    BY <2>1, <2>2, Zenon
  <2>5. P!TypeOK'
    BY <1>2, <2>1, <2>3, Zenon DEF P!tellStopped
  <2>6. QED
    BY <1>2, <2>1, <2>4, <2>5, MarkersAssumption DEF P!tellStopped, P!PeripheryAssumption
<1>4. CASE P!resumeThePeriphery
  BY <1>4, Zenon DEF P!resumeThePeriphery, P!Conducts
<1>5. CASE P!tellResumed
  <2>1. PICK v \in pTodo :
               /\ pMutatorIsStopped' = [pMutatorIsStopped EXCEPT ![v] = FALSE]
               /\ pTodo' = pTodo \ {v}
    BY <1>5, Zenon DEF P!tellResumed
  <2>2. \A w \in P!Visitors : pMutatorIsStopped'[w] <=> w # v /\ pMutatorIsStopped[w]
    BY <2>1, Zenon
  <2>3. P!TypeOK'
    BY <1>5, <2>1, Zenon DEF P!tellResumed
  <2>4. QED
    BY <1>5, <2>1, <2>2, <2>3, Zenon DEF P!tellResumed
<1>6. CASE P!stopTrying
  BY <1>6, Zenon DEF P!stopTrying
<1>7. CASE P!updateUnderLock
  <2>1. PICK v \in pTodo :
               /\ pMutatorIsStopped' = [pMutatorIsStopped EXCEPT ![v] = FALSE]
               /\ pTodo' = pTodo \ {v}
    BY <1>7, Zenon DEF P!updateUnderLock
  <2>2. \A w \in P!Visitors : pMutatorIsStopped'[w] <=> w # v /\ pMutatorIsStopped[w]
    BY <2>1, Zenon
  <2>3. P!TypeOK'
    BY <1>7, <2>1 DEF P!updateUnderLock
  <2>4. QED
    BY <1>7, <2>1, <2>2, <2>3, Zenon DEF P!updateUnderLock
<1>8. QED
  BY <1>1, <1>2, <1>4, <1>5, <1>6, <1>7, Zenon DEF P!conducts

(* Once resumeThePeriphery() has returned, no visitor skips the race checks, *)
(* however many visitors there are and wherever in drain() they were; and    *)
(* the collector's visitor does skip them in a stopped world.                *)
THEOREM ResumedIsBelieved == P!Spec => []BelieversAreRight
<1>1. P!Init => PeripheryInv
  <2> SUFFICES ASSUME P!Init PROVE PeripheryInv
    BY Zenon
  <2>1. P!Init
    BY Zenon DEF P!Init, P!Visitors
  <2>2. pStops \in 0 .. MaxStops
    BY <2>1, MarkersAssumption DEF P!Init, P!PeripheryAssumption
  <2>3. QED
    BY <2>1, <2>2, Zenon DEF P!Init, PeripheryInv, P!TypeOK, P!Visitors
<1>2. PeripheryInv /\ [P!Next]_(P!vars) => PeripheryInv'
  <2> SUFFICES ASSUME PeripheryInv, [P!Next]_(P!vars) PROVE PeripheryInv'
    BY Zenon
  <2>1. CASE P!Next
    BY <2>1, PeripheryVisits, PeripheryConducts, Zenon DEF P!Next
  <2>3. CASE UNCHANGED pVars
    BY <2>3, Zenon DEF pVars, PeripheryInv, P!TypeOK
  <2>4. QED
    BY <2>1, <2>3, Zenon DEF P!vars, pVars
<1>3. PeripheryInv => BelieversAreRight
  BY Zenon DEF PeripheryInv, BelieversAreRight, P!BelieversAreRight, P!StoppedIsNoticed, P!TypeOK,
     P!Visitors
<1>4. QED
  BY <1>1, <1>2, <1>3, PTL DEF P!Spec

-----------------------------------------------------------------------------
(* Parallel marking *)

\* The visitors that m_numberOfActiveParallelMarkers counts, and those that are
\* somewhere in a wait of drainFromShared.
Active ==
    {v \in Helpers \cup {Collector} :
        \/ mPc[v] = "scan" \/ (mPc[v] = "task" /\ v # Collector)
        \/ mPc[v] = "lock" /\ mIsActive[v]}
Waiting == {v \in Helpers \cup {Collector} : mPc[v] \in {"asleep", "awake"}}

\* Where each visitor can be, and the counters it works with.
MarkingTypes ==
    /\ mUnmarked \in Nat /\ mShared \in Nat /\ mOwn \in [M!Visitors -> Nat] /\ mWaiting \in Nat
    /\ mVisited \in BOOLEAN
    /\ mIsActive \in [M!Visitors -> BOOLEAN] /\ DOMAIN mPc = M!Visitors
    /\ mPc[Collector] \in {"out", "lock", "asleep", "awake", "scan", "task", "fixpoint", "endTask",
                           "waitTask", "drain", "passive", "stop", "finish"}
    /\ mPc[Mutator] \in {"out", "scan", "drain"}
    /\ \A v \in Helpers : mPc[v] \in {"out", "lock", "asleep", "awake", "scan", "task"}

\* The counters: a return from the middle of drainFromShared leaves the second too large.
Counted == mActive = Cardinality(Active) /\ Cardinality(Waiting) <= mWaiting

\* Who holds cells: a helper only while it is active, the mutator only in an
\* increment.
Held ==
    /\ \A v \in Helpers : mOwn[v] > 0 => v \in Active
    /\ mPc[Mutator] = "out" => mOwn[Mutator] = 0

\* The mutator runs its increments in the concurrent phase, in which the collector drains
\* or waits for termination.
ConcurrentLabels == {"drain", "lock", "asleep", "awake", "scan", "passive", "stop"}
World ==
    /\ mWorldRuns \in BOOLEAN
    /\ mPc[Mutator] # "out" => mWorldRuns
    /\ mWorldRuns => mPc[Collector] \in ConcurrentLabels

\* Nothing is marked, and nothing is left to be scanned.
Idle ==
    /\ mShared = 0 /\ \A v \in M!Visitors : mOwn[v] = 0
    /\ \A v \in Helpers : mPc[v] # "scan"

\* The task runs between two terminations unless it found something.
Tasks ==
    /\ mBonusTask => mPc[Collector] \in {"task", "endTask"}
    /\ \A v \in Helpers : mPc[v] = "task" => mPc[Collector] \in {"task", "endTask", "waitTask"}
    /\ mPc[Collector] \in {"task", "endTask", "waitTask"} /\ ~mVisited => Idle
    /\ mShouldExit <=> mPc[Collector] \in {"finish", "out"}
    /\ mShouldExit => Idle

\* The collector waits for a visitor that is active.
Sleeps == mPc[Collector] = "asleep" => mShared = 0 /\ Active # {}

MarkingInv == MarkingTypes /\ Counted /\ Held /\ Tasks /\ Sleeps

(* Sets of visitors are finite. *)
LEMMA VisitorsAreFinite ==
    ASSUME NEW S, S \subseteq Helpers \cup {Collector}
    PROVE  IsFiniteSet(S) /\ Cardinality(S) \in Nat /\ (Cardinality(S) = 0 <=> S = {})
<1>1. IsFiniteSet(Helpers \cup {Collector})
  <2>1. IsFiniteSet(Helpers)
    BY MarkersAssumption, Zenon DEF M!ParallelMarkingAssumption, M!IsFiniteSet, IsFiniteSet
  <2>2. QED
    BY <2>1, FS_AddElement, Zenon
<1>2. IsFiniteSet(S)
  BY <1>1, FS_Subset, Zenon
<1>3. QED
  BY <1>2, FS_CardinalityType, FS_EmptySet, Zenon

(* One visitor joins or leaves a set of visitors. *)
LEMMA Recount ==
    ASSUME NEW S, S \subseteq Helpers \cup {Collector}, NEW T, T \subseteq Helpers \cup {Collector},
           NEW v, S \ {v} = T \ {v}
    PROVE  Cardinality(T) + (IF v \in S THEN 1 ELSE 0) = Cardinality(S) + (IF v \in T THEN 1 ELSE 0)
<1>1. IsFiniteSet(S) /\ IsFiniteSet(T) /\ Cardinality(S) \in Nat /\ Cardinality(T) \in Nat
  BY VisitorsAreFinite, Zenon
<1>2. Cardinality(S \ {v}) = IF v \in S THEN Cardinality(S) - 1 ELSE Cardinality(S)
  BY <1>1, FS_RemoveElement, Zenon
<1>3. Cardinality(T \ {v}) = IF v \in T THEN Cardinality(T) - 1 ELSE Cardinality(T)
  BY <1>1, FS_RemoveElement, Zenon
<1>4. QED
  BY <1>1, <1>2, <1>3

(* A counter that is too large stays so. *)
LEMMA CountGrows ==
    ASSUME NEW c \in Nat, NEW d \in Nat, NEW w \in Nat, NEW x \in Nat, NEW a \in Nat, NEW b \in Nat,
           d + a = c + b, x + a >= w + b, c <= w
    PROVE  d <= x
OBVIOUS

\* The visitor v goes to label, and some of those asleep are notified.
Moves(v, label) ==
    /\ DOMAIN mPc' = M!Visitors /\ mPc'[v] = label
    /\ \A w \in M!Visitors : w # v => mPc'[w] = mPc[w] \/ (mPc[w] = "asleep" /\ mPc'[w] = "awake")

(* A goto, with or without notifyAll before it. *)
LEMMA GotoMoves ==
    ASSUME MarkingTypes, NEW v \in M!Visitors, NEW label,
           mPc' \in {M!GotoOf(mPc, v, label), M!GotoOf(M!Notified, v, label)}
    PROVE  Moves(v, label)
BY Zenon DEF MarkingTypes, Moves, M!GotoOf, M!Notified

(* After notifyAll nobody else is asleep. *)
LEMMA GotoWakes ==
    ASSUME NEW v \in M!Visitors, NEW label, mPc' = M!GotoOf(M!Notified, v, label)
    PROVE  \A w \in M!Visitors : w # v => mPc'[w] # "asleep"
BY Zenon DEF M!GotoOf, M!Notified

(* A step that leaves the program counters alone, or only notifies. *)
LEMMA StayMoves ==
    ASSUME MarkingTypes, NEW v \in M!Visitors,
           UNCHANGED mPc \/ (mPc' = M!Notified /\ mPc[v] # "asleep")
    PROVE  Moves(v, mPc[v])
BY Zenon DEF MarkingTypes, Moves, M!Notified

(* The others stay active, or waiting, when one visitor moves. *)
LEMMA OthersStay ==
    ASSUME NEW v \in M!Visitors, NEW label, Moves(v, label), \A w \in M!Visitors : w # v => mIsActive'[w] = mIsActive[w]
    PROVE  Active' \ {v} = Active \ {v} /\ Waiting' \ {v} = Waiting \ {v}
BY Zenon DEF Moves, Active, Waiting, M!Visitors

\* A visitor that goes from the lock to scan has a cell.
Finds == \A v \in Helpers \cup {Collector} : mPc[v] \in {"lock", "awake"} /\ mPc'[v] = "scan" => mOwn'[v] > 0

(* What a step of one visitor has to leave right. *)
LEMMA MarkingStep ==
    ASSUME MarkingInv, NEW v \in M!Visitors, NEW label, Moves(v, label),
           mIsActive' \in [M!Visitors -> BOOLEAN], \A w \in M!Visitors : w # v => mIsActive'[w] = mIsActive[w],
           mOwn' \in [M!Visitors -> Nat], \A w \in M!Visitors : w # v => mOwn'[w] = mOwn[w],
           mUnmarked' \in Nat, mShared' \in Nat, mWaiting' \in Nat, mVisited' \in BOOLEAN,
           v = Collector => label \in {"out", "lock", "asleep", "awake", "scan", "task", "fixpoint", "endTask",
                                       "waitTask", "drain", "passive", "stop", "finish"},
           v = Mutator => label \in {"out", "scan", "drain"},
           v \in Helpers => label \in {"out", "lock", "asleep", "awake", "scan", "task"},
           mActive' + (IF v \in Active THEN 1 ELSE 0) = mActive + (IF v \in Active' THEN 1 ELSE 0), mActive' \in Int,
           mWaiting' + (IF v \in Waiting THEN 1 ELSE 0) >= mWaiting + (IF v \in Waiting' THEN 1 ELSE 0),
           v \in Helpers /\ mOwn'[v] > 0 => v \in Active',
           v = Mutator /\ label = "out" => mOwn'[v] = 0,
           v # Mutator /\ mPc[v] \in {"lock", "awake"} /\ label = "scan" => mOwn'[v] > 0,
           Tasks', Sleeps'
    PROVE  MarkingInv' /\ Finds
<1>1. Active' \ {v} = Active \ {v} /\ Waiting' \ {v} = Waiting \ {v}
  BY OthersStay, Zenon
<1>2. /\ Active \subseteq Helpers \cup {Collector} /\ Active' \subseteq Helpers \cup {Collector}
      /\ Waiting \subseteq Helpers \cup {Collector} /\ Waiting' \subseteq Helpers \cup {Collector}
  BY Zenon DEF Active, Waiting
<1>3. /\ Collector # Mutator /\ Collector \notin Helpers /\ Mutator \notin Helpers
      /\ M!Visitors = Helpers \cup {Collector, Mutator}
  BY MarkersAssumption, Zenon DEF M!ParallelMarkingAssumption, M!Visitors
<1>4. MarkingTypes'
  <2>1. mPc'[Collector] \in {"out", "lock", "asleep", "awake", "scan", "task", "fixpoint", "endTask",
                           "waitTask", "drain", "passive", "stop", "finish"}
    BY <1>3, Zenon DEF MarkingInv, MarkingTypes, Moves
  <2>2. mPc'[Mutator] \in {"out", "scan", "drain"}
    BY <1>3, Zenon DEF MarkingInv, MarkingTypes, Moves
  <2>3. \A w \in Helpers : mPc'[w] \in {"out", "lock", "asleep", "awake", "scan", "task"}
    BY <1>3, Zenon DEF MarkingInv, MarkingTypes, Moves
  <2>4. QED
    BY <2>1, <2>2, <2>3, Zenon DEF MarkingTypes, Moves
<1>5. Counted'
  <2>1. Cardinality(Active') + (IF v \in Active THEN 1 ELSE 0) = Cardinality(Active) + (IF v \in Active' THEN 1 ELSE 0)
    BY <1>1, <1>2, Recount, Zenon
  <2>2. Cardinality(Waiting') + (IF v \in Waiting THEN 1 ELSE 0) = Cardinality(Waiting) + (IF v \in Waiting' THEN 1 ELSE 0)
    BY <1>1, <1>2, Recount, Zenon
  <2>3. /\ Cardinality(Active) \in Nat /\ Cardinality(Active') \in Nat
        /\ Cardinality(Waiting) \in Nat /\ Cardinality(Waiting') \in Nat
    BY <1>2, VisitorsAreFinite, Zenon
  <2>4. mActive' = Cardinality(Active')
    BY <2>1, <2>3 DEF MarkingInv, Counted
  <2>5. Cardinality(Waiting') <= mWaiting'
    <3> DEFINE a == IF v \in Waiting THEN 1 ELSE 0
               b == IF v \in Waiting' THEN 1 ELSE 0
    <3>1. mWaiting \in Nat /\ Cardinality(Waiting) <= mWaiting /\ mWaiting' \in Nat
      BY Zenon DEF MarkingInv, MarkingTypes, Counted
    <3>2. a \in Nat /\ b \in Nat /\ mWaiting' + a >= mWaiting + b
          /\ Cardinality(Waiting') + a = Cardinality(Waiting) + b
      BY <2>2, Zenon
    <3> HIDE DEF a, b
    <3>3. QED
      BY <2>3, <3>1, <3>2, CountGrows, Zenon
  <2>6. QED
    BY <2>4, <2>5, Zenon DEF Counted
<1>6. Held'
  <2>1. \A w \in Helpers : mOwn'[w] > 0 => w \in Active'
    BY <1>1, <1>3, Zenon DEF MarkingInv, Held
  <2>2. mPc'[Mutator] = "out" => mOwn'[Mutator] = 0
    BY <1>3, Zenon DEF MarkingInv, MarkingTypes, Held, Moves
  <2>3. QED
    BY <2>1, <2>2, Zenon DEF Held
<1>7. QED
  BY <1>3, <1>4, <1>5, <1>6, Zenon DEF MarkingInv, Finds, Moves

(* A step of a visitor other than the collector's keeps what holds of the task, *)
(* and the collector's sleep.                                                 *)
LEMMA OtherStep ==
    ASSUME MarkingInv, NEW v \in M!Visitors \ {Collector}, NEW label, Moves(v, label),
           \A w \in M!Visitors : w # v => mOwn'[w] = mOwn[w],
           \A w \in M!Visitors : w # v => mIsActive'[w] = mIsActive[w],
           mBonusTask' => mBonusTask, UNCHANGED mShouldExit, mVisited \in BOOLEAN, mVisited => mVisited',
           v \in Helpers /\ label = "task" => mPc[Collector] \in {"task", "endTask", "waitTask"},
           Idle => (mVisited' /\ ~mShouldExit) \/ (mShared' = 0 /\ mOwn'[v] = 0 /\ (v \in Helpers => label # "scan")),
           mPc'[Collector] = "asleep" => mShared' = 0 /\ (v \in Active' \/ v \notin Active \/ Active # {v})
    PROVE  Tasks' /\ Sleeps'
<1>1. Active' \ {v} = Active \ {v}
  BY OthersStay, Zenon
<1>2. /\ Collector # Mutator /\ Collector \notin Helpers /\ Mutator \notin Helpers
      /\ M!Visitors = Helpers \cup {Collector, Mutator}
  BY MarkersAssumption, Zenon DEF M!ParallelMarkingAssumption, M!Visitors
<1>3. mPc'[Collector] = mPc[Collector] \/ (mPc[Collector] = "asleep" /\ mPc'[Collector] = "awake")
  BY <1>2, Zenon DEF Moves
<1>4. Sleeps'
  <2> SUFFICES ASSUME mPc'[Collector] = "asleep" PROVE mShared' = 0 /\ Active' # {}
    BY Zenon DEF Sleeps
  <2>1. Active # {}
    BY <1>3, Zenon DEF MarkingInv, Sleeps
  <2>2. QED
    BY <1>1, <2>1, Zenon
<1>5. Idle /\ (mVisited' => mShouldExit) => Idle'
  <2> SUFFICES ASSUME Idle, mVisited' => mShouldExit PROVE Idle'
    BY Zenon
  <2>1. mShared' = 0 /\ mOwn'[v] = 0 /\ (v \in Helpers => label # "scan")
    BY Zenon
  <2>2. \A w \in M!Visitors : mOwn'[w] = 0
    BY <2>1, Zenon DEF Idle
  <2>3. \A w \in Helpers : mPc'[w] # "scan"
    BY <1>2, <2>1, Zenon DEF Idle, Moves
  <2>4. QED
    BY <2>1, <2>2, <2>3, Zenon DEF Idle
<1>6. Tasks'
  <2>1. mBonusTask' => mPc'[Collector] \in {"task", "endTask"}
    BY <1>3, Zenon DEF MarkingInv, Tasks
  <2>2. \A w \in Helpers : mPc'[w] = "task" => mPc'[Collector] \in {"task", "endTask", "waitTask"}
    BY <1>2, <1>3, Zenon DEF MarkingInv, Tasks, Moves
  <2>3. mPc'[Collector] \in {"task", "endTask", "waitTask"} /\ ~mVisited' => Idle'
    BY <1>3, <1>5, Zenon DEF MarkingInv, Tasks
  <2>4. mShouldExit' <=> mPc'[Collector] \in {"finish", "out"}
    BY <1>3, Zenon DEF MarkingInv, Tasks
  <2>5. mShouldExit' => Idle'
    BY <1>5, Zenon DEF MarkingInv, Tasks
  <2>6. QED
    BY <2>1, <2>2, <2>3, <2>4, <2>5, Zenon DEF Tasks
<1>7. QED
  BY <1>4, <1>6, Zenon

(* What stealSomeCellsFrom takes for one of k idle visitors: something, and no more *)
(* than there is.                                                                *)
LEMMA StolenCells ==
    ASSUME NEW s \in Nat, NEW k \in Nat \ {0}
    PROVE  LET q == (s + k - 1) \div k IN q \in Nat /\ q <= s /\ (s > 0 => q > 0)
<1> DEFINE q == (s + k - 1) \div k
<1>1. s + k - 1 \in Nat /\ k > 0
  OBVIOUS
<1>2. q \in Int /\ k * q <= s + k - 1 /\ s + k - 1 < k * q + k
  BY <1>1
<1> HIDE DEF q
<1>3. q >= 0
  <2> SUFFICES ASSUME q <= -1 PROVE FALSE
    BY <1>2
  <2>1. k * q <= k * (-1)
    BY <1>2
  <2>2. QED
    BY <1>1, <1>2, <2>1
<1>4. q <= s
  <2> SUFFICES ASSUME q >= s + 1 PROVE FALSE
    BY <1>2
  <2>1. k * q >= k * (s + 1) /\ k * (s + 1) = k * s + k /\ k * s >= s
    BY <1>2
  <2>2. QED
    BY <1>1, <1>2, <2>1
<1>5. s > 0 => q > 0
  BY <1>2, <1>3
<1>6. QED
  BY <1>2, <1>3, <1>4, <1>5 DEF q

(* The counters as a visitor comes to the lock of drainFromShared. *)
LEMMA ArrivesCounts ==
    ASSUME MarkingInv, NEW v \in Helpers \cup {Collector}, mPc[v] \in {"lock", "awake"}
    PROVE  LET a == M!Arrives(v) IN
           /\ a.active \in Nat /\ a.active + (IF v \in Active THEN 1 ELSE 0) = mActive
           /\ a.active = 0 <=> Active \subseteq {v}
           /\ a.waiting \in Nat \ {0} /\ a.waiting + (IF v \in Waiting THEN 1 ELSE 0) = mWaiting + 1
<1> DEFINE a == M!Arrives(v)
<1>1. /\ a.active = IF mPc[v] = "lock" /\ mIsActive[v] THEN mActive - 1 ELSE mActive
      /\ a.waiting = IF mPc[v] = "lock" THEN mWaiting + 1 ELSE mWaiting
  BY Zenon DEF M!Arrives
<1> HIDE DEF a
<1>2. v \in Active <=> (mPc[v] = "lock" /\ mIsActive[v])
  BY Zenon DEF Active
<1>3. v \in Waiting <=> mPc[v] = "awake"
  BY Zenon DEF Waiting
<1>4. Active \subseteq Helpers \cup {Collector} /\ Waiting \subseteq Helpers \cup {Collector}
  BY Zenon DEF Active, Waiting
<1>5. /\ IsFiniteSet(Active) /\ Cardinality(Active) \in Nat /\ Cardinality(Waiting) \in Nat
      /\ (Cardinality(Active) = 0 <=> Active = {}) /\ (Cardinality(Waiting) = 0 <=> Waiting = {})
  BY <1>4, VisitorsAreFinite, Zenon
<1>6. mActive = Cardinality(Active) /\ Cardinality(Waiting) <= mWaiting /\ mWaiting \in Nat
  BY Zenon DEF MarkingInv, MarkingTypes, Counted
<1>7. a.active = Cardinality(Active \ {v})
  <2>1. Cardinality(Active \ {v}) = IF v \in Active THEN Cardinality(Active) - 1 ELSE Cardinality(Active)
    BY <1>5, FS_RemoveElement, Zenon
  <2>2. QED
    BY <1>1, <1>2, <1>6, <2>1, Zenon
<1>8. Cardinality(Active \ {v}) \in Nat /\ (Cardinality(Active \ {v}) = 0 <=> Active \ {v} = {})
  BY <1>4, VisitorsAreFinite, Zenon
<1>9. a.active \in Nat /\ (a.active = 0 <=> Active \subseteq {v})
  BY <1>7, <1>8, Zenon
<1>10. a.active + (IF v \in Active THEN 1 ELSE 0) = mActive
  BY <1>1, <1>2, <1>5, <1>6
<1>11. a.waiting \in Nat /\ a.waiting + (IF v \in Waiting THEN 1 ELSE 0) = mWaiting + 1
  BY <1>1, <1>3, <1>6
<1>12. a.waiting # 0
  BY <1>1, <1>3, <1>5, <1>6
<1>13. QED
  BY <1>9, <1>10, <1>11, <1>12, Zenon DEF a

(* The visitors are different. *)
LEMMA WhoVisits ==
    /\ Collector # Mutator /\ Collector \notin Helpers /\ Mutator \notin Helpers
    /\ M!Visitors = Helpers \cup {Collector, Mutator}
BY MarkersAssumption, Zenon DEF M!ParallelMarkingAssumption, M!Visitors

(* A visitor that stays where it is stays in the counts. *)
LEMMA StaysCounted ==
    ASSUME NEW v, mPc'[v] = mPc[v], mIsActive' = mIsActive
    PROVE  (v \in Active' <=> v \in Active) /\ (v \in Waiting' <=> v \in Waiting)
BY Zenon DEF Active, Waiting

(* Scanning a cell: the mark stack of v may grow or shrink. *)
LEMMA VisitsCell ==
    ASSUME MarkingInv, NEW v \in M!Visitors, mOwn[v] > 0, M!Visit(v)
    PROVE  /\ mUnmarked' \in Nat /\ mShared' = mShared /\ mOwn' \in [M!Visitors -> Nat]
           /\ \A w \in M!Visitors : w # v => mOwn'[w] = mOwn[w]
<1>1. mUnmarked \in Nat /\ mOwn \in [M!Visitors -> Nat] /\ mOwn[v] \in Nat
  BY Zenon DEF MarkingInv, MarkingTypes
<1>2. PICK found \in 0 .. (IF mUnmarked < 2 THEN mUnmarked ELSE 2) :
           /\ mUnmarked' = mUnmarked - found /\ mOwn' = [mOwn EXCEPT ![v] = @ - 1 + found]
              /\ UNCHANGED mShared
  BY Zenon DEF M!Visit
<1>3. found \in Nat /\ mUnmarked' \in Nat /\ mOwn[v] - 1 + found \in Nat
  BY <1>1, <1>2
<1>4. QED
  BY <1>1, <1>2, <1>3, Zenon

(* scan *)
LEMMA MarkingScans ==
    ASSUME MarkingInv, NEW v \in Helpers \cup {Collector}, M!scan(v)
    PROVE  MarkingInv' /\ Finds
<1>1. v \in M!Visitors /\ mPc[v] \in {"scan", "drain"} /\ mOwn[v] > 0 /\ M!Visit(v)
  BY WhoVisits, Zenon DEF M!scan
<1>2. UNCHANGED <<mActive, mWaiting, mBonusTask, mShouldExit, mVisited, mIsActive, mPc>>
  BY Zenon DEF M!scan, M!counters
<1>3. /\ mUnmarked' \in Nat /\ mShared' = mShared /\ mOwn' \in [M!Visitors -> Nat]
      /\ \A w \in M!Visitors : w # v => mOwn'[w] = mOwn[w]
  BY <1>1, VisitsCell, Zenon
<1>4. Active' = Active /\ Waiting' = Waiting
  BY <1>2, Zenon DEF Active, Waiting
<1>5. MarkingTypes' /\ Counted' /\ Sleeps'
  BY <1>2, <1>3, <1>4, Zenon DEF MarkingInv, MarkingTypes, Counted, Sleeps
<1>6. v \in Helpers => v \in Active
  BY <1>1, Zenon DEF MarkingInv, MarkingTypes, Active
<1>7. Held'
  BY <1>2, <1>3, <1>4, <1>6, WhoVisits, Zenon DEF MarkingInv, Held
<1>8. Tasks'
  <2>1. ~Idle
    BY <1>1 DEF Idle
  <2>2. QED
    BY <1>2, <2>1, Zenon DEF MarkingInv, Tasks
<1>9. QED
  BY <1>1, <1>2, <1>5, <1>7, <1>8, Zenon DEF MarkingInv, Finds

(* donateKnownParallel *)
LEMMA MarkingDonates ==
    ASSUME MarkingInv, NEW v \in M!Visitors, M!donateKnownParallel(v)
    PROVE  MarkingInv' /\ Finds
<1>1. mPc[v] \in {"scan", "drain"} /\ mOwn[v] > 1 /\ mPc' = M!Notified
  BY Zenon DEF M!donateKnownParallel
<1>2. UNCHANGED <<mUnmarked, mActive, mWaiting, mBonusTask, mShouldExit, mVisited, mIsActive>>
  BY Zenon DEF M!donateKnownParallel, M!counters
<1>3. MarkingTypes /\ mOwn \in [M!Visitors -> Nat] /\ mOwn[v] \in Nat /\ mShared \in Nat
  BY Zenon DEF MarkingInv, MarkingTypes
<1>4. /\ mOwn' \in [M!Visitors -> Nat] /\ mShared' \in Nat
      /\ \A w \in M!Visitors : w # v => mOwn'[w] = mOwn[w]
  <2>1. mOwn' = [mOwn EXCEPT ![v] = @ - @ \div 2] /\ mShared' = mShared + mOwn[v] \div 2
    BY Zenon DEF M!donateKnownParallel
  <2>2. mOwn[v] \div 2 \in Nat /\ mOwn[v] - mOwn[v] \div 2 \in Nat
    BY <1>3
  <2>3. QED
    BY <1>3, <2>1, <2>2
<1>5. Moves(v, mPc[v]) /\ mPc'[v] = mPc[v] /\ mPc'[Collector] # "asleep"
  <2>1. Moves(v, mPc[v])
    BY <1>1, <1>3, StayMoves, Zenon
  <2>2. QED
    BY <1>1, <2>1, WhoVisits, Zenon DEF Moves, M!Notified
<1>6. (v \in Active' <=> v \in Active) /\ (v \in Waiting' <=> v \in Waiting)
  BY <1>2, <1>5, StaysCounted, Zenon
<1>7. Sleeps'
  BY <1>5, Zenon DEF Sleeps
<1>8. Tasks'
  <2>1. ~Idle
    BY <1>1 DEF Idle
  <2>2. \A w \in M!Visitors : mPc'[w] = mPc[w] \/ (mPc[w] = "asleep" /\ mPc'[w] = "awake")
    BY <1>5, Zenon DEF Moves
  <2>3. QED
    BY <1>2, <2>1, <2>2, WhoVisits, Zenon DEF MarkingInv, Tasks
<1>9. v \in Helpers => v \in Active
  BY <1>1, Zenon DEF MarkingInv, MarkingTypes, Active
<1>10. mPc[v] # "out"
  BY <1>1, Zenon
<1>12. mActive \in Nat /\ mWaiting \in Nat /\ mUnmarked \in Nat /\ mVisited \in BOOLEAN
       /\ mIsActive \in [M!Visitors -> BOOLEAN]
  <2>1. Active \subseteq Helpers \cup {Collector}
    BY Zenon DEF Active
  <2>2. QED
    BY <2>1, VisitorsAreFinite, Zenon DEF MarkingInv, MarkingTypes, Counted
<1>13. /\ v = Collector => mPc[v] \in {"out", "lock", "asleep", "awake", "scan", "task", "fixpoint", "endTask",
                                       "waitTask", "drain", "passive", "stop", "finish"}
       /\ v = Mutator => mPc[v] \in {"out", "scan", "drain"}
       /\ v \in Helpers => mPc[v] \in {"out", "lock", "asleep", "awake", "scan", "task"}
  BY <1>3, Zenon DEF MarkingTypes
<1>14. QED
  BY <1>1, <1>2, <1>4, <1>5, <1>6, <1>7, <1>8, <1>9, <1>10, <1>12, <1>13, MarkingStep

(* The types of what the steps below work with. *)
LEMMA MarkingFacts ==
    ASSUME MarkingInv
    PROVE  /\ mActive \in Nat /\ mWaiting \in Nat /\ mUnmarked \in Nat /\ mShared \in Nat
              /\ mVisited \in BOOLEAN
           /\ mIsActive \in [M!Visitors -> BOOLEAN] /\ mOwn \in [M!Visitors -> Nat] /\ MarkingTypes
<1>1. Active \subseteq Helpers \cup {Collector}
  BY Zenon DEF Active
<1>2. QED
  BY <1>1, VisitorsAreFinite, Zenon DEF MarkingInv, MarkingTypes, Counted

(* The collector moves while no task runs. *)
LEMMA CollectorStep ==
    ASSUME MarkingInv, NEW label, Moves(Collector, label),
           label \notin {"task", "endTask", "waitTask", "finish", "out", "asleep"},
           ~mBonusTask', ~mShouldExit', \A w \in Helpers : mPc[w] # "task"
    PROVE  Tasks' /\ Sleeps'
<1>1. mPc'[Collector] = label /\ \A w \in Helpers : mPc'[w] # "task"
  BY WhoVisits, Zenon DEF Moves
<1>2. QED
  BY <1>1, Zenon DEF Tasks, Sleeps

(* drain() returns. *)
LEMMA MarkingDrained ==
    ASSUME MarkingInv, NEW v \in Helpers \cup {Collector}, M!drained(v)
    PROVE  MarkingInv' /\ Finds
<1>1. v \in M!Visitors /\ mPc[v] \in {"scan", "drain"} /\ (mOwn[v] = 0 \/ v = Collector)
  BY WhoVisits, Zenon DEF M!drained
<1>2. UNCHANGED <<mUnmarked, mOwn, mShared, mActive, mWaiting, mBonusTask, mShouldExit, mVisited>>
  BY Zenon DEF M!drained, M!counters, M!work
<1>3. /\ mIsActive' = [mIsActive EXCEPT ![v] = (mPc[v] = "scan")]
      /\ mPc' = M!GotoOf(mPc, v, "lock")
  BY Zenon DEF M!drained, M!Goto
<1>4. Moves(v, "lock") /\ mPc'[v] = "lock"
  <2>1. Moves(v, "lock")
    BY <1>1, <1>3, MarkingFacts, GotoMoves
  <2>2. QED
    BY <2>1, Zenon DEF Moves
<1>5. /\ mIsActive' \in [M!Visitors -> BOOLEAN] /\ (mIsActive'[v] <=> mPc[v] = "scan")
      /\ \A w \in M!Visitors : w # v => mIsActive'[w] = mIsActive[w]
  BY <1>1, <1>3, MarkingFacts, Zenon
<1>6. (v \in Active' <=> v \in Active) /\ v \notin Waiting /\ v \notin Waiting'
  BY <1>1, <1>4, <1>5, Zenon DEF Active, Waiting
<1>7. v \in Helpers => v \in Active
  BY <1>1, Zenon DEF MarkingInv, MarkingTypes, Active
<1>8. Tasks' /\ Sleeps'
  <2>1. CASE v = Collector
    <3>1. ~mBonusTask' /\ ~mShouldExit' /\ \A w \in Helpers : mPc[w] # "task"
      BY <1>1, <1>2, <2>1, Zenon DEF MarkingInv, Tasks
    <3>2. QED
      BY <1>4, <2>1, <3>1, CollectorStep, Zenon
  <2>2. CASE v \in Helpers
    <3>1. v \in M!Visitors \ {Collector}
      BY <1>1, <2>2, WhoVisits, Zenon
    <3>2. mPc'[Collector] = "asleep" => mShared' = 0
      BY <1>2, <1>4, <3>1, WhoVisits, Zenon DEF MarkingInv, Sleeps, Moves
    <3>3. Idle => mShared' = 0 /\ mOwn'[v] = 0
      BY <1>1, <1>2, Zenon DEF Idle
    <3>4. mVisited \in BOOLEAN
      BY MarkingFacts, Zenon
    <3>5. QED
      BY <1>2, <1>4, <1>5, <1>6, <1>7, <2>2, <3>1, <3>2, <3>3, <3>4, OtherStep, Zenon
  <2>3. QED
    BY <2>1, <2>2, Zenon
<1>9. v # Mutator /\ (v \in Helpers => mOwn'[v] = 0)
  BY <1>1, <1>2, WhoVisits, Zenon
<1>10. QED
  BY <1>1, <1>2, <1>4, <1>5, <1>6, <1>8, <1>9, MarkingFacts, MarkingStep

(* A visitor that leaves drainFromShared to scan takes a cell with it, if its own *)
(* stacks are empty.                                                           *)
LEMMA Steals ==
    ASSUME MarkingInv, NEW v \in M!Visitors, NEW idle \in Nat \ {0}, M!hasWork(v), M!stealSomeCells(v, idle)
    PROVE  /\ mOwn' \in [M!Visitors -> Nat] /\ mOwn'[v] > 0 /\ mShared' \in Nat /\ mShared' <= mShared
           /\ mUnmarked' = mUnmarked /\ \A w \in M!Visitors : w # v => mOwn'[w] = mOwn[w]
<1> DEFINE q == (mShared + idle - 1) \div idle
           stolen == IF mOwn[v] > 0 THEN 0 ELSE q
<1>1. mOwn \in [M!Visitors -> Nat] /\ mShared \in Nat /\ mOwn[v] \in Nat
  BY MarkingFacts, Zenon
<1>2. q \in Nat /\ q <= mShared /\ (mShared > 0 => q > 0)
  BY <1>1, StolenCells, Zenon
<1>3. mOwn' = [mOwn EXCEPT ![v] = @ + stolen] /\ mShared' = mShared - stolen /\ mUnmarked' = mUnmarked
  BY Zenon DEF M!stealSomeCells
<1>4. mOwn[v] > 0 \/ mShared > 0
  BY Zenon DEF M!hasWork
<1> HIDE DEF q
<1>5. stolen \in Nat /\ stolen <= mShared /\ mOwn[v] + stolen > 0
  BY <1>1, <1>2, <1>4
<1> HIDE DEF stolen
<1>6. QED
  BY <1>1, <1>3, <1>5

(* The counters as a visitor leaves the lock: it waits, it returns, or it works. *)
LEMMA LeavesCounted ==
    ASSUME MarkingInv, NEW v \in Helpers \cup {Collector}, mPc[v] \in {"lock", "awake"}, NEW label, Moves(v, label),
           \/ /\ label \in {"fixpoint", "stop", "out", "asleep"}
              /\ mActive' = M!Arrives(v).active /\ mWaiting' = M!Arrives(v).waiting
           \/ /\ label \in {"scan", "task"} /\ (label = "task" => v # Collector)
              /\ mActive' = M!Arrives(v).active + 1 /\ mWaiting' = M!Arrives(v).waiting - 1
    PROVE  /\ mActive' + (IF v \in Active THEN 1 ELSE 0) = mActive + (IF v \in Active' THEN 1 ELSE 0)
           /\ mWaiting' + (IF v \in Waiting THEN 1 ELSE 0) >= mWaiting + (IF v \in Waiting' THEN 1 ELSE 0)
           /\ mActive' \in Int /\ mWaiting' \in Nat /\ (v \in Active' <=> label \in {"scan", "task"})
<1> DEFINE x == M!Arrives(v).active
           y == M!Arrives(v).waiting
<1>1. /\ x \in Nat /\ x + (IF v \in Active THEN 1 ELSE 0) = mActive
      /\ y \in Nat \ {0} /\ y + (IF v \in Waiting THEN 1 ELSE 0) = mWaiting + 1
  BY ArrivesCounts, Zenon
<1>2. mActive \in Nat /\ mWaiting \in Nat
  BY MarkingFacts, Zenon
<1>3. mPc'[v] = label
  BY Zenon DEF Moves
<1>4. (v \in Active' <=> label \in {"scan", "task"}) /\ (v \in Waiting' <=> label = "asleep")
  BY <1>3, Zenon DEF Active, Waiting
<1> HIDE DEF x, y
<1>5. CASE label \in {"fixpoint", "stop", "out", "asleep"}
  BY <1>1, <1>2, <1>4, <1>5 DEF x, y
<1>6. CASE label \in {"scan", "task"}
  BY <1>1, <1>2, <1>4, <1>6 DEF x, y
<1>7. QED
  BY <1>5, <1>6, Zenon

(* drainFromShared for the collector. *)
LEMMA MarkingMaster ==
    ASSUME MarkingInv, M!masterDrain
    PROVE  MarkingInv' /\ Finds
<1> DEFINE a == M!Arrives(Collector)
<1>1. mPc[Collector] \in {"lock", "awake"} /\ UNCHANGED <<mBonusTask, mShouldExit, mVisited>>
  BY Zenon DEF M!masterDrain
<1>2. Collector \in M!Visitors /\ Collector \in Helpers \cup {Collector} /\ Collector # Mutator
      /\ Collector \notin Helpers
  BY WhoVisits, Zenon
<1>3. ~mBonusTask' /\ ~mShouldExit' /\ \A w \in Helpers : mPc[w] # "task"
  BY <1>1, Zenon DEF MarkingInv, Tasks
<1>4. a.active \in Nat /\ a.waiting \in Nat \ {0} /\ (a.active = 0 <=> Active \subseteq {Collector})
  BY <1>1, <1>2, ArrivesCounts, Zenon
<1>5. \/ \E label \in {"fixpoint", "stop"}, notify \in BOOLEAN : M!Returns(Collector, a, label, notify)
      \/ M!hasWork(Collector) /\ M!Works(Collector, a)
      \/ a.active # 0 /\ ~M!hasWork(Collector) /\ M!Waits(Collector, a, FALSE)
  BY <1>4, Zenon DEF M!masterDrain
<1> HIDE DEF a
<1>6. ASSUME NEW label \in {"fixpoint", "stop"}, NEW notify \in BOOLEAN, M!Returns(Collector, a, label, notify)
      PROVE  MarkingInv' /\ Finds
  <2>1. /\ mPc' \in {M!GotoOf(mPc, Collector, label), M!GotoOf(M!Notified, Collector, label)}
        /\ mActive' = a.active /\ mWaiting' = a.waiting
           /\ mIsActive' = [mIsActive EXCEPT ![Collector] = FALSE]
        /\ UNCHANGED <<mUnmarked, mOwn, mShared>>
    BY <1>6, Zenon DEF M!Returns, M!work
  <2>2. Moves(Collector, label)
    BY <1>2, <2>1, MarkingFacts, GotoMoves
  <2>3. Tasks' /\ Sleeps'
    BY <1>3, <2>2, CollectorStep, Zenon
  <2>4. mIsActive' \in [M!Visitors -> BOOLEAN] /\ \A w \in M!Visitors : w # Collector => mIsActive'[w] = mIsActive[w]
    BY <1>2, <2>1, MarkingFacts, Zenon
  <2>5. /\ mActive' + (IF Collector \in Active THEN 1 ELSE 0) = mActive + (IF Collector \in Active' THEN 1 ELSE 0)
        /\ mWaiting' + (IF Collector \in Waiting THEN 1 ELSE 0) >= mWaiting + (IF Collector \in Waiting' THEN 1 ELSE 0)
        /\ mActive' \in Int /\ mWaiting' \in Nat
    BY <1>1, <1>2, <2>1, <2>2, LeavesCounted, Zenon DEF a
  <2>6. QED
    BY <1>1, <1>2, <2>1, <2>2, <2>3, <2>4, <2>5, MarkingFacts, MarkingStep, Zenon
<1>7. CASE M!hasWork(Collector) /\ M!Works(Collector, a)
  <2>1. /\ mPc' = M!GotoOf(mPc, Collector, "scan") /\ M!stealSomeCells(Collector, a.waiting)
        /\ mActive' = a.active + 1 /\ mWaiting' = a.waiting - 1 /\ UNCHANGED mIsActive
    BY <1>7, Zenon DEF M!Works, M!Goto
  <2>2. Moves(Collector, "scan")
    BY <1>2, <2>1, MarkingFacts, GotoMoves
  <2>3. Tasks' /\ Sleeps'
    BY <1>3, <2>2, CollectorStep, Zenon
  <2>4. /\ mOwn' \in [M!Visitors -> Nat] /\ mShared' \in Nat /\ mUnmarked' = mUnmarked /\ mOwn'[Collector] > 0
        /\ \A w \in M!Visitors : w # Collector => mOwn'[w] = mOwn[w]
    BY <1>2, <1>4, <1>7, <2>1, Steals, Zenon
  <2>5. /\ mActive' + (IF Collector \in Active THEN 1 ELSE 0) = mActive + (IF Collector \in Active' THEN 1 ELSE 0)
        /\ mWaiting' + (IF Collector \in Waiting THEN 1 ELSE 0) >= mWaiting + (IF Collector \in Waiting' THEN 1 ELSE 0)
        /\ mActive' \in Int /\ mWaiting' \in Nat
    BY <1>1, <1>2, <2>1, <2>2, LeavesCounted, Zenon DEF a
  <2>6. QED
    BY <1>1, <1>2, <2>1, <2>2, <2>3, <2>4, <2>5, MarkingFacts, MarkingStep, Zenon
<1>8. CASE a.active # 0 /\ ~M!hasWork(Collector) /\ M!Waits(Collector, a, FALSE)
  <2>1. /\ mPc' = M!GotoOf(mPc, Collector, "asleep") /\ mActive' = a.active /\ mWaiting' = a.waiting
        /\ UNCHANGED <<mUnmarked, mOwn, mShared, mIsActive>>
    BY <1>8, Zenon DEF M!Waits, M!work
  <2>2. Moves(Collector, "asleep") /\ mPc'[Collector] = "asleep"
    <3>1. Moves(Collector, "asleep")
      BY <1>2, <2>1, MarkingFacts, GotoMoves
    <3>2. QED
      BY <3>1, Zenon DEF Moves
  <2>3. Sleeps'
    <3>1. mShared' = 0
      BY <1>8, <2>1, MarkingFacts DEF M!hasWork
    <3>2. Active' \ {Collector} = Active \ {Collector}
      BY <1>2, <2>1, <2>2, OthersStay, Zenon
    <3>3. QED
      BY <1>4, <1>8, <3>1, <3>2, Zenon DEF Sleeps
  <2>4. Tasks'
    <3>1. \A w \in Helpers : mPc'[w] # "task"
      BY <1>3, <2>2, WhoVisits, Zenon DEF Moves
    <3>2. QED
      BY <1>3, <2>2, <3>1, Zenon DEF Tasks
  <2>5. /\ mActive' + (IF Collector \in Active THEN 1 ELSE 0) = mActive + (IF Collector \in Active' THEN 1 ELSE 0)
        /\ mWaiting' + (IF Collector \in Waiting THEN 1 ELSE 0) >= mWaiting + (IF Collector \in Waiting' THEN 1 ELSE 0)
        /\ mActive' \in Int /\ mWaiting' \in Nat
    BY <1>1, <1>2, <2>1, <2>2, LeavesCounted, Zenon DEF a
  <2>6. QED
    BY <1>1, <1>2, <2>1, <2>2, <2>3, <2>4, <2>5, MarkingFacts, MarkingStep, Zenon
<1>9. QED
  BY <1>5, <1>6, <1>7, <1>8, Zenon

(* drainFromShared for a helper. *)
LEMMA MarkingSlave ==
    ASSUME MarkingInv, NEW v \in Helpers, M!slaveDrain(v)
    PROVE  MarkingInv' /\ Finds
<1> DEFINE a == M!Arrives(v)
           terminated == mPc[v] = "lock" /\ a.active = 0 /\ ~M!hasWork(v)
<1>1. mPc[v] \in {"lock", "awake"} /\ UNCHANGED <<mBonusTask, mShouldExit, mVisited>>
  BY Zenon DEF M!slaveDrain
<1>2. v \in M!Visitors \ {Collector} /\ v \in Helpers \cup {Collector} /\ v # Mutator /\ v # Collector
  BY WhoVisits, Zenon
<1>3. a.active \in Nat /\ a.waiting \in Nat \ {0} /\ (a.active = 0 <=> Active \subseteq {v})
  BY <1>1, <1>2, ArrivesCounts, Zenon
<1>4. \/ mShouldExit /\ M!Returns(v, a, "out", terminated)
      \/ ~mShouldExit /\ M!hasWork(v) /\ M!Works(v, a)
      \/ /\ ~mShouldExit /\ mBonusTask /\ ~M!hasWork(v)
         /\ mActive' = a.active + 1 /\ mWaiting' = a.waiting - 1
         /\ mPc' = M!GotoOf(IF terminated THEN M!Notified ELSE mPc, v, "task")
         /\ UNCHANGED <<M!work, mIsActive>>
      \/ ~mShouldExit /\ ~M!hasWork(v) /\ M!Waits(v, a, terminated)
  BY Zenon DEF M!slaveDrain
<1>5. terminated \in BOOLEAN
  BY Zenon
<1>6. mVisited \in BOOLEAN /\ MarkingTypes
  BY MarkingFacts, Zenon
<1> HIDE DEF a
<1>7. CASE mShouldExit /\ M!Returns(v, a, "out", terminated)
  <2>1. /\ mPc' \in {M!GotoOf(mPc, v, "out"), M!GotoOf(M!Notified, v, "out")}
        /\ mActive' = a.active /\ mWaiting' = a.waiting /\ UNCHANGED <<mUnmarked, mOwn, mShared>>
    BY <1>5, <1>7, Zenon DEF M!Returns, M!work
  <2>2. Moves(v, "out")
    BY <1>2, <1>6, <2>1, GotoMoves
  <2>3. mIsActive' \in [M!Visitors -> BOOLEAN] /\ \A w \in M!Visitors : w # v => mIsActive'[w] = mIsActive[w]
    BY <1>2, <1>7, MarkingFacts, Zenon DEF M!Returns
  <2>4. Idle /\ mPc[Collector] \in {"finish", "out"}
    BY <1>7, Zenon DEF MarkingInv, Tasks
  <2>5. mPc'[Collector] # "asleep"
    BY <1>2, <2>2, <2>4, WhoVisits, Zenon DEF Moves
  <2>6. mShared' = 0 /\ mOwn'[v] = 0
    BY <1>2, <2>1, <2>4, Zenon DEF Idle
  <2>7. Tasks' /\ Sleeps'
    BY <1>1, <1>2, <1>6, <2>1, <2>2, <2>3, <2>5, <2>6, OtherStep, Zenon
  <2>8. /\ mActive' + (IF v \in Active THEN 1 ELSE 0) = mActive + (IF v \in Active' THEN 1 ELSE 0)
        /\ mWaiting' + (IF v \in Waiting THEN 1 ELSE 0) >= mWaiting + (IF v \in Waiting' THEN 1 ELSE 0)
        /\ mActive' \in Int /\ mWaiting' \in Nat
    BY <1>1, <1>2, <2>1, <2>2, LeavesCounted, Zenon DEF a
  <2>9. QED
    BY <1>1, <1>2, <2>1, <2>2, <2>3, <2>6, <2>7, <2>8, MarkingFacts, MarkingStep
<1>8. CASE ~mShouldExit /\ M!hasWork(v) /\ M!Works(v, a)
  <2>1. /\ mPc' = M!GotoOf(mPc, v, "scan") /\ M!stealSomeCells(v, a.waiting)
        /\ mActive' = a.active + 1 /\ mWaiting' = a.waiting - 1 /\ UNCHANGED mIsActive
    BY <1>8, Zenon DEF M!Works, M!Goto
  <2>2. Moves(v, "scan")
    BY <1>2, <1>6, <2>1, GotoMoves
  <2>3. /\ mOwn' \in [M!Visitors -> Nat] /\ mShared' \in Nat /\ mUnmarked' = mUnmarked
        /\ mShared' <= mShared /\ mOwn'[v] > 0
        /\ \A w \in M!Visitors : w # v => mOwn'[w] = mOwn[w]
    BY <1>2, <1>3, <1>8, <2>1, Steals, Zenon
  <2>4. /\ mActive' + (IF v \in Active THEN 1 ELSE 0) = mActive + (IF v \in Active' THEN 1 ELSE 0)
        /\ mWaiting' + (IF v \in Waiting THEN 1 ELSE 0) >= mWaiting + (IF v \in Waiting' THEN 1 ELSE 0)
        /\ mActive' \in Int /\ mWaiting' \in Nat /\ v \in Active'
    BY <1>1, <1>2, <2>1, <2>2, LeavesCounted, Zenon DEF a
  <2>5. ~Idle
    BY <1>2, <1>8 DEF Idle, M!hasWork
  <2>6. mPc'[Collector] = "asleep" => mShared' = 0
    <3>1. mPc'[Collector] = "asleep" => mShared = 0
      BY <1>2, <2>2, WhoVisits, Zenon DEF MarkingInv, Sleeps, Moves
    <3>2. QED
      BY <2>3, <3>1
  <2>7. Tasks' /\ Sleeps'
    BY <1>1, <1>2, <1>6, <2>1, <2>2, <2>3, <2>4, <2>5, <2>6, OtherStep, Zenon
  <2>8. QED
    BY <1>1, <1>2, <2>1, <2>2, <2>3, <2>4, <2>7, MarkingFacts, MarkingStep, Zenon
<1>9. CASE /\ ~mShouldExit /\ mBonusTask /\ ~M!hasWork(v)
           /\ mActive' = a.active + 1 /\ mWaiting' = a.waiting - 1
           /\ mPc' = M!GotoOf(IF terminated THEN M!Notified ELSE mPc, v, "task")
           /\ UNCHANGED <<M!work, mIsActive>>
  <2>1. mPc' \in {M!GotoOf(mPc, v, "task"), M!GotoOf(M!Notified, v, "task")}
        /\ UNCHANGED <<mUnmarked, mOwn, mShared>>
    BY <1>5, <1>9, Zenon DEF M!work
  <2>2. Moves(v, "task")
    BY <1>2, <1>6, <2>1, GotoMoves
  <2>3. /\ mActive' + (IF v \in Active THEN 1 ELSE 0) = mActive + (IF v \in Active' THEN 1 ELSE 0)
        /\ mWaiting' + (IF v \in Waiting THEN 1 ELSE 0) >= mWaiting + (IF v \in Waiting' THEN 1 ELSE 0)
        /\ mActive' \in Int /\ mWaiting' \in Nat /\ v \in Active'
    BY <1>1, <1>2, <1>9, <2>2, LeavesCounted, Zenon DEF a
  <2>4. mPc[Collector] \in {"task", "endTask"}
    BY <1>9, Zenon DEF MarkingInv, Tasks
  <2>5. mPc'[Collector] # "asleep"
    BY <1>2, <2>2, <2>4, WhoVisits, Zenon DEF Moves
  <2>6. Idle => mShared' = 0 /\ mOwn'[v] = 0
    BY <1>2, <2>1, Zenon DEF Idle
  <2>7. Tasks' /\ Sleeps'
    BY <1>1, <1>2, <1>6, <1>9, <2>1, <2>2, <2>4, <2>5, <2>6, OtherStep, Zenon
  <2>8. QED
    BY <1>1, <1>2, <1>9, <2>1, <2>2, <2>3, <2>7, MarkingFacts, MarkingStep, Zenon
<1>10. CASE ~mShouldExit /\ ~M!hasWork(v) /\ M!Waits(v, a, terminated)
  <2>1. /\ mPc' = M!GotoOf(IF terminated THEN M!Notified ELSE mPc, v, "asleep")
        /\ mActive' = a.active /\ mWaiting' = a.waiting
           /\ UNCHANGED <<mUnmarked, mOwn, mShared, mIsActive>>
    BY <1>10, Zenon DEF M!Waits, M!work
  <2>2. Moves(v, "asleep")
    <3>1. mPc' \in {M!GotoOf(mPc, v, "asleep"), M!GotoOf(M!Notified, v, "asleep")}
      BY <1>5, <2>1, Zenon
    <3>2. QED
      BY <1>2, <1>6, <3>1, GotoMoves
  <2>3. mShared' = 0 /\ mOwn'[v] = 0
    BY <1>2, <1>10, <2>1, MarkingFacts DEF M!hasWork
  <2>4. mPc'[Collector] = "asleep" => v \notin Active \/ Active # {v}
    <3>1. CASE terminated
      <4>1. mPc' = M!GotoOf(M!Notified, v, "asleep")
        BY <2>1, <3>1, Zenon
      <4>2. QED
        BY <1>2, <4>1, GotoWakes, WhoVisits, Zenon
    <3>2. CASE mPc[v] = "awake"
      BY <1>2, <3>2, Zenon DEF Active
    <3>3. CASE a.active # 0
      BY <1>3, <3>3, Zenon
    <3>4. QED
      BY <1>1, <1>10, <3>1, <3>2, <3>3, Zenon
  <2>5. Tasks' /\ Sleeps'
    BY <1>1, <1>2, <1>6, <2>1, <2>2, <2>3, <2>4, OtherStep, Zenon
  <2>6. /\ mActive' + (IF v \in Active THEN 1 ELSE 0) = mActive + (IF v \in Active' THEN 1 ELSE 0)
        /\ mWaiting' + (IF v \in Waiting THEN 1 ELSE 0) >= mWaiting + (IF v \in Waiting' THEN 1 ELSE 0)
        /\ mActive' \in Int /\ mWaiting' \in Nat
    BY <1>1, <1>2, <2>1, <2>2, LeavesCounted, Zenon DEF a
  <2>7. QED
    BY <1>1, <1>2, <2>1, <2>2, <2>3, <2>5, <2>6, MarkingFacts, MarkingStep
<1>11. QED
  BY <1>4, <1>7, <1>8, <1>9, <1>10, Zenon

(* A helper comes to the lock, from the pool or from the task. *)
LEMMA MarkingHelper ==
    ASSUME MarkingInv, NEW v \in Helpers, M!helperStarts(v) \/ M!helperRanTask(v)
    PROVE  MarkingInv' /\ Finds
<1>1. v \in M!Visitors \ {Collector} /\ v # Mutator /\ v # Collector
  BY WhoVisits, Zenon
<1>2. UNCHANGED <<mShared, mActive, mWaiting, mShouldExit>> /\ (mBonusTask' => mBonusTask)
  BY DEF M!helperStarts, M!helperRanTask, M!counters, M!work
<1>3. Moves(v, "lock") /\ mPc'[v] = "lock"
  <2>1. mPc' \in {M!GotoOf(mPc, v, "lock"), M!GotoOf(M!Notified, v, "lock")}
    BY Zenon DEF M!helperStarts, M!helperRanTask, M!Goto, M!NotifyAndGoto
  <2>2. Moves(v, "lock")
    BY <1>1, <2>1, MarkingFacts, GotoMoves
  <2>3. QED
    BY <2>2, Zenon DEF Moves
<1>5. mShared \in Nat /\ mActive \in Nat /\ mWaiting \in Nat /\ mVisited \in BOOLEAN
  BY MarkingFacts, Zenon
<1>6. CASE M!helperStarts(v)
  <2>1. mPc[v] = "out" /\ UNCHANGED <<mUnmarked, mOwn, mVisited>>
    BY <1>6, Zenon DEF M!helperStarts, M!work
  <2>2. /\ mIsActive' \in [M!Visitors -> BOOLEAN] /\ mIsActive'[v] = FALSE
        /\ \A w \in M!Visitors : w # v => mIsActive'[w] = mIsActive[w]
    BY <1>1, <1>6, MarkingFacts, Zenon DEF M!helperStarts
  <2>3. v \notin Active /\ v \notin Waiting /\ v \notin Active' /\ v \notin Waiting'
    BY <1>1, <1>3, <2>1, <2>2, Zenon DEF Active, Waiting
  <2>4. mOwn'[v] = 0
    BY <1>1, <2>1, <2>3, MarkingFacts DEF MarkingInv, Held
  <2>5. mPc'[Collector] = "asleep" => mShared' = 0
    BY <1>1, <1>2, <1>3, WhoVisits, Zenon DEF MarkingInv, Sleeps, Moves
  <2>6. Idle => mShared' = 0
    BY <1>2, Zenon DEF Idle
  <2>7. Tasks' /\ Sleeps'
    BY <1>1, <1>2, <1>3, <1>5, <2>1, <2>2, <2>3, <2>4, <2>5, <2>6, OtherStep, Zenon
  <2>8. QED
    BY <1>1, <1>2, <1>3, <1>5, <2>1, <2>2, <2>3, <2>4, <2>7, MarkingFacts, MarkingStep
<1>7. CASE M!helperRanTask(v)
  <2>1. mPc[v] = "task" /\ mIsActive' = [mIsActive EXCEPT ![v] = TRUE]
    BY <1>7, Zenon DEF M!helperRanTask
  <2>2. /\ mIsActive' \in [M!Visitors -> BOOLEAN] /\ mIsActive'[v] = TRUE
        /\ \A w \in M!Visitors : w # v => mIsActive'[w] = mIsActive[w]
    BY <1>1, <2>1, MarkingFacts, Zenon
  <2>3. v \in Active /\ v \notin Waiting /\ v \in Active' /\ v \notin Waiting'
    BY <1>1, <1>3, <2>1, <2>2, Zenon DEF Active, Waiting
  <2>4. PICK found \in 0 .. (IF mUnmarked < 1 THEN mUnmarked ELSE 1) :
           /\ mUnmarked' = mUnmarked - found /\ mOwn' = [mOwn EXCEPT ![v] = @ + found]
           /\ mVisited' = (mVisited \/ found > 0)
    BY <1>7, Zenon DEF M!helperRanTask
  <2>5. mUnmarked \in Nat /\ mOwn \in [M!Visitors -> Nat] /\ mOwn[v] \in Nat
    BY <1>1, MarkingFacts, Zenon
  <2>6. found \in Nat /\ mUnmarked' \in Nat /\ mVisited' \in BOOLEAN /\ (found = 0 \/ mVisited')
    <3>1. found \in Nat /\ mUnmarked' \in Nat /\ (found = 0 \/ found > 0)
      BY <2>4, <2>5
    <3>2. QED
      BY <1>5, <2>4, <3>1, Zenon
  <2>7. /\ mOwn' \in [M!Visitors -> Nat] /\ mOwn'[v] = mOwn[v] + found
        /\ \A w \in M!Visitors : w # v => mOwn'[w] = mOwn[w]
    BY <1>1, <2>4, <2>5, <2>6
  <2>8. mPc[Collector] \in {"task", "endTask", "waitTask"} /\ ~mShouldExit
    BY <2>1, Zenon DEF MarkingInv, Tasks
  <2>9. mPc'[Collector] # "asleep"
    BY <1>1, <1>3, <2>8, WhoVisits, Zenon DEF Moves
  <2>10. Idle => mVisited' \/ (mShared' = 0 /\ mOwn'[v] = 0)
    BY <1>1, <1>2, <2>6, <2>7 DEF Idle
  <2>11. mVisited => mVisited'
    BY <2>4, Zenon
  <2>12. Tasks' /\ Sleeps'
    BY <1>1, <1>2, <1>3, <1>5, <2>2, <2>7, <2>8, <2>9, <2>10, <2>11, OtherStep, Zenon
  <2>13. QED
    BY <1>1, <1>2, <1>3, <1>5, <2>2, <2>3, <2>6, <2>7, <2>8, <2>12, MarkingStep
<1>8. QED
  BY <1>6, <1>7, Zenon

(* When the collector sees termination outside a concurrent phase, nothing is left. *)
LEMMA TerminationIsIdle ==
    ASSUME MarkingInv, World, mPc[Collector] = "fixpoint", M!didReachTermination(Collector)
    PROVE  Idle /\ Active = {}
<1>1. mActive = 0 /\ mOwn[Collector] = 0 /\ mShared = 0
  BY MarkingFacts, WhoVisits DEF M!didReachTermination, M!hasWork
<1>2. Active = {}
  <2>1. Active \subseteq Helpers \cup {Collector}
    BY Zenon DEF Active
  <2>2. QED
    BY <1>1, <2>1, VisitorsAreFinite, Zenon DEF MarkingInv, Counted
<1>3. \A v \in Helpers : mOwn[v] = 0 /\ mPc[v] # "scan"
  BY <1>2, MarkingFacts, WhoVisits DEF MarkingInv, Held, Active
<1>4. mOwn[Mutator] = 0
  BY Zenon DEF MarkingInv, Held, World, ConcurrentLabels
<1>5. QED
  BY <1>1, <1>2, <1>3, <1>4, WhoVisits, Zenon DEF Idle

(* The collector moves without touching the counters. *)
LEMMA CollectorMoves ==
    ASSUME MarkingInv, NEW label, Moves(Collector, label), UNCHANGED <<mActive, mWaiting, mIsActive>>,
           label \in {"out", "lock", "awake", "scan", "task", "fixpoint", "endTask",
                      "waitTask", "drain", "passive", "stop", "finish"},
           \/ mPc[Collector] \notin {"lock", "asleep", "awake", "scan"} /\ label \notin {"lock", "asleep", "awake", "scan"}
           \/ label = mPc[Collector] \/ (mPc[Collector] = "asleep" /\ label = "awake"),
           mOwn' \in [M!Visitors -> Nat], \A w \in M!Visitors : w # Collector => mOwn'[w] = mOwn[w],
           mUnmarked' \in Nat, mShared' \in Nat, mVisited' \in BOOLEAN,
           Tasks', Sleeps'
    PROVE  MarkingInv' /\ Finds
<1>1. mPc'[Collector] = label
  BY Zenon DEF Moves
<1>2. Collector \in Active' <=> Collector \in Active
  BY <1>1, Zenon DEF Active
<1>3. Collector \in Waiting' <=> Collector \in Waiting
  BY <1>1, Zenon DEF Waiting
<1>4. mIsActive' = mIsActive /\ mActive' = mActive /\ mWaiting' = mWaiting
  BY Zenon
<1>5. mPc[Collector] \in {"lock", "awake"} => label # "scan"
  BY Zenon
<1>6. QED
  BY <1>2, <1>3, <1>4, <1>5, MarkingFacts, WhoVisits, MarkingStep

(* The collector's task. *)
LEMMA MarkingTask ==
    ASSUME MarkingInv, World, M!startTask \/ M!runTask \/ M!endTask \/ M!taskIsOver \/ M!finish
    PROVE  MarkingInv' /\ Finds
<1>1. Collector \in M!Visitors /\ MarkingTypes /\ mVisited \in BOOLEAN
  BY MarkingFacts, WhoVisits, Zenon
<1>2. UNCHANGED <<mActive, mWaiting, mIsActive, mShared>>
  BY Zenon DEF M!startTask, M!runTask, M!endTask, M!taskIsOver, M!finish, M!counters, M!work
<1>3. CASE M!startTask
  <2>1. /\ mPc[Collector] = "fixpoint" /\ M!didReachTermination(Collector) /\ mVisited' = FALSE
        /\ mPc' = M!GotoOf(M!Notified, Collector, "task") /\ UNCHANGED <<mUnmarked, mOwn, mShouldExit>>
    BY <1>3, Zenon DEF M!startTask, M!NotifyAndGoto, M!work
  <2>2. Moves(Collector, "task") /\ mPc'[Collector] = "task"
    <3>1. Moves(Collector, "task")
      BY <1>1, <2>1, GotoMoves
    <3>2. QED
      BY <3>1, Zenon DEF Moves
  <2>3. Idle
    BY <2>1, TerminationIsIdle, Zenon
  <2>4. Idle'
    BY <1>2, <2>1, <2>2, <2>3, WhoVisits, Zenon DEF Idle, Moves
  <2>5. ~mShouldExit
    BY <2>1, Zenon DEF MarkingInv, Tasks
  <2>6. Tasks' /\ Sleeps'
    BY <2>1, <2>2, <2>4, <2>5, Zenon DEF Tasks, Sleeps
  <2>7. QED
    BY <1>2, <2>1, <2>2, <2>6, MarkingFacts, CollectorMoves, Zenon
<1>4. CASE M!runTask
  <2>1. /\ mPc[Collector] = "task" /\ mPc' = M!GotoOf(mPc, Collector, "endTask")
        /\ UNCHANGED <<mBonusTask, mShouldExit>>
    BY <1>4, Zenon DEF M!runTask, M!Goto
  <2>2. PICK found \in 0 .. (IF mUnmarked < 2 THEN mUnmarked ELSE 2) :
           /\ mUnmarked' = mUnmarked - found /\ mOwn' = [mOwn EXCEPT ![Collector] = @ + found]
           /\ mVisited' = (mVisited \/ found > 0)
    BY <1>4, Zenon DEF M!runTask
  <2>3. mUnmarked \in Nat /\ mOwn \in [M!Visitors -> Nat] /\ mOwn[Collector] \in Nat
    BY <1>1, MarkingFacts, Zenon
  <2>4. found \in Nat /\ mUnmarked' \in Nat /\ (found = 0 \/ found > 0)
    BY <2>2, <2>3
  <2>5. mVisited' \in BOOLEAN /\ (mVisited => mVisited') /\ (found = 0 \/ mVisited')
    BY <1>1, <2>2, <2>4, Zenon
  <2>6. /\ mOwn' \in [M!Visitors -> Nat] /\ mOwn'[Collector] = mOwn[Collector] + found
        /\ \A w \in M!Visitors : w # Collector => mOwn'[w] = mOwn[w]
    BY <1>1, <2>2, <2>3, <2>4
  <2>7. Moves(Collector, "endTask") /\ mPc'[Collector] = "endTask"
    <3>1. Moves(Collector, "endTask")
      BY <1>1, <2>1, GotoMoves
    <3>2. QED
      BY <3>1, Zenon DEF Moves
  <2>8. ~mShouldExit' /\ (~mVisited => Idle)
    BY <2>1, Zenon DEF MarkingInv, Tasks
  <2>9. ~mVisited' => Idle'
    <3> SUFFICES ASSUME ~mVisited' PROVE Idle'
      BY Zenon
    <3>1. found = 0 /\ Idle
      BY <2>5, <2>8, Zenon
    <3>2. \A w \in M!Visitors : mOwn'[w] = 0
      BY <2>3, <2>6, <3>1 DEF Idle
    <3>3. \A w \in Helpers : mPc'[w] # "scan"
      BY <2>7, <3>1, WhoVisits, Zenon DEF Idle, Moves
    <3>4. QED
      BY <1>2, <3>1, <3>2, <3>3, Zenon DEF Idle
  <2>10. Tasks' /\ Sleeps'
    BY <2>7, <2>8, <2>9, Zenon DEF Tasks, Sleeps
  <2>11. QED
    BY <1>2, <2>1, <2>4, <2>5, <2>6, <2>7, <2>10, MarkingFacts, CollectorMoves, Zenon
<1>5. CASE M!endTask
  <2>1. /\ mPc[Collector] = "endTask" /\ mPc' = M!GotoOf(M!Notified, Collector, "waitTask") /\ mBonusTask' = FALSE
        /\ UNCHANGED <<mUnmarked, mOwn, mShouldExit, mVisited>>
    BY <1>5, Zenon DEF M!endTask, M!NotifyAndGoto, M!work
  <2>2. Moves(Collector, "waitTask") /\ mPc'[Collector] = "waitTask"
    <3>1. Moves(Collector, "waitTask")
      BY <1>1, <2>1, GotoMoves
    <3>2. QED
      BY <3>1, Zenon DEF Moves
  <2>3. Idle => Idle'
    BY <1>2, <2>1, <2>2, WhoVisits, Zenon DEF Idle, Moves
  <2>4. ~mShouldExit' /\ (~mVisited => Idle)
    BY <2>1, Zenon DEF MarkingInv, Tasks
  <2>5. Tasks' /\ Sleeps'
    BY <2>1, <2>2, <2>3, <2>4, Zenon DEF Tasks, Sleeps
  <2>6. QED
    BY <1>1, <1>2, <2>1, <2>2, <2>5, MarkingFacts, CollectorMoves, Zenon
<1>6. CASE M!taskIsOver
  <2>1. /\ mPc[Collector] = "waitTask" /\ \A v \in Helpers : mPc[v] # "task"
        /\ UNCHANGED <<mUnmarked, mOwn, mVisited, mBonusTask>>
    BY <1>6, Zenon DEF M!taskIsOver, M!work
  <2>2. ~mBonusTask' /\ ~mShouldExit
    BY <2>1, Zenon DEF MarkingInv, Tasks
  <2>3. CASE mPc' = M!GotoOf(mPc, Collector, "drain") /\ UNCHANGED mShouldExit
    <3>1. Moves(Collector, "drain")
      BY <1>1, <2>3, GotoMoves
    <3>2. Tasks' /\ Sleeps'
      BY <2>1, <2>2, <2>3, <3>1, CollectorStep, Zenon
    <3>3. QED
      BY <1>1, <1>2, <2>1, <3>1, <3>2, MarkingFacts, CollectorMoves, Zenon
  <2>4. CASE /\ mPc' = M!GotoOf(M!Notified, Collector, "finish") /\ mShouldExit' = TRUE
             /\ ~mVisited
    <3>1. Moves(Collector, "finish") /\ mPc'[Collector] = "finish"
      <4>1. Moves(Collector, "finish")
        BY <1>1, <2>4, GotoMoves
      <4>2. QED
        BY <4>1, Zenon DEF Moves
    <3>2. Idle
      BY <2>1, <2>4, Zenon DEF MarkingInv, Tasks
    <3>3. Idle' /\ \A w \in Helpers : mPc'[w] # "task"
      BY <1>2, <2>1, <3>1, <3>2, WhoVisits, Zenon DEF Idle, Moves
    <3>4. Tasks' /\ Sleeps'
      BY <2>2, <2>4, <3>1, <3>3, Zenon DEF Tasks, Sleeps
    <3>5. QED
      BY <1>1, <1>2, <2>1, <3>1, <3>4, MarkingFacts, CollectorMoves, Zenon
  <2>5. QED
    BY <1>6, <2>3, <2>4, Zenon DEF M!taskIsOver, M!Goto, M!NotifyAndGoto
<1>7. CASE M!finish
  <2>1. /\ mPc[Collector] = "finish" /\ mPc' = M!GotoOf(mPc, Collector, "out")
        /\ UNCHANGED <<mUnmarked, mOwn, mShouldExit, mVisited, mBonusTask>>
    BY <1>7, Zenon DEF M!finish, M!Goto, M!work
  <2>2. Moves(Collector, "out") /\ mPc'[Collector] = "out"
    <3>1. Moves(Collector, "out")
      BY <1>1, <2>1, GotoMoves
    <3>2. QED
      BY <3>1, Zenon DEF Moves
  <2>3. mShouldExit /\ Idle /\ ~mBonusTask /\ \A w \in Helpers : mPc[w] # "task"
    BY <2>1, Zenon DEF MarkingInv, Tasks
  <2>4. Idle' /\ \A w \in Helpers : mPc'[w] # "task"
    BY <1>2, <2>1, <2>2, <2>3, WhoVisits, Zenon DEF Idle, Moves
  <2>5. Tasks' /\ Sleeps'
    BY <2>1, <2>2, <2>3, <2>4, Zenon DEF Tasks, Sleeps
  <2>6. QED
    BY <1>1, <1>2, <2>1, <2>2, <2>5, MarkingFacts, CollectorMoves, Zenon
<1>8. QED
  BY <1>3, <1>4, <1>5, <1>6, <1>7, Zenon

(* The collector drains again, waits passively or stops doing so, or its time is over. *)
LEMMA MarkingPhases ==
    ASSUME MarkingInv,
           \/ M!drainAgain \/ M!drainInParallelPassively \/ M!waitForTermination
           \/ M!elapse \/ M!elapsePassively \/ M!stopTheMutator
    PROVE  MarkingInv' /\ Finds
<1>1. Collector \in M!Visitors /\ MarkingTypes /\ mVisited \in BOOLEAN
  BY MarkingFacts, WhoVisits, Zenon
<1>2. UNCHANGED <<mActive, mWaiting, mIsActive, mVisited, mUnmarked, mBonusTask, mShouldExit>>
  BY Zenon DEF M!drainAgain, M!drainInParallelPassively, M!waitForTermination, M!elapse,
     M!elapsePassively, M!stopTheMutator, M!counters, M!work
<1>3. mPc[Collector] \notin {"task", "endTask", "waitTask", "finish", "out"}
  BY Zenon DEF M!drainAgain, M!drainInParallelPassively, M!waitForTermination, M!elapse,
     M!elapsePassively, M!stopTheMutator
<1>4. ~mBonusTask' /\ ~mShouldExit' /\ \A w \in Helpers : mPc[w] # "task"
  BY <1>2, <1>3, Zenon DEF MarkingInv, Tasks
<1>5. CASE M!drainAgain
  <2>1. mPc[Collector] = "fixpoint" /\ mPc' = M!GotoOf(mPc, Collector, "drain")
        /\ UNCHANGED <<mOwn, mShared>>
    BY <1>5, Zenon DEF M!drainAgain, M!Goto, M!work
  <2>2. Moves(Collector, "drain")
    BY <1>1, <2>1, GotoMoves
  <2>3. Tasks' /\ Sleeps'
    BY <1>4, <2>2, CollectorStep, Zenon
  <2>4. QED
    BY <1>2, <2>1, <2>2, <2>3, MarkingFacts, CollectorMoves, Zenon
<1>6. CASE M!drainInParallelPassively
  <2>1. mPc[Collector] = "fixpoint"
    BY <1>6, Zenon DEF M!drainInParallelPassively
  <2>2. CASE /\ mPc' = M!GotoOf(M!Notified, Collector, "passive")
             /\ mOwn' = [mOwn EXCEPT ![Collector] = 0] /\ mShared' = mShared + mOwn[Collector]
    <3>1. /\ mOwn' \in [M!Visitors -> Nat] /\ mShared' \in Nat
          /\ \A w \in M!Visitors : w # Collector => mOwn'[w] = mOwn[w]
      BY <1>1, <2>2, MarkingFacts
    <3>2. Moves(Collector, "passive")
      BY <1>1, <2>2, GotoMoves
    <3>3. Tasks' /\ Sleeps'
      BY <1>4, <3>2, CollectorStep, Zenon
    <3>4. QED
      BY <1>2, <2>1, <3>1, <3>2, <3>3, MarkingFacts, CollectorMoves, Zenon
  <2>3. CASE mPc' = M!GotoOf(mPc, Collector, "drain") /\ UNCHANGED <<mOwn, mShared>>
    <3>1. Moves(Collector, "drain")
      BY <1>1, <2>3, GotoMoves
    <3>2. Tasks' /\ Sleeps'
      BY <1>4, <3>1, CollectorStep, Zenon
    <3>3. QED
      BY <1>2, <2>1, <2>3, <3>1, <3>2, MarkingFacts, CollectorMoves, Zenon
  <2>4. QED
    BY <1>6, <2>2, <2>3, Zenon DEF M!drainInParallelPassively, M!NotifyAndGoto, M!Goto
<1>7. CASE M!waitForTermination \/ M!stopTheMutator
  <2>1. PICK label \in {"stop", "fixpoint"} :
            /\ mPc' \in {M!GotoOf(mPc, Collector, label), M!GotoOf(M!Notified, Collector, label)}
            /\ mPc[Collector] \in {"passive", "stop"} /\ UNCHANGED <<mOwn, mShared>>
    BY <1>7, Zenon DEF M!waitForTermination, M!stopTheMutator, M!Goto, M!NotifyAndGoto, M!work
  <2>2. Moves(Collector, label)
    BY <1>1, <2>1, GotoMoves
  <2>3. Tasks' /\ Sleeps'
    BY <1>4, <2>1, <2>2, CollectorStep, Zenon
  <2>4. QED
    BY <1>2, <2>1, <2>2, <2>3, MarkingFacts, CollectorMoves, Zenon
<1>8. CASE M!elapse
  <2> DEFINE label == IF mPc[Collector] = "asleep" THEN "awake" ELSE mPc[Collector]
  <2>1. mPc[Collector] \in {"drain", "lock", "asleep", "awake", "scan"} /\ UNCHANGED <<mOwn, mShared>>
    BY <1>8, Zenon DEF M!elapse, M!work
  <2>2. Moves(Collector, label)
    <3>1. CASE mPc[Collector] = "asleep"
      BY <1>1, <1>8, <3>1, GotoMoves DEF M!elapse
    <3>2. CASE mPc[Collector] # "asleep"
      BY <1>1, <1>8, <3>2, StayMoves, Zenon DEF M!elapse
    <3>3. QED
      BY <3>1, <3>2, Zenon
  <2>3. /\ label \in {"drain", "lock", "awake", "scan"}
        /\ label = mPc[Collector] \/ (mPc[Collector] = "asleep" /\ label = "awake")
    BY <2>1, Zenon
  <2> HIDE DEF label
  <2>4. Tasks' /\ Sleeps'
    BY <1>4, <2>2, <2>3, CollectorStep, Zenon
  <2>5. QED
    BY <1>2, <2>1, <2>2, <2>3, <2>4, MarkingFacts, CollectorMoves, Zenon
<1>9. CASE M!elapsePassively
  <2>1. mPc[Collector] = "passive" /\ UNCHANGED <<mPc, mOwn, mShared>>
    BY <1>9, Zenon DEF M!elapsePassively, M!work
  <2>2. Moves(Collector, "passive")
    BY <1>1, <2>1, StayMoves, Zenon
  <2>3. Tasks' /\ Sleeps'
    BY <1>4, <2>2, CollectorStep, Zenon
  <2>4. QED
    BY <1>2, <2>1, <2>2, <2>3, MarkingFacts, CollectorMoves, Zenon
<1>10. QED
  BY <1>5, <1>6, <1>7, <1>8, <1>9, Zenon

(* The mutator's increments. *)
LEMMA MarkingIncrements ==
    ASSUME MarkingInv, M!performIncrement \/ M!mutatorScans \/ M!donateAll
    PROVE  MarkingInv' /\ Finds
<1>1. Mutator \in M!Visitors \ {Collector} /\ Mutator \notin Helpers /\ MarkingTypes
      /\ mVisited \in BOOLEAN
  BY MarkingFacts, WhoVisits, Zenon
<1>2. UNCHANGED <<mActive, mWaiting, mIsActive, mVisited, mBonusTask, mShouldExit>>
  BY Zenon DEF M!performIncrement, M!mutatorScans, M!donateAll, M!counters
<1>3. Mutator \notin Active /\ Mutator \notin Active' /\ Mutator \notin Waiting
      /\ Mutator \notin Waiting'
  BY WhoVisits, Zenon DEF Active, Waiting
<1>5. \E label \in {"out", "scan", "drain"} :
          /\ mPc' \in {M!GotoOf(mPc, Mutator, label), M!GotoOf(M!Notified, Mutator, label)}
          /\ mUnmarked' \in Nat /\ mShared' \in Nat /\ mOwn' \in [M!Visitors -> Nat]
          /\ \A w \in M!Visitors : w # Mutator => mOwn'[w] = mOwn[w]
          /\ label = "out" => mOwn'[Mutator] = 0
          /\ Idle => mShared' = 0 /\ mOwn'[Mutator] = 0
          /\ mPc'[Collector] = "asleep" => mShared' = 0
  <2>1. CASE M!performIncrement
    <3>1. PICK n \in 1 .. mShared : mOwn' = [mOwn EXCEPT ![Mutator] = n] /\ mShared' = mShared - n
      BY <2>1, Zenon DEF M!performIncrement
    <3>2. mShared \in Nat /\ n \in Nat /\ mShared' \in Nat /\ mShared # 0
      BY <3>1, MarkingFacts
    <3>3. mOwn' \in [M!Visitors -> Nat] /\ \A w \in M!Visitors : w # Mutator => mOwn'[w] = mOwn[w]
      BY <3>1, <3>2, MarkingFacts, Zenon
    <3>4. mPc' = M!GotoOf(mPc, Mutator, "scan") /\ mUnmarked' = mUnmarked /\ ~Idle
      BY <2>1, <3>2, Zenon DEF M!performIncrement, M!Goto, Idle
    <3>5. mPc'[Collector] # "asleep"
      BY <1>1, <3>2, <3>4, WhoVisits, Zenon DEF M!GotoOf, MarkingInv, MarkingTypes, Sleeps
    <3>6. QED
      BY <3>2, <3>3, <3>4, <3>5, MarkingFacts, Zenon
  <2>2. CASE M!mutatorScans
    <3>1. mOwn[Mutator] > 0 /\ M!Visit(Mutator) /\ mPc' = M!GotoOf(mPc, Mutator, "drain")
      BY <2>2, Zenon DEF M!mutatorScans, M!Goto
    <3>2. /\ mUnmarked' \in Nat /\ mShared' = mShared /\ mOwn' \in [M!Visitors -> Nat]
          /\ \A w \in M!Visitors : w # Mutator => mOwn'[w] = mOwn[w]
      BY <1>1, <3>1, VisitsCell, Zenon
    <3>3. ~Idle
      BY <1>1, <3>1 DEF Idle
    <3>4. mPc'[Collector] = "asleep" => mShared' = 0
      BY <1>1, <3>1, <3>2, WhoVisits, Zenon DEF M!GotoOf, MarkingInv, MarkingTypes, Sleeps
    <3>5. QED
      BY <3>1, <3>2, <3>3, <3>4, MarkingFacts, Zenon
  <2>3. CASE M!donateAll
    <3>1. mOwn' = [mOwn EXCEPT ![Mutator] = 0] /\ mShared' = mShared + mOwn[Mutator]
          /\ mUnmarked' = mUnmarked
      BY <2>3, Zenon DEF M!donateAll
    <3>2. /\ mOwn' \in [M!Visitors -> Nat] /\ mOwn'[Mutator] = 0 /\ mShared' \in Nat
          /\ \A w \in M!Visitors : w # Mutator => mOwn'[w] = mOwn[w]
      BY <1>1, <3>1, MarkingFacts
    <3>3. Idle => mShared' = 0
      BY <1>1, <3>1 DEF Idle
    <3>4. mPc' \in {M!GotoOf(mPc, Mutator, "out"), M!GotoOf(M!Notified, Mutator, "out")}
      BY <2>3, Zenon DEF M!donateAll, M!Goto, M!NotifyAndGoto
    <3>5. mPc'[Collector] = "asleep" => mShared' = 0
      <4>1. CASE mOwn[Mutator] = 0 /\ mPc' = M!GotoOf(mPc, Mutator, "out")
        <5>1. mPc'[Collector] = "asleep" => mShared = 0
          BY <1>1, <4>1, WhoVisits, Zenon DEF M!GotoOf, MarkingInv, MarkingTypes, Sleeps
        <5>2. QED
          BY <3>1, <4>1, <5>1
      <4>2. CASE mPc' = M!GotoOf(M!Notified, Mutator, "out")
        BY <1>1, <4>2, GotoWakes, WhoVisits, Zenon
      <4>3. QED
        BY <2>3, <4>1, <4>2, Zenon DEF M!donateAll, M!Goto, M!NotifyAndGoto
    <3>6. QED
      BY <3>1, <3>2, <3>3, <3>4, <3>5, MarkingFacts, Zenon
  <2>4. QED
    BY <2>1, <2>2, <2>3, Zenon
<1>6. PICK label \in {"out", "scan", "drain"} :
          /\ mPc' \in {M!GotoOf(mPc, Mutator, label), M!GotoOf(M!Notified, Mutator, label)}
          /\ mUnmarked' \in Nat /\ mShared' \in Nat /\ mOwn' \in [M!Visitors -> Nat]
          /\ \A w \in M!Visitors : w # Mutator => mOwn'[w] = mOwn[w]
          /\ label = "out" => mOwn'[Mutator] = 0
          /\ Idle => mShared' = 0 /\ mOwn'[Mutator] = 0
          /\ mPc'[Collector] = "asleep" => mShared' = 0
  BY <1>5, Zenon
<1>7. Moves(Mutator, label)
  BY <1>1, <1>6, GotoMoves
<1>8. Tasks' /\ Sleeps'
  BY <1>1, <1>2, <1>3, <1>6, <1>7, OtherStep, Zenon
<1>9. QED
  BY <1>1, <1>2, <1>3, <1>6, <1>7, <1>8, MarkingFacts, MarkingStep

(* Every step of parallel marking. *)
LEMMA MarkingNext ==
    ASSUME MarkingInv, World, M!Next
    PROVE  MarkingInv' /\ Finds
<1>1. CASE M!Collects
  BY <1>1, MarkingScans, MarkingDrained, MarkingMaster, MarkingTask, MarkingPhases, Zenon
     DEF M!Collects, M!Scans
<1>2. CASE \E v \in Helpers : M!Helps(v) \/ M!helperStarts(v)
  BY <1>2, MarkingScans, MarkingDrained, MarkingSlave, MarkingHelper, Zenon DEF M!Helps, M!Scans
<1>3. CASE \E v \in M!Visitors : M!donateKnownParallel(v)
  BY <1>3, MarkingDonates, Zenon
<1>4. CASE M!drainInParallelPassively \/ M!elapse
  BY <1>4, MarkingPhases, Zenon
<1>5. CASE M!performIncrement \/ M!Increments
  BY <1>5, MarkingIncrements, Zenon DEF M!Increments
<1>6. QED
  BY <1>1, <1>2, <1>3, <1>4, <1>5, Zenon DEF M!Next

(* A visitor other than the mutator's goes to another label while the world runs. *)
LEMMA WorldStep ==
    ASSUME MarkingTypes, World, NEW v \in Helpers \cup {Collector}, NEW label,
           mPc' \in {mPc, M!Notified, M!GotoOf(mPc, v, label), M!GotoOf(M!Notified, v, label)},
           UNCHANGED mWorldRuns, v = Collector => (mWorldRuns => label \in ConcurrentLabels)
    PROVE  World'
<1>1. /\ DOMAIN mPc = M!Visitors /\ Collector \in M!Visitors /\ Mutator \in M!Visitors
      /\ v \in M!Visitors /\ v # Mutator
  BY WhoVisits, Zenon DEF MarkingTypes
<1>2. mPc'[Mutator] # "out" => mPc[Mutator] # "out"
  BY <1>1, Zenon DEF M!GotoOf, M!Notified
<1>3. \/ mPc'[Collector] \in {mPc[Collector], M!Notified[Collector]}
      \/ v = Collector /\ mPc'[Collector] = label
  BY <1>1, Zenon DEF M!GotoOf, M!Notified
<1>4. mPc[Collector] \in ConcurrentLabels => M!Notified[Collector] \in ConcurrentLabels
  BY <1>1, Zenon DEF M!Notified, ConcurrentLabels
<1>5. mWorldRuns' => mPc'[Collector] \in ConcurrentLabels
  BY <1>3, <1>4, Zenon DEF World
<1>6. QED
  BY <1>2, <1>5, Zenon DEF World

(* The world runs while the mutator is in an increment. *)
LEMMA WorldNext ==
    ASSUME MarkingTypes, World, M!Next
    PROVE  World'
<1>a. /\ DOMAIN mPc = M!Visitors /\ Collector \in M!Visitors /\ Mutator \in M!Visitors
      /\ Collector # Mutator /\ Collector \notin Helpers
  BY WhoVisits, Zenon DEF MarkingTypes
<1>b. mWorldRuns => mPc[Collector] \in ConcurrentLabels
  BY Zenon DEF World
<1>c. ASSUME mPc' \in {mPc, M!Notified}, UNCHANGED mWorldRuns PROVE World'
  <2>1. mPc' \in {mPc, M!Notified, M!GotoOf(mPc, Collector, mPc[Collector]),
                  M!GotoOf(M!Notified, Collector, mPc[Collector])}
    BY <1>c, Zenon
  <2>2. QED
    BY <1>b, <1>c, <2>1, WorldStep
<1>d. ASSUME NEW v \in Helpers, NEW label, UNCHANGED mWorldRuns,
             mPc' \in {M!GotoOf(mPc, v, label), M!GotoOf(M!Notified, v, label)}
      PROVE  World'
  <2>1. mPc' \in {mPc, M!Notified, M!GotoOf(mPc, v, label), M!GotoOf(M!Notified, v, label)}
    BY <1>d, Zenon
  <2>2. QED
    BY <1>a, <1>d, <2>1, WorldStep
<1>e. ASSUME NEW label, UNCHANGED mWorldRuns, mWorldRuns => label \in ConcurrentLabels,
             mPc' \in {M!GotoOf(mPc, Collector, label), M!GotoOf(M!Notified, Collector, label)}
      PROVE  World'
  <2>1. mPc' \in {mPc, M!Notified, M!GotoOf(mPc, Collector, label), M!GotoOf(M!Notified, Collector, label)}
    BY <1>e, Zenon
  <2>2. QED
    BY <1>a, <1>e, <2>1, WorldStep
<1>1. ASSUME NEW v \in M!Visitors, M!scan(v) \/ M!donateKnownParallel(v) PROVE World'
  BY <1>1, <1>c, Zenon DEF M!scan, M!donateKnownParallel, M!clock
<1>2. ASSUME NEW v \in Helpers, M!drained(v) \/ M!helperStarts(v) \/ M!helperRanTask(v) PROVE World'
  BY <1>2, <1>d, Zenon DEF M!drained, M!helperStarts, M!helperRanTask, M!Goto, M!NotifyAndGoto, M!clock
<1>3. ASSUME NEW v \in Helpers, M!slaveDrain(v) PROVE World'
  <2>1. UNCHANGED mWorldRuns
    BY <1>3, Zenon DEF M!slaveDrain, M!clock
  <2>2. \E label : mPc' \in {M!GotoOf(mPc, v, label), M!GotoOf(M!Notified, v, label)}
    BY <1>3, Zenon DEF M!slaveDrain, M!Returns, M!Works, M!Waits, M!Goto
  <2>3. QED
    BY <1>3, <1>d, <2>1, <2>2, Zenon
<1>4. CASE M!drained(Collector)
  BY <1>4, <1>e, Zenon DEF M!drained, M!Goto, M!clock, ConcurrentLabels
<1>5. CASE M!masterDrain
  <2>1. UNCHANGED mWorldRuns
    BY <1>5, Zenon DEF M!masterDrain, M!clock
  <2>2. \E label : /\ mWorldRuns => label \in ConcurrentLabels
                  /\ mPc' \in {M!GotoOf(mPc, Collector, label), M!GotoOf(M!Notified, Collector, label)}
    BY <1>5, Zenon DEF M!masterDrain, M!Returns, M!Works, M!Waits, M!Goto, ConcurrentLabels
  <2>3. QED
    BY <1>e, <2>1, <2>2, Zenon
<1>6. CASE M!startTask \/ M!runTask \/ M!endTask \/ M!taskIsOver \/ M!finish \/ M!drainAgain
  <2>1. UNCHANGED mWorldRuns /\ mPc[Collector] \notin ConcurrentLabels
    BY <1>6, Zenon DEF M!startTask, M!runTask, M!endTask, M!taskIsOver, M!finish, M!drainAgain, M!clock,
       ConcurrentLabels
  <2>2. \E label : mPc' \in {M!GotoOf(mPc, Collector, label), M!GotoOf(M!Notified, Collector, label)}
    BY <1>6, Zenon DEF M!startTask, M!runTask, M!endTask, M!taskIsOver, M!finish, M!drainAgain,
       M!Goto, M!NotifyAndGoto
  <2>3. QED
    BY <1>b, <1>e, <2>1, <2>2, Zenon
<1>7. CASE M!drainInParallelPassively \/ M!stopTheMutator
  BY <1>7, <1>a, Zenon DEF M!drainInParallelPassively, M!stopTheMutator, M!Goto, M!NotifyAndGoto,
     M!GotoOf, M!Notified, World, ConcurrentLabels
<1>8. CASE M!waitForTermination
  BY <1>8, <1>e, Zenon DEF M!waitForTermination, M!Goto, M!NotifyAndGoto, M!clock, ConcurrentLabels
<1>9. CASE M!elapse \/ M!elapsePassively
  BY <1>9, <1>c, <1>e, Zenon DEF M!elapse, M!elapsePassively, ConcurrentLabels
<1>10. CASE M!performIncrement \/ M!mutatorScans \/ M!donateAll
  BY <1>10, <1>a, Zenon DEF M!performIncrement, M!mutatorScans, M!donateAll, M!Goto, M!NotifyAndGoto,
     M!GotoOf, M!Notified, M!clock, World, ConcurrentLabels
<1>11. CASE M!Collects
  BY <1>a, <1>11, <1>1, <1>4, <1>5, <1>6, <1>7, <1>8, <1>9, Zenon DEF M!Collects, M!Scans
<1>12. CASE \E v \in Helpers : M!Helps(v) \/ M!helperStarts(v)
  BY <1>12, <1>1, <1>2, <1>3, WhoVisits, Zenon DEF M!Helps, M!Scans
<1>13. QED
  BY <1>1, <1>7, <1>9, <1>10, <1>11, <1>12, Zenon DEF M!Next, M!Increments

(* MarkingInv and World always hold. *)
LEMMA MarkingHolds ==
    /\ M!Init => MarkingInv /\ World
    /\ MarkingInv /\ World /\ [M!Next]_(M!vars) => MarkingInv' /\ World' /\ (Finds \/ UNCHANGED mVars)
<1>1. ASSUME M!Init PROVE MarkingInv /\ World
  <2>1. M!Init
    BY <1>1, Zenon
  <2>2. mPc[Collector] = "fixpoint" /\ \A v \in M!Visitors : v # Collector => mPc[v] = "out"
    BY <2>1, WhoVisits, Zenon DEF M!Init
  <2>3. Active = {} /\ Waiting = {}
    BY <2>2, WhoVisits, Zenon DEF Active, Waiting
  <2>4. Counted
    BY <2>1, <2>3, VisitorsAreFinite DEF Counted, M!Init
  <2>5. MarkingTypes
    BY <2>1, <2>2, WhoVisits, MarkersAssumption, Zenon DEF MarkingTypes, M!Init,
       M!ParallelMarkingAssumption
  <2>6. Held
    <3>1. \A v \in M!Visitors : mOwn[v] = 0
      BY <2>1, Zenon DEF M!Init
    <3>2. QED
      BY <2>2, <3>1, WhoVisits DEF Held
  <2>7. Tasks /\ Sleeps
    BY <2>1, <2>2, WhoVisits, Zenon DEF Tasks, Sleeps, M!Init
  <2>8. World
    BY <2>1, <2>2, WhoVisits, Zenon DEF World, M!Init
  <2>9. QED
    BY <2>4, <2>5, <2>6, <2>7, <2>8, Zenon DEF MarkingInv
<1>2. ASSUME MarkingInv, World, [M!Next]_(M!vars) PROVE MarkingInv' /\ World' /\ (Finds \/ UNCHANGED mVars)
  <2>1. CASE M!Next
    BY <1>2, <2>1, MarkingNext, WorldNext, MarkingFacts, Zenon
  <2>2. CASE UNCHANGED mVars
    <3>1. MarkingTypes' /\ Active' = Active /\ Waiting' = Waiting /\ (Idle' <=> Idle)
      BY <1>2, <2>2, Zenon DEF mVars, MarkingInv, MarkingTypes, Active, Waiting, Idle
    <3>2. Counted' /\ Held' /\ Sleeps'
      BY <1>2, <2>2, <3>1, Zenon DEF mVars, MarkingInv, Counted, Held, Sleeps
    <3>3. Tasks'
      BY <1>2, <2>2, <3>1, Zenon DEF mVars, MarkingInv, Tasks
    <3>4. World'
      BY <1>2, <2>2, Zenon DEF mVars, World
    <3>5. QED
      BY <2>2, <3>1, <3>2, <3>3, <3>4, Zenon DEF MarkingInv
  <2>3. QED
    BY <1>2, <2>1, <2>2, Zenon DEF M!vars, mVars, M!work, M!counters, M!clock
<1>3. QED
  BY <1>1, <1>2, Zenon

\* The rest of the types: what no other conjunct depends on.
Labels == {"out", "lock", "asleep", "awake", "scan", "task",
           "fixpoint", "endTask", "waitTask", "drain", "passive", "stop", "finish"}
MarkingFlags ==
    /\ mBonusTask \in BOOLEAN /\ mShouldExit \in BOOLEAN /\ mElapsed \in BOOLEAN
    /\ mStopIfNecessary \in BOOLEAN /\ mTimeouts \in 0 .. MaxTimeouts
    /\ mPc \in [M!Visitors -> Labels]

(* The program counter after a step is one of the labels. *)
LEMMA GotoLabel ==
    ASSUME mPc \in [M!Visitors -> Labels], NEW v \in M!Visitors, NEW label \in Labels,
           mPc' \in {mPc, M!Notified, M!GotoOf(mPc, v, label), M!GotoOf(M!Notified, v, label)}
    PROVE  mPc' \in [M!Visitors -> Labels]
<1>1. M!Notified \in [M!Visitors -> Labels]
  BY Zenon DEF M!Notified, Labels
<1>2. QED
  BY <1>1, Zenon DEF M!GotoOf

(* Every step keeps the flags. *)
LEMMA FlagsNext ==
    ASSUME MarkingFlags, M!Next
    PROVE  MarkingFlags'
<1> USE DEF MarkingFlags
<1>a. Collector \in M!Visitors /\ Mutator \in M!Visitors /\ \A v \in Helpers : v \in M!Visitors
  BY WhoVisits, Zenon
<1>b. \A v \in M!Visitors : \A label \in Labels :
          mPc' \in {mPc, M!Notified, M!GotoOf(mPc, v, label), M!GotoOf(M!Notified, v, label)} =>
          mPc' \in [M!Visitors -> Labels]
  BY GotoLabel, Zenon
<1>c. MaxTimeouts \in Nat
  BY MarkersAssumption, Zenon DEF M!ParallelMarkingAssumption
<1>1. ASSUME NEW v \in M!Visitors, M!scan(v) \/ M!drained(v) \/ M!donateKnownParallel(v) PROVE MarkingFlags'
  BY <1>1, <1>b, Zenon DEF M!scan, M!drained, M!donateKnownParallel, M!clock, M!Goto, Labels
<1>2. CASE M!masterDrain
  <2>1. mPc' \in [M!Visitors -> Labels]
    BY <1>2, <1>a, <1>b, Zenon DEF M!masterDrain, M!Returns, M!Works, M!Waits, M!Goto, Labels
  <2>2. QED
    BY <1>2, <2>1, Zenon DEF M!masterDrain, M!clock
<1>3. ASSUME NEW v \in Helpers, M!slaveDrain(v) PROVE MarkingFlags'
  <2>1. mPc' \in [M!Visitors -> Labels]
    BY <1>3, <1>a, <1>b, Zenon DEF M!slaveDrain, M!Returns, M!Works, M!Waits, M!Goto, Labels
  <2>2. mStopIfNecessary' \in BOOLEAN
    BY <1>3, Zenon DEF M!slaveDrain
  <2>3. QED
    BY <1>3, <2>1, <2>2, Zenon DEF M!slaveDrain, M!clock
<1>4. ASSUME NEW v \in Helpers, M!helperStarts(v) \/ M!helperRanTask(v) PROVE MarkingFlags'
  BY <1>4, <1>a, <1>b, Zenon DEF M!helperStarts, M!helperRanTask, M!Goto, M!NotifyAndGoto, M!clock,
     Labels
<1>5. CASE M!startTask \/ M!runTask \/ M!endTask \/ M!taskIsOver \/ M!finish
  BY <1>5, <1>a, <1>b, Zenon DEF M!startTask, M!runTask, M!endTask, M!taskIsOver, M!finish, M!Goto,
     M!NotifyAndGoto, M!clock, Labels
<1>6. CASE M!drainAgain \/ M!waitForTermination \/ M!elapsePassively \/ M!stopTheMutator
  BY <1>6, <1>a, <1>b, Zenon DEF M!drainAgain, M!waitForTermination, M!elapsePassively, M!stopTheMutator, M!Goto,
     M!NotifyAndGoto, M!clock, Labels
<1>7. CASE M!drainInParallelPassively \/ M!elapse
  <2>1. mTimeouts' \in 0 .. MaxTimeouts
    BY <1>7, <1>c DEF M!drainInParallelPassively, M!elapse
  <2>2. mPc' \in [M!Visitors -> Labels]
    BY <1>7, <1>a, <1>b, Zenon DEF M!drainInParallelPassively, M!elapse, M!NotifyAndGoto, M!Goto, Labels
  <2>3. QED
    BY <1>7, <2>1, <2>2, Zenon DEF M!drainInParallelPassively, M!elapse
<1>8. CASE M!performIncrement \/ M!mutatorScans \/ M!donateAll
  BY <1>8, <1>a, <1>b, Zenon DEF M!performIncrement, M!mutatorScans, M!donateAll, M!Goto,
     M!NotifyAndGoto, M!clock, Labels
<1>9. QED
  BY <1>a, <1>1, <1>2, <1>3, <1>4, <1>5, <1>6, <1>7, <1>8, Zenon
  DEF M!Next, M!Collects, M!Helps, M!Scans, M!Increments

(* The comments in runFixpointPhase and runTaskInParallel, for any number of helpers: *)
(* when the collector sees termination with the world stopped no visitor holds a cell *)
(* and no helper runs a task, although it looks at no stacks but its own and the      *)
(* shared ones; the task is over everywhere when runTaskInParallel returns; and while *)
(* the collector waits for work, a visitor that is awake has some.                    *)
THEOREM TerminationHolds == M!Spec => []TerminationIsReal
<1>1. M!Init => MarkingInv /\ World /\ MarkingFlags
  <2> SUFFICES ASSUME M!Init PROVE MarkingFlags
    BY MarkingHolds, Zenon
  <2>1. M!Init /\ MaxTimeouts \in Nat
    BY MarkersAssumption, Zenon DEF M!ParallelMarkingAssumption
  <2>2. mPc \in [M!Visitors -> Labels]
    BY <2>1, Zenon DEF M!Init, Labels
  <2>3. mTimeouts \in 0 .. MaxTimeouts
    BY <2>1 DEF M!Init
  <2>4. mBonusTask = FALSE /\ mShouldExit = FALSE /\ mElapsed = FALSE /\ mStopIfNecessary = FALSE
    BY <2>1, Zenon DEF M!Init
  <2>5. QED
    BY <2>2, <2>3, <2>4, Zenon DEF MarkingFlags
<1>2. MarkingInv /\ World /\ MarkingFlags /\ [M!Next]_(M!vars) => MarkingInv' /\ World' /\ MarkingFlags'
  <2> SUFFICES ASSUME MarkingInv, World, MarkingFlags, [M!Next]_(M!vars) PROVE MarkingFlags'
    BY MarkingHolds, Zenon
  <2>1. CASE M!Next
    BY <2>1, FlagsNext, Zenon
  <2>2. CASE UNCHANGED mVars
    BY <2>2, Zenon DEF mVars, MarkingFlags
  <2>3. QED
    BY <2>1, <2>2, Zenon DEF M!vars, mVars, M!work, M!counters, M!clock
<1>3. MarkingInv /\ World /\ MarkingFlags => TerminationIsReal
  <2> SUFFICES ASSUME MarkingInv, World, MarkingFlags PROVE TerminationIsReal
    BY Zenon
  <2>1. M!TypeOK
    <3>1. mActive \in 0 .. M!Cardinality(M!Visitors)
      <4>1. IsFiniteSet(Helpers \cup {Collector}) /\ IsFiniteSet(M!Visitors)
        <5>1. IsFiniteSet(Helpers \cup {Collector})
          BY VisitorsAreFinite, Zenon
        <5>2. M!Visitors = (Helpers \cup {Collector}) \cup {Mutator}
          BY Zenon DEF M!Visitors
        <5>3. QED
          BY <5>1, <5>2, FS_AddElement, Zenon
      <4>2. Active \subseteq M!Visitors
        BY Zenon DEF Active, M!Visitors
      <4>3. mActive \in Nat /\ mActive <= Cardinality(M!Visitors) /\ Cardinality(M!Visitors) \in Nat
        BY <4>1, <4>2, FS_Subset, FS_CardinalityType, Zenon DEF MarkingInv, Counted
      <4>4. M!Cardinality(M!Visitors) = Cardinality(M!Visitors)
        BY Zenon DEF M!Cardinality, Cardinality
      <4>5. QED
        BY <4>3, <4>4
    <3>2. QED
      BY <3>1, MarkingFacts, Zenon DEF MarkingFlags, World, M!TypeOK, Labels
  <2>2. M!TerminationIsReal
    <3>1. CASE mPc[Collector] = "fixpoint" /\ M!didReachTermination(Collector)
      <4>1. Idle /\ Active = {}
        BY <3>1, TerminationIsIdle, Zenon
      <4>2. \A v \in M!Visitors : ~M!Busy(v)
        BY <3>1, <4>1, MarkingFacts, WhoVisits, Zenon DEF M!Busy, Active, MarkingInv, MarkingTypes,
           World, ConcurrentLabels
      <4>3. QED
        BY <4>1, <4>2, Zenon DEF M!TerminationIsReal, Idle
    <3>2. CASE mPc[Collector] = "finish"
      <4>1. Idle /\ \A v \in Helpers : mPc[v] # "task"
        BY <3>2, Zenon DEF MarkingInv, Tasks
      <4>2. \A v \in M!Visitors : ~M!Busy(v)
        BY <3>2, <4>1, MarkingFacts, WhoVisits, Zenon DEF M!Busy, Idle, MarkingInv, MarkingTypes,
           World, ConcurrentLabels
      <4>3. QED
        BY <4>1, <4>2, Zenon DEF M!TerminationIsReal, Idle
    <3>3. QED
      BY <3>1, <3>2, Zenon DEF M!TerminationIsReal
  <2>3. M!TaskIsOver
    BY Zenon DEF M!TaskIsOver, MarkingInv, Tasks
  <2>4. M!NobodySleepsOnWork
    <3> SUFFICES ASSUME mPc[Collector] = "asleep"
                 PROVE  mShared = 0 /\ \E v \in M!Visitors : M!Busy(v) \/ mPc[v] \in {"lock", "awake"}
      BY Zenon DEF M!NobodySleepsOnWork
    <3>1. mShared = 0 /\ Active # {}
      BY Zenon DEF MarkingInv, Sleeps
    <3>2. PICK v \in Active : TRUE
      BY <3>1, Zenon
    <3>3. v \in M!Visitors /\ (M!Busy(v) \/ mPc[v] = "lock")
      BY <3>2, WhoVisits, Zenon DEF Active, M!Busy
    <3>4. QED
      BY <3>1, <3>3, Zenon
  <2>5. QED
    BY <2>1, <2>2, <2>3, <2>4, Zenon DEF TerminationIsReal
<1>4. QED
  BY <1>1, <1>2, <1>3, PTL DEF M!Spec

(* RELEASE_ASSERT(!isEmpty()) in drainFromShared: however the visitors that wait  *)
(* are counted, one that was told there is work leaves the lock with a cell of it. *)
THEOREM StealsFindWork == M!Spec => M!StealFindsWork
<1>1. M!Init => MarkingInv /\ World
  BY MarkingHolds, Zenon
<1>2. MarkingInv /\ World /\ [M!Next]_(M!vars) => MarkingInv' /\ World'
  BY MarkingHolds, Zenon
<1>3. MarkingInv /\ World /\ [M!Next]_(M!vars) =>
      [\A v \in Helpers \cup {Collector} : mPc[v] \in {"lock", "awake"} /\ mPc'[v] = "scan" => mOwn'[v] > 0]_(M!vars)
  BY MarkingHolds, Zenon DEF Finds, mVars, M!vars, M!work, M!counters, M!clock
<1>4. QED
  BY <1>1, <1>2, <1>3, PTL DEF M!Spec, M!StealFindsWork

-----------------------------------------------------------------------------
(* Deferring the collection *)

\* The scopes that defer it, and the mutator's state inside a scope.
Deferred(s) == {i \in 1 .. Len(s) : s[i].kind \in D!Deferring}
StateIn(f) ==
    CASE f.kind = "AllocatingScope" -> "Allocating"
      [] f.kind = "SweepingScope" -> "Sweeping"
      [] f.kind = "CollectingScope" -> "Collecting"
      [] OTHER -> f.oldState

\* What holds of the scope i of a stack: it began in the state that the scope around
\* it is in; above a stop of the world there is a DeferGCForAWhile; above a collection
\* there are only scopes that defer and calls, which return at once, and below it
\* nothing is deferred; in a CollectingScope the state stays Collecting, and it is so
\* nowhere else; outside every scope that sets it the state is Running.
Nests(s, i) == s[i].oldState = IF i = 1 THEN "Running" ELSE StateIn(s[i - 1])
Shields(s, i) == s[i].kind = "worldIsStopped" /\ i < Len(s) => s[i + 1].kind = "DeferGCForAWhile"
Isolates(s, i) ==
    s[i].kind \in D!Collection =>
        /\ \A j \in 1 .. Len(s) : i < j => s[j].kind \in D!Deferring \cup {"collectIfNecessaryOrDefer"}
        /\ \A j \in 1 .. Len(s) : j < i => s[j].kind \notin D!Deferring \cup D!Collection
Collects(s, i) ==
    s[i].kind = "CollectingScope" => \A j \in 1 .. Len(s) : i < j => s[j].oldState = "Collecting"
IsCollected(s, i) ==
    /\ s[i].oldState = "Collecting" => \E j \in 1 .. Len(s) : j < i /\ s[j].kind = "CollectingScope"
    /\ s[i].oldState # "Running" => \E j \in 1 .. Len(s) : j < i /\ s[j].kind \in D!Working

\* A DeferGC, whose end may check, began Running or is inside a scope that defers.
Defers(s, i) == s[i].kind = "DeferGC" => s[i].oldState = "Running" \/ \E j \in Deferred(s) : j < i

\* A call is handed a context around it, and has only a collection or finalize above it.
Checks(s, i) ==
    s[i].kind = "collectIfNecessaryOrDefer" =>
        /\ s[i].context # 0 => s[i].context < i /\ s[s[i].context].kind = "GCDeferralContext"
        /\ i < Len(s) => s[i + 1].kind \in D!Collection \cup {"SweepingScope"}
IsLocal(f) ==
    /\ f.kind \in {"GCDeferralContext", "AllocatingScope"} => f.oldState = "Running"
    /\ f.shouldGC => f.kind = "GCDeferralContext"
    /\ f.at = "limit" => f.oldState \in {"Running", "Allocating"}

ScopeInv(s, i) ==
    /\ Nests(s, i) /\ Shields(s, i) /\ Isolates(s, i) /\ Collects(s, i) /\ IsCollected(s, i)
    /\ Defers(s, i) /\ Checks(s, i) /\ IsLocal(s[i])

\* The stack s, with d scopes that defer, in state m.
StackInv(s, d, m) ==
    /\ s \in Seq(D!Frames)
    /\ d = Cardinality(Deferred(s)) /\ Deferred(s) \subseteq 1 .. MaxFrames
    /\ m = IF Len(s) = 0 THEN "Running" ELSE StateIn(s[Len(s)])
    /\ \A i \in 1 .. Len(s) : ScopeInv(s, i)

\* Work that a check noticed: the call that takes over a note does not run inside a
\* sweep, where it would return at once.
Kept ==
    \/ dDidDeferGCWork
    \/ \E i \in 1 .. Len(dStack) :
          \/ dStack[i].shouldGC
          \/ dStack[i].kind = "collectIfNecessaryOrDefer" /\ dStack[i].oldState # "Sweeping"

DeferralInv ==
    /\ StackInv(dStack, dDepth, dMutatorState)
    /\ {dDidDeferGCWork, dMayNeedToStop, dOverLimit, dRequested, dNoticed} \subseteq BOOLEAN
    /\ dMayNeedToStop => dRequested
    /\ D!InCollection => dRequested /\ ~dMayNeedToStop
    /\ dNoticed => dRequested \/ (dOverLimit /\ Kept)

(* Facts about finite sets of scopes. *)
LEMMA DeferredIsFinite ==
    ASSUME NEW s, NEW d, NEW m, StackInv(s, d, m)
    PROVE  /\ IsFiniteSet(Deferred(s)) /\ d \in 0 .. MaxFrames
           /\ d = 0 <=> Deferred(s) = {}
<1>1. IsFiniteSet(1 .. MaxFrames) /\ Cardinality(1 .. MaxFrames) = MaxFrames
  BY FS_Interval, DeferralAssumption DEF D!MaxFramesAssumption
<1>2. IsFiniteSet(Deferred(s)) /\ Cardinality(Deferred(s)) <= MaxFrames
  BY <1>1, FS_Subset, Zenon DEF StackInv
<1>3. Cardinality(Deferred(s)) \in Nat /\ (Cardinality(Deferred(s)) = 0 <=> Deferred(s) = {})
  BY <1>2, FS_CardinalityType, FS_EmptySet, Zenon
<1>4. QED
  BY <1>2, <1>3, DeferralAssumption DEF StackInv, D!MaxFramesAssumption

(* In a collection the mutator's state is Collecting, or something is       *)
(* deferred, or the stop of the world is the innermost scope.               *)
LEMMA CollectionIsDeferred ==
    ASSUME NEW s, NEW d, NEW m, StackInv(s, d, m), NEW i \in 1 .. Len(s), s[i].kind \in D!Collection
    PROVE  m = "Collecting" \/ d > 0 \/ (i = Len(s) /\ s[i].kind = "worldIsStopped")
<1> USE DEF StackInv
<1>1. CASE s[i].kind = "worldIsStopped" /\ i < Len(s)
  <2>1. i + 1 \in Deferred(s)
    BY <1>1 DEF ScopeInv, Shields, Deferred, D!Deferring
  <2>2. QED
    BY <2>1, DeferredIsFinite
<1>2. CASE s[i].kind = "CollectingScope" /\ i < Len(s)
  <2>1. s[Len(s)].kind \in D!Deferring \cup {"collectIfNecessaryOrDefer"}
        /\ s[Len(s)].oldState = "Collecting"
    BY <1>2 DEF ScopeInv, Isolates, Collects, D!Collection
  <2>2. QED
    BY <2>1 DEF StateIn, D!Deferring
<1>3. CASE s[i].kind = "CollectingScope" /\ i = Len(s)
  BY <1>3 DEF StateIn
<1>4. QED
  BY <1>1, <1>2, <1>3 DEF D!Collection

(* The state is Collecting only inside a CollectingScope. *)
LEMMA InCollecting ==
    ASSUME NEW s, NEW d, NEW m, StackInv(s, d, m), m = "Collecting"
    PROVE  \E j \in 1 .. Len(s) : s[j].kind = "CollectingScope"
<1>1. Len(s) \in Nat /\ Len(s) > 0 /\ StateIn(s[Len(s)]) = "Collecting" /\ ScopeInv(s, Len(s))
  BY DEF StackInv
<1>2. s[Len(s)].kind = "CollectingScope" \/ s[Len(s)].oldState = "Collecting"
  BY <1>1, Zenon DEF StateIn
<1>3. QED
  BY <1>1, <1>2 DEF ScopeInv, IsCollected

(* The state is Running wherever no scope sets it. *)
LEMMA InWork ==
    ASSUME NEW s, NEW d, NEW m, StackInv(s, d, m), m # "Running"
    PROVE  \E j \in 1 .. Len(s) : s[j].kind \in D!Working
<1>1. Len(s) \in Nat /\ Len(s) > 0 /\ StateIn(s[Len(s)]) # "Running" /\ ScopeInv(s, Len(s))
  BY DEF StackInv
<1>2. s[Len(s)].kind \in D!Working \/ s[Len(s)].oldState # "Running"
  BY <1>1, Zenon DEF StateIn, D!Working
<1>3. QED
  BY <1>1, <1>2 DEF ScopeInv, IsCollected

(* A frame's context is a number. *)
LEMMA ContextIsNumber ==
    ASSUME NEW f \in D!Frames
    PROVE  f.context \in Nat
  BY DeferralAssumption DEF D!Frames, D!MaxFramesAssumption

(* A scope is opened. *)
LEMMA PushScope ==
    ASSUME NEW s, NEW d, NEW m, StackInv(s, d, m),
           NEW f \in D!Frames, f.oldState = m, ~f.shouldGC, f.at = "stop",
           Len(s) > 0 /\ s[Len(s)].kind = "collectIfNecessaryOrDefer" =>
               f.kind \in D!Collection \cup {"SweepingScope"},
           Len(s) > 0 /\ s[Len(s)].kind = "worldIsStopped" => f.kind = "DeferGCForAWhile",
           (\E i \in 1 .. Len(s) : s[i].kind \in D!Collection) =>
               f.kind \in D!Deferring \cup {"collectIfNecessaryOrDefer"},
           f.kind \in D!Collection => d = 0,
           f.kind \in D!Deferring => Len(s) < MaxFrames,
           f.kind = "DeferGC" => m = "Running" \/ d > 0,
           f.kind \in {"GCDeferralContext", "AllocatingScope"} => m = "Running",
           f.kind = "collectIfNecessaryOrDefer" /\ f.context # 0 =>
               f.context \in 1 .. Len(s) /\ s[f.context].kind = "GCDeferralContext"
    PROVE  StackInv(Append(s, f), IF f.kind \in D!Deferring THEN d + 1 ELSE d, StateIn(f))
<1> DEFINE t == Append(s, f)
<1>1. /\ s \in Seq(D!Frames) /\ t \in Seq(D!Frames) /\ Len(t) = Len(s) + 1 /\ Len(s) \in Nat
      /\ t[Len(s) + 1] = f /\ \A i \in 1 .. Len(s) : t[i] = s[i]
  BY DEF StackInv
<1> HIDE DEF t
<1>2. Deferred(t) = IF f.kind \in D!Deferring THEN Deferred(s) \cup {Len(s) + 1} ELSE Deferred(s)
  BY <1>1 DEF Deferred
<1>3. Len(s) + 1 \notin Deferred(s)
  BY <1>1 DEF Deferred
<1>4. (IF f.kind \in D!Deferring THEN d + 1 ELSE d) = Cardinality(Deferred(t))
  <2>1. IsFiniteSet(Deferred(s)) /\ d = Cardinality(Deferred(s))
    BY DeferredIsFinite, Zenon DEF StackInv
  <2>2. Cardinality(Deferred(s) \cup {Len(s) + 1}) = d + 1
    BY <1>3, <2>1, FS_AddElement, Zenon
  <2>3. QED
    BY <1>2, <2>1, <2>2, Zenon
<1>5. Deferred(t) \subseteq 1 .. MaxFrames
  BY <1>1, <1>2, DeferralAssumption DEF StackInv, D!MaxFramesAssumption
<1>6. ASSUME NEW i \in 1 .. Len(s) PROVE ScopeInv(t, i)
  <2> USE <1>1
  <2>1. ScopeInv(s, i) /\ t[i] = s[i] /\ s[i] \in D!Frames /\ i \in 1 .. Len(t)
    BY DEF StackInv
  <2>2. /\ Nests(s, i) /\ Shields(s, i) /\ Isolates(s, i) /\ Collects(s, i) /\ IsCollected(s, i)
        /\ Defers(s, i) /\ Checks(s, i) /\ IsLocal(s[i])
    BY <2>1, Zenon DEF ScopeInv
  <2>3. \A j \in 1 .. Len(t) : j \in 1 .. Len(s) \/ (j = Len(s) + 1 /\ t[j] = f)
    OBVIOUS
  <2>4. t[i + 1] = IF i < Len(s) THEN s[i + 1] ELSE f
    OBVIOUS
  <2>5. Nests(t, i)
    BY <2>1, <2>2 DEF Nests
  <2>6. Shields(t, i)
    BY <2>1, <2>2, <2>4 DEF Shields
  <2>7. Isolates(t, i)
    BY <2>1, <2>2, <2>3 DEF Isolates
  <2>8. Collects(t, i)
    <3> SUFFICES ASSUME s[i].kind = "CollectingScope" PROVE \A j \in 1 .. Len(t) : i < j => t[j].oldState = "Collecting"
      BY <2>1, Zenon DEF Collects
    <3>1. s[Len(s)].kind \in D!Deferring \cup {"collectIfNecessaryOrDefer", "CollectingScope"}
      BY <2>2 DEF Isolates, D!Collection
    <3>2. s[Len(s)].kind = "CollectingScope" \/ s[Len(s)].oldState = "Collecting"
      BY <2>2 DEF Collects
    <3>3. m = StateIn(s[Len(s)])
      BY DEF StackInv
    <3>4. f.oldState = "Collecting"
      BY <3>1, <3>2, <3>3, Zenon DEF StateIn, D!Deferring
    <3>5. \A j \in 1 .. Len(s) : i < j => s[j].oldState = "Collecting"
      BY <2>2, Zenon DEF Collects
    <3>6. QED
      BY <2>3, <3>4, <3>5, Zenon
  <2>9. IsCollected(t, i)
    BY <2>1, <2>2 DEF IsCollected
  <2>10. Defers(t, i)
    BY <1>2, <2>1, <2>2, Zenon DEF Defers
  <2>11. Checks(t, i)
    <3> SUFFICES ASSUME s[i].kind = "collectIfNecessaryOrDefer"
                 PROVE  /\ s[i].context # 0 => s[i].context < i /\ t[s[i].context].kind = "GCDeferralContext"
                        /\ t[i + 1].kind \in D!Collection \cup {"SweepingScope"}
      BY <2>1, Zenon DEF Checks
    <3>1. s[i].context \in Nat
      BY <2>1, ContextIsNumber, Zenon
    <3>2. s[i].context # 0 => s[i].context < i /\ s[s[i].context].kind = "GCDeferralContext"
      BY <2>2, Zenon DEF Checks
    <3>3. t[i + 1].kind \in D!Collection \cup {"SweepingScope"}
      BY <2>2, <2>4 DEF Checks
    <3>4. s[i].context # 0 => s[i].context \in 1 .. Len(s)
      BY <3>1, <3>2
    <3>5. QED
      BY <3>2, <3>3, <3>4, Zenon
  <2>12. QED
    BY <2>1, <2>2, <2>5, <2>6, <2>7, <2>8, <2>9, <2>10, <2>11, Zenon DEF ScopeInv
<1>7. ScopeInv(t, Len(s) + 1)
  <2> DEFINE n == Len(s) + 1
  <2>1. t[n] = f /\ Len(t) = n /\ n \in Nat /\ \A j \in 1 .. Len(t) : j < n => j \in 1 .. Len(s) /\ t[j] = s[j]
    BY <1>1
  <2>2. d > 0 => \E j \in Deferred(t) : j < n
    <3>1. d > 0 => Deferred(s) # {}
      BY DeferredIsFinite
    <3>2. \A j \in Deferred(s) : j \in Deferred(t) /\ j < n
      BY <1>1, <1>2 DEF Deferred
    <3>3. QED
      BY <3>1, <3>2, Zenon
  <2>3. Nests(t, n)
    BY <1>1 DEF StackInv, Nests
  <2>4. IsCollected(t, n)
    BY <1>1, InCollecting, InWork DEF IsCollected
  <2> HIDE DEF n
  <2>5. Shields(t, n) /\ Collects(t, n)
    BY <2>1 DEF Shields, Collects
  <2>6. Isolates(t, n)
    <3>1. f.kind \in D!Collection => \A j \in 1 .. Len(s) : s[j].kind \notin D!Deferring
      BY DeferredIsFinite, Zenon DEF Deferred
    <3>2. f.kind \in D!Collection => \A j \in 1 .. Len(s) : s[j].kind \notin D!Collection
      BY Zenon DEF D!Deferring, D!Collection
    <3>3. QED
      BY <2>1, <3>1, <3>2 DEF Isolates
  <2>7. Defers(t, n) /\ IsLocal(t[n])
    BY <2>1, <2>2, Zenon DEF Defers, IsLocal
  <2>8. Checks(t, n)
    BY <1>1, <2>1 DEF Checks, n
  <2>9. QED
    BY <2>3, <2>4, <2>5, <2>6, <2>7, <2>8, Zenon DEF ScopeInv, n
<1>8. QED
  BY <1>1, <1>4, <1>5, <1>6, <1>7 DEF StackInv, t

(* The stack without its innermost scope. *)
LEMMA PopElements ==
    ASSUME NEW S, NEW s \in Seq(S), Len(s) > 0
    PROVE  /\ SubSeq(s, 1, Len(s) - 1) \in Seq(S) /\ Len(SubSeq(s, 1, Len(s) - 1)) = Len(s) - 1
           /\ \A i \in 1 .. Len(s) - 1 : SubSeq(s, 1, Len(s) - 1)[i] = s[i]
<1> DEFINE k == Len(s) - 1
           t == [i \in 1 .. k |-> s[i]]
<1>1. k \in Nat /\ \A i \in 1 .. k : s[i] \in S
  OBVIOUS
<1>2. SubSeq(s, 1, k) = t
  OBVIOUS
<1>3. t \in Seq(S) /\ Len(t) = k /\ \A i \in 1 .. k : t[i] = s[i]
  BY <1>1
<1>4. QED
  BY <1>2, <1>3, Zenon

(* The innermost scope is closed. *)
LEMMA PopScope ==
    ASSUME NEW s, NEW d, NEW m, StackInv(s, d, m), Len(s) > 0
    PROVE  LET f == s[Len(s)] IN
           StackInv(SubSeq(s, 1, Len(s) - 1), IF f.kind \in D!Deferring THEN d - 1 ELSE d, f.oldState)
<1> DEFINE n == Len(s)
           f == s[n]
           t == SubSeq(s, 1, n - 1)
           e == IF f.kind \in D!Deferring THEN d - 1 ELSE d
<1>1. /\ s \in Seq(D!Frames) /\ n \in Nat \ {0} /\ t \in Seq(D!Frames) /\ Len(t) = n - 1
      /\ \A i \in 1 .. n - 1 : t[i] = s[i]
  BY PopElements DEF StackInv
<1>2. f \in D!Frames
  BY <1>1
<1> HIDE DEF t, n
<1>3. Deferred(t) = Deferred(s) \ {n}
  BY <1>1 DEF Deferred, n
<1>4. n \in Deferred(s) <=> f.kind \in D!Deferring
  BY <1>1 DEF Deferred, n
<1>5. e = Cardinality(Deferred(t))
  <2>1. IsFiniteSet(Deferred(s)) /\ d = Cardinality(Deferred(s))
    BY DeferredIsFinite, Zenon DEF StackInv
  <2>2. CASE n \in Deferred(s)
    BY <1>3, <1>4, <2>1, <2>2, FS_RemoveElement, Zenon
  <2>3. CASE n \notin Deferred(s)
    <3>1. Deferred(t) = Deferred(s)
      BY <1>3, <2>3, Zenon
    <3>2. QED
      BY <1>4, <2>1, <2>3, <3>1, Zenon
  <2>4. QED
    BY <2>2, <2>3, Zenon
<1>6. f.oldState = IF Len(t) = 0 THEN "Running" ELSE StateIn(t[Len(t)])
  <2>1. Nests(s, n)
    BY <1>1 DEF StackInv, ScopeInv, n
  <2>2. QED
    BY <1>1, <2>1 DEF Nests
<1>7. ASSUME NEW i \in 1 .. n - 1 PROVE ScopeInv(t, i)
  <2>1. /\ t[i] = s[i] /\ s[i] \in D!Frames /\ i \in 1 .. Len(t) /\ (i < Len(t) => t[i + 1] = s[i + 1] /\ i < Len(s))
        /\ \A j \in 1 .. Len(t) : t[j] = s[j] /\ j \in 1 .. Len(s)
        /\ \A j \in 1 .. Len(s) : j < i => t[j] = s[j] /\ j \in 1 .. Len(t)
    BY <1>1 DEF n
  <2>2. ScopeInv(s, i)
    BY <1>1 DEF StackInv, n
  <2>3. /\ Nests(s, i) /\ Shields(s, i) /\ Isolates(s, i) /\ Collects(s, i) /\ IsCollected(s, i)
        /\ Defers(s, i) /\ Checks(s, i) /\ IsLocal(s[i])
    BY <2>2, Zenon DEF ScopeInv
  <2>4. Nests(t, i)
    BY <1>1, <2>1, <2>3 DEF Nests
  <2>5. Shields(t, i) /\ IsCollected(t, i)
    BY <2>1, <2>3, Zenon DEF Shields, IsCollected
  <2>6. Isolates(t, i) /\ Collects(t, i)
    BY <2>1, <2>3, Zenon DEF Isolates, Collects
  <2>7. Defers(t, i)
    <3>1. \A j \in Deferred(s) : j < i => j \in Deferred(t)
      BY <1>1, <1>3
    <3>2. QED
      BY <2>1, <2>3, <3>1, Zenon DEF Defers
  <2>8. Checks(t, i)
    <3>1. s[i].context \in Nat
      BY <2>1, ContextIsNumber, Zenon
    <3>2. s[i].context # 0 /\ s[i].context < i => t[s[i].context] = s[s[i].context]
      BY <1>1, <3>1
    <3>3. QED
      BY <2>1, <2>3, <3>2, Zenon DEF Checks
  <2>9. QED
    BY <2>1, <2>3, <2>4, <2>5, <2>6, <2>7, <2>8, Zenon DEF ScopeInv
<1>8. QED
  BY <1>1, <1>3, <1>5, <1>6, <1>7, Zenon DEF StackInv, t, n

(* A note is left in a context, or a call goes on. *)
LEMMA UpdateScope ==
    ASSUME NEW s, NEW d, NEW m, StackInv(s, d, m), NEW t \in Seq(D!Frames), Len(t) = Len(s),
           \A i \in 1 .. Len(s) :
               /\ t[i].kind = s[i].kind /\ t[i].oldState = s[i].oldState /\ t[i].context = s[i].context
               /\ t[i].shouldGC => s[i].shouldGC \/ s[i].kind = "GCDeferralContext"
               /\ t[i].at = "limit" => s[i].at = "limit" \/ s[i].oldState \in {"Running", "Allocating"}
    PROVE  StackInv(t, d, m)
<1>1. Deferred(t) = Deferred(s)
  BY Zenon DEF Deferred
<1>2. Len(s) > 0 => StateIn(t[Len(s)]) = StateIn(s[Len(s)])
  BY DEF StateIn, StackInv
<1>3. ASSUME NEW i \in 1 .. Len(s) PROVE ScopeInv(t, i)
  <2>1. /\ Nests(s, i) /\ Shields(s, i) /\ Isolates(s, i) /\ Collects(s, i) /\ IsCollected(s, i)
        /\ Defers(s, i) /\ Checks(s, i) /\ IsLocal(s[i])
    BY Zenon DEF StackInv, ScopeInv
  <2>2. s \in Seq(D!Frames) /\ Len(s) \in Nat /\ s[i] \in D!Frames /\ s[i].context \in Nat
    BY ContextIsNumber DEF StackInv
  <2>3. Nests(t, i)
    BY <2>1, <2>2 DEF Nests, StateIn
  <2>4. Shields(t, i)
    BY <2>1, <2>2 DEF Shields
  <2>5. Isolates(t, i) /\ Collects(t, i)
    BY <2>1, Zenon DEF Isolates, Collects
  <2>6. IsCollected(t, i) /\ IsLocal(t[i])
    BY <2>1, Zenon DEF IsCollected, IsLocal
  <2>7. Defers(t, i)
    BY <1>1, <2>1, Zenon DEF Defers
  <2>8. Checks(t, i)
    <3>1. s[i].context # 0 /\ s[i].context < i => t[s[i].context].kind = s[s[i].context].kind
      <4>1. s[i].context # 0 /\ s[i].context < i => s[i].context \in 1 .. Len(s)
        BY <2>2
      <4>2. QED
        BY <4>1, Zenon
    <3>2. i < Len(s) => t[i + 1].kind = s[i + 1].kind
      BY <2>2
    <3>3. QED
      BY <2>1, <3>1, <3>2, Zenon DEF Checks
  <2>9. QED
    BY <2>1, <2>3, <2>4, <2>5, <2>6, <2>7, <2>8, Zenon DEF ScopeInv
<1>4. QED
  BY <1>1, <1>2, <1>3 DEF StackInv

(* The mutator's state is one of the four. *)
LEMMA StateIsState ==
    ASSUME NEW s, NEW d, NEW m, StackInv(s, d, m)
    PROVE  m \in D!States
<1>1. Len(s) > 0 => s[Len(s)] \in D!Frames
  BY DEF StackInv
<1>2. QED
  BY <1>1 DEF StackInv, StateIn, D!Frames, D!States

(* The frame of a scope that is opened. *)
LEMMA FrameFields ==
    ASSUME NEW k \in D!Kinds, dMutatorState \in D!States
    PROVE  /\ D!Frame(k) \in D!Frames /\ D!Frame(k).kind = k /\ D!Frame(k).oldState = dMutatorState
           /\ ~D!Frame(k).shouldGC /\ D!Frame(k).at = "stop"
BY DeferralAssumption DEF D!Frame, D!Frames, D!MaxFramesAssumption

(* The frame of the call itself. *)
LEMMA CallFields ==
    ASSUME NEW c \in 0 .. MaxFrames, NEW m \in D!States
    PROVE  /\ D!Call(c, m) \in D!Frames /\ D!Call(c, m).kind = "collectIfNecessaryOrDefer"
           /\ D!Call(c, m).oldState = m /\ D!Call(c, m).context = c
           /\ ~D!Call(c, m).shouldGC /\ D!Call(c, m).at = "stop"
BY Zenon DEF D!Call, D!Frames, D!Kinds

(* A step after which no collection begins, no note is lost and nothing new *)
(* is noticed preserves the rest of the invariant.                          *)
LEMMA DeferralFrame ==
    ASSUME DeferralInv, StackInv(dStack', dDepth', dMutatorState'),
           D!InCollection' => D!InCollection, dNoticed /\ ~dRequested /\ Kept => Kept',
           UNCHANGED <<dRequested, dMayNeedToStop, dNoticed>>,
           dDidDeferGCWork' \in BOOLEAN, dOverLimit' \in {dOverLimit, TRUE}
    PROVE  DeferralInv'
BY Zenon DEF DeferralInv

(* Such a step opens a scope other than a collection. *)
LEMMA DeferralPush ==
    ASSUME DeferralInv, NEW f \in D!Frames, f.kind \notin D!Collection, dStack' = Append(dStack, f),
           StackInv(dStack', dDepth', dMutatorState'),
           UNCHANGED <<dRequested, dMayNeedToStop, dNoticed, dDidDeferGCWork>>,
           dOverLimit' \in {dOverLimit, TRUE}
    PROVE  DeferralInv'
<1>1. /\ dStack \in Seq(D!Frames) /\ Len(dStack') = Len(dStack) + 1 /\ dStack'[Len(dStack) + 1] = f
      /\ \A i \in 1 .. Len(dStack) : dStack'[i] = dStack[i] /\ i \in 1 .. Len(dStack')
  BY DEF DeferralInv, StackInv
<1>2. D!InCollection' => D!InCollection
  BY <1>1 DEF D!InCollection
<1>3. Kept => Kept'
  BY <1>1, Zenon DEF Kept
<1>4. QED
  BY <1>2, <1>3, DeferralFrame, Zenon DEF DeferralInv

(* No collection is under way where nothing is deferred and a call checks. *)
LEMMA NoCollectionAround ==
    ASSUME NEW s, NEW d, NEW m, StackInv(s, d, m), d = 0, m \in {"Running", "Allocating"},
           Len(s) > 0, s[Len(s)].kind = "collectIfNecessaryOrDefer"
    PROVE  \A i \in 1 .. Len(s) : s[i].kind \notin D!Collection
BY CollectionIsDeferred

(* Where the program allocates, no scope has set the mutator's state. *)
LEMMA AllocatesRunning ==
    ASSUME DeferralInv, D!MayAllocate
    PROVE  dMutatorState = "Running" /\ ~D!InCollection
<1>1. \A i \in 1 .. Len(dStack) : dStack[i].kind \notin D!Working
  BY Zenon DEF D!MayAllocate
<1>2. QED
  BY <1>1, InWork, Zenon DEF DeferralInv, D!InCollection, D!Collection, D!Working

(* deferGC, deferGCForAWhile, gcDeferralContext, sweep, finalize and         *)
(* reportExtraMemoryAllocated.                                              *)
LEMMA DeferralOpens ==
    ASSUME DeferralInv,
           \/ D!deferGC \/ D!deferGCForAWhile \/ D!gcDeferralContext
           \/ D!sweep \/ D!finalize \/ D!reportExtraMemoryAllocated
    PROVE  DeferralInv'
<1> USE DEF D!conductor
<1>a. /\ StackInv(dStack, dDepth, dMutatorState) /\ dMutatorState \in D!States /\ dStack \in Seq(D!Frames)
      /\ dDepth \in Nat /\ Len(dStack) \in Nat /\ 0 \in 0 .. MaxFrames
      /\ Len(dStack) = 0 <=> dStack = << >>
  BY StateIsState, DeferredIsFinite, DeferralAssumption DEF DeferralInv, StackInv,
     D!MaxFramesAssumption
<1>b. D!InCollection <=> \E i \in 1 .. Len(dStack) : dStack[i].kind \in D!Collection
  BY Zenon DEF D!InCollection
<1>1. CASE D!deferGC
  <2> DEFINE f == D!Frame("DeferGC")
  <2>1. /\ f \in D!Frames /\ f.kind = "DeferGC" /\ f.oldState = dMutatorState /\ ~f.shouldGC /\ f.at = "stop"
        /\ f.kind \in D!Deferring /\ f.kind \notin D!Collection
    BY <1>a, FrameFields, Zenon DEF D!Kinds, D!Deferring, D!Collection
  <2>2. StateIn(f) = dMutatorState
    BY <2>1, Zenon DEF StateIn
  <2> HIDE DEF f
  <2>3. StackInv(Append(dStack, f), dDepth + 1, dMutatorState)
    BY <1>1, <1>a, <2>1, <2>2, PushScope DEF D!deferGC, D!Program, D!Top, D!Room
  <2>4. QED
    BY <1>1, <2>1, <2>3, DeferralPush, Zenon DEF D!deferGC, f
<1>2. CASE D!deferGCForAWhile
  <2> DEFINE f == D!Frame("DeferGCForAWhile")
  <2>1. /\ f \in D!Frames /\ f.kind = "DeferGCForAWhile" /\ f.oldState = dMutatorState /\ ~f.shouldGC /\ f.at = "stop"
        /\ f.kind \in D!Deferring /\ f.kind \notin D!Collection
    BY <1>a, FrameFields, Zenon DEF D!Kinds, D!Deferring, D!Collection
  <2>2. StateIn(f) = dMutatorState
    BY <2>1, Zenon DEF StateIn
  <2> HIDE DEF f
  <2>3. StackInv(Append(dStack, f), dDepth + 1, dMutatorState)
    BY <1>2, <1>a, <2>1, <2>2, PushScope DEF D!deferGCForAWhile, D!Program, D!Top, D!Room
  <2>4. QED
    BY <1>2, <2>1, <2>3, DeferralPush, Zenon DEF D!deferGCForAWhile, f
<1>3. CASE D!gcDeferralContext
  <2> DEFINE f == D!Frame("GCDeferralContext")
  <2>1. /\ f \in D!Frames /\ f.kind = "GCDeferralContext" /\ f.oldState = dMutatorState /\ ~f.shouldGC /\ f.at = "stop"
        /\ f.kind \notin D!Deferring /\ f.kind \notin D!Collection
    BY <1>a, FrameFields, Zenon DEF D!Kinds, D!Deferring, D!Collection
  <2>2. StateIn(f) = dMutatorState
    BY <2>1, Zenon DEF StateIn
  <2> HIDE DEF f
  <2>a. dMutatorState = "Running" /\ ~D!InCollection
    BY <1>3, AllocatesRunning, Zenon DEF D!gcDeferralContext
  <2>3. StackInv(Append(dStack, f), dDepth, dMutatorState)
    BY <1>3, <1>a, <1>b, <2>1, <2>2, <2>a, PushScope
    DEF D!gcDeferralContext, D!MayAllocate, D!Program, D!Top, D!Collection
  <2>4. QED
    BY <1>3, <2>1, <2>3, DeferralPush, Zenon DEF D!gcDeferralContext, f
<1>4. CASE D!sweep \/ D!finalize
  <2> DEFINE f == D!Frame("SweepingScope")
  <2>1. /\ f \in D!Frames /\ f.kind = "SweepingScope" /\ f.oldState = dMutatorState /\ ~f.shouldGC /\ f.at = "stop"
        /\ f.kind \notin D!Deferring /\ f.kind \notin D!Collection
    BY <1>a, FrameFields, Zenon DEF D!Kinds, D!Deferring, D!Collection
  <2>2. StateIn(f) = "Sweeping"
    BY <2>1, Zenon DEF StateIn
  <2> HIDE DEF f
  <2>3. ~D!InCollection /\ (Len(dStack) > 0 => dStack[Len(dStack)].kind # "worldIsStopped")
    <3>1. CASE D!sweep
      BY <1>a, <1>b, <3>1 DEF D!sweep, D!Collection
    <3>2. CASE D!finalize
      <4>1. Len(dStack) > 0 /\ dDepth = 0 /\ dStack[Len(dStack)].kind = "collectIfNecessaryOrDefer"
        BY <1>a, <3>2 DEF D!finalize, D!Top
      <4>2. dStack[Len(dStack)].at = "limit" /\ ScopeInv(dStack, Len(dStack))
            /\ dMutatorState = dStack[Len(dStack)].oldState
        BY <1>a, <3>2, <4>1 DEF D!finalize, D!Calling, StackInv, StateIn
      <4>3. dMutatorState \in {"Running", "Allocating"}
        BY <4>2, Zenon DEF ScopeInv, IsLocal
      <4>4. QED
        BY <1>a, <1>b, <4>1, <4>3, NoCollectionAround
    <3>3. QED
      BY <1>4, <3>1, <3>2, Zenon
  <2>4. StackInv(Append(dStack, f), dDepth, "Sweeping")
    BY <1>a, <1>b, <2>1, <2>2, <2>3, PushScope, Zenon
  <2>5. QED
    BY <1>4, <2>1, <2>4, DeferralPush, Zenon DEF D!sweep, D!finalize, f
<1>5. CASE D!reportExtraMemoryAllocated
  <2> DEFINE f == D!Call(0, dMutatorState)
  <2>1. /\ f \in D!Frames /\ f.kind = "collectIfNecessaryOrDefer" /\ f.oldState = dMutatorState /\ ~f.shouldGC
        /\ f.at = "stop" /\ f.context = 0 /\ f.kind \notin D!Deferring /\ f.kind \notin D!Collection
    BY <1>a, CallFields DEF D!Deferring, D!Collection
  <2>2. StateIn(f) = dMutatorState
    BY <2>1, Zenon DEF StateIn
  <2> HIDE DEF f
  <2>3. StackInv(Append(dStack, f), dDepth, dMutatorState)
    BY <1>5, <1>a, <2>1, <2>2, PushScope DEF D!reportExtraMemoryAllocated, D!Program, D!Top
  <2>4. QED
    BY <1>5, <2>1, <2>3, DeferralPush, Zenon DEF D!reportExtraMemoryAllocated, f
<1>6. QED
  BY <1>1, <1>2, <1>3, <1>4, <1>5, Zenon

(* The stack after its innermost scope is closed. *)
LEMMA PoppedStack ==
    ASSUME DeferralInv, dStack # << >>
    PROVE  LET f == dStack[Len(dStack)] IN
           /\ StackInv(D!Pop, IF f.kind \in D!Deferring THEN dDepth - 1 ELSE dDepth, f.oldState)
           /\ dMutatorState = StateIn(f) /\ f \in D!Frames /\ dDepth \in Nat
           /\ Len(dStack) \in Nat \ {0} /\ ScopeInv(dStack, Len(dStack)) /\ dMutatorState \in D!States
           /\ D!Pop \in Seq(D!Frames) /\ Len(D!Pop) = Len(dStack) - 1
           /\ \A i \in 1 .. Len(dStack) - 1 : D!Pop[i] = dStack[i]
<1>1. StackInv(dStack, dDepth, dMutatorState) /\ dStack \in Seq(D!Frames) /\ Len(dStack) \in Nat \ {0}
  BY DEF DeferralInv, StackInv
<1>2. dDepth \in Nat /\ dMutatorState \in D!States
  BY <1>1, DeferredIsFinite, StateIsState
<1>3. /\ D!Pop \in Seq(D!Frames) /\ Len(D!Pop) = Len(dStack) - 1
      /\ \A i \in 1 .. Len(dStack) - 1 : D!Pop[i] = dStack[i]
  BY <1>1, PopElements DEF D!Pop
<1>4. LET f == dStack[Len(dStack)] IN
      StackInv(D!Pop, IF f.kind \in D!Deferring THEN dDepth - 1 ELSE dDepth, f.oldState)
  BY <1>1, PopScope DEF D!Pop
<1>5. /\ dMutatorState = StateIn(dStack[Len(dStack)]) /\ dStack[Len(dStack)] \in D!Frames
      /\ ScopeInv(dStack, Len(dStack))
  BY <1>1 DEF StackInv
<1>6. QED
  BY <1>1, <1>2, <1>3, <1>4, <1>5, Zenon

(* Closing a scope that holds no note preserves the invariant. *)
LEMMA DeferralPop ==
    ASSUME DeferralInv, dStack # << >>, dStack' = D!Pop, ~dStack[Len(dStack)].shouldGC,
           \/ dStack[Len(dStack)].kind # "collectIfNecessaryOrDefer"
           \/ dStack[Len(dStack)].oldState = "Sweeping" \/ dRequested \/ ~dNoticed,
           StackInv(dStack', dDepth', dMutatorState'),
           UNCHANGED <<dRequested, dMayNeedToStop, dNoticed, dDidDeferGCWork, dOverLimit>>
    PROVE  DeferralInv'
<1>1. /\ Len(dStack) \in Nat \ {0} /\ Len(dStack') = Len(dStack) - 1
      /\ \A i \in 1 .. Len(dStack) : i # Len(dStack) => i \in 1 .. Len(dStack') /\ dStack'[i] = dStack[i]
      /\ \A i \in 1 .. Len(dStack') : i \in 1 .. Len(dStack) /\ dStack'[i] = dStack[i]
  BY PoppedStack
<1>2. D!InCollection' => D!InCollection
  BY <1>1, Zenon DEF D!InCollection
<1>3. dNoticed /\ ~dRequested /\ Kept => Kept'
  BY <1>1, Zenon DEF Kept
<1>4. QED
  BY <1>2, <1>3, DeferralFrame, Zenon DEF DeferralInv

(* Closing a scope and acting on its note, with a call that checks. *)
LEMMA DeferralReplace ==
    ASSUME DeferralInv, dStack # << >>, dStack' = Append(D!Pop, D!Call(0, dMutatorState)),
           dStack[Len(dStack)].kind \in {"DeferGC", "GCDeferralContext"}, dMutatorState = "Running",
           dDepth' = (IF dStack[Len(dStack)].kind = "DeferGC" THEN dDepth - 1 ELSE dDepth),
           dDidDeferGCWork' \in BOOLEAN,
           UNCHANGED <<dMutatorState, dRequested, dMayNeedToStop, dNoticed, dOverLimit>>
    PROVE  DeferralInv'
<1> DEFINE n == Len(dStack)
           c == D!Call(0, dMutatorState)
<1>1. /\ n \in Nat \ {0} /\ D!Pop \in Seq(D!Frames) /\ Len(D!Pop) = n - 1
      /\ \A i \in 1 .. n - 1 : D!Pop[i] = dStack[i]
      /\ dMutatorState \in D!States /\ dMutatorState = StateIn(dStack[n])
  BY PoppedStack, Zenon
<1>2. dStack[n].oldState = dMutatorState
  BY <1>1, Zenon DEF StateIn
<1>3. StackInv(D!Pop, dDepth', dMutatorState)
  BY <1>2, PoppedStack, Zenon DEF D!Deferring
<1>4. /\ c \in D!Frames /\ c.kind = "collectIfNecessaryOrDefer" /\ c.oldState = dMutatorState
      /\ ~c.shouldGC /\ c.at = "stop" /\ c.context = 0
      /\ c.kind \notin D!Deferring /\ c.kind \notin D!Collection
  BY <1>1, CallFields, DeferralAssumption DEF D!Deferring, D!Collection, D!MaxFramesAssumption
<1>5. StateIn(c) = dMutatorState
  BY <1>4, Zenon DEF StateIn
<1> HIDE DEF c
<1>6. n > 1 => ScopeInv(dStack, n - 1)
  BY <1>1 DEF DeferralInv, StackInv
<1>7. Len(D!Pop) > 0 => D!Pop[Len(D!Pop)].kind \notin {"collectIfNecessaryOrDefer", "worldIsStopped"}
  <2> SUFFICES ASSUME n > 1 PROVE dStack[n - 1].kind \notin {"collectIfNecessaryOrDefer", "worldIsStopped"}
    BY <1>1
  <2>1. n - 1 < n /\ n - 1 + 1 = n /\ Shields(dStack, n - 1) /\ Checks(dStack, n - 1)
    BY <1>1, <1>6 DEF ScopeInv
  <2>2. QED
    BY <2>1, Zenon DEF Shields, Checks, D!Collection
<1>8. StackInv(Append(D!Pop, c), dDepth', dMutatorState)
  BY <1>3, <1>4, <1>5, <1>7, PushScope, Zenon
<1>9. StackInv(dStack', dDepth', dMutatorState')
  BY <1>8, Zenon DEF c
<1>10. /\ Len(dStack') = n /\ dStack'[n] = c /\ \A i \in 1 .. n - 1 : dStack'[i] = dStack[i]
  <2>1. dStack' = Append(D!Pop, c)
    BY Zenon DEF c
  <2>2. /\ Len(dStack') = Len(D!Pop) + 1 /\ dStack'[Len(D!Pop) + 1] = c
        /\ \A i \in 1 .. Len(D!Pop) : dStack'[i] = D!Pop[i]
    BY <1>1, <1>4, <2>1
  <2>3. QED
    BY <1>1, <2>2
<1>11. D!InCollection' => D!InCollection
  <2>1. \A i \in 1 .. Len(dStack') : dStack'[i] = c \/ (i \in 1 .. Len(dStack) /\ dStack'[i] = dStack[i])
    BY <1>1, <1>10
  <2>2. QED
    BY <1>4, <2>1, Zenon DEF D!InCollection
<1>12. Kept'
  BY <1>1, <1>4, <1>10 DEF Kept
<1>13. QED
  BY <1>9, <1>11, <1>12, DeferralFrame, Zenon DEF DeferralInv

(* The ends of the scopes. *)
LEMMA DeferralCloses ==
    ASSUME DeferralInv,
           D!endDeferGC \/ D!endDeferGCForAWhile \/ D!endGCDeferralContext \/ D!endScope
    PROVE  DeferralInv'
<1> USE DEF D!conductor, D!Top
<1> DEFINE f == dStack[Len(dStack)]
<1>a. /\ StackInv(D!Pop, IF f.kind \in D!Deferring THEN dDepth - 1 ELSE dDepth, f.oldState)
      /\ dMutatorState = StateIn(f) /\ dDepth \in Nat /\ ScopeInv(dStack, Len(dStack))
      /\ Len(dStack) \in Nat \ {0} /\ dStack # << >>
  BY PoppedStack, Zenon DEF D!endDeferGC, D!endDeferGCForAWhile, D!endGCDeferralContext, D!endScope
<1>b. f.kind # "GCDeferralContext" => ~f.shouldGC
  BY <1>a, Zenon DEF ScopeInv, IsLocal
<1>1. CASE D!endDeferGC
  <2>1. f.kind = "DeferGC" /\ dDepth' = dDepth - 1 /\ f.oldState = dMutatorState
    BY <1>1, <1>a, Zenon DEF D!endDeferGC, StateIn
  <2>2. CASE dDidDeferGCWork /\ dDepth' = 0
    <3>1. Len(dStack) \in Deferred(dStack) /\ IsFiniteSet(Deferred(dStack))
          /\ Cardinality(Deferred(dStack)) = 1
      <4>1. Len(dStack) \in Deferred(dStack)
        <5>1. Len(dStack) \in 1 .. Len(dStack)
          BY <1>a
        <5>2. QED
          BY <2>1, <5>1, Zenon DEF Deferred, D!Deferring
      <4>2. dDepth = 1
        BY <1>a, <2>1, <2>2
      <4>3. QED
        BY <4>1, <4>2, DeferredIsFinite, Zenon DEF DeferralInv, StackInv
    <3>2. \A j \in Deferred(dStack) : j = Len(dStack)
      BY <3>1, FS_Singleton
    <3>3. dMutatorState = "Running"
      <4>1. ~ \E j \in Deferred(dStack) : j < Len(dStack)
        BY <1>a, <3>2
      <4>2. QED
        BY <1>a, <2>1, <4>1, Zenon DEF ScopeInv, Defers
    <3>4. QED
      BY <1>1, <1>a, <2>1, <2>2, <3>3, DeferralReplace, Zenon DEF D!endDeferGC
  <2>3. CASE ~(dDidDeferGCWork /\ dDepth' = 0)
    <3>1. StackInv(dStack', dDepth', dMutatorState')
      BY <1>1, <1>a, <2>1, <2>3, Zenon DEF D!endDeferGC, D!Deferring
    <3>2. QED
      BY <1>1, <1>a, <1>b, <2>1, <2>3, <3>1, DeferralPop, Zenon DEF D!endDeferGC
  <2>4. QED
    BY <2>2, <2>3, Zenon
<1>2. CASE D!endDeferGCForAWhile
  <2>1. f.kind = "DeferGCForAWhile" /\ dDepth' = dDepth - 1 /\ f.oldState = dMutatorState
    BY <1>2, <1>a, Zenon DEF D!endDeferGCForAWhile, StateIn
  <2>2. StackInv(dStack', dDepth', dMutatorState')
    BY <1>2, <1>a, <2>1, Zenon DEF D!endDeferGCForAWhile, D!Deferring
  <2>3. QED
    BY <1>2, <1>a, <1>b, <2>1, <2>2, DeferralPop, Zenon DEF D!endDeferGCForAWhile
<1>3. CASE D!endGCDeferralContext
  <2>1. f.kind = "GCDeferralContext" /\ f.oldState = dMutatorState /\ dMutatorState = "Running"
    BY <1>3, <1>a, Zenon DEF D!endGCDeferralContext, StateIn, ScopeInv, IsLocal
  <2>2. CASE f.shouldGC
    BY <1>3, <1>a, <2>1, <2>2, DeferralReplace, Zenon DEF D!endGCDeferralContext, DeferralInv
  <2>3. CASE ~f.shouldGC
    <3>1. StackInv(dStack', dDepth', dMutatorState')
      BY <1>3, <1>a, <2>1, <2>3, Zenon DEF D!endGCDeferralContext, D!Deferring
    <3>2. QED
      BY <1>3, <1>a, <2>1, <2>3, <3>1, DeferralPop, Zenon DEF D!endGCDeferralContext
  <2>4. QED
    BY <2>2, <2>3, Zenon
<1>4. CASE D!endScope
  <2>1. f.kind \in {"SweepingScope", "AllocatingScope"}
    BY <1>4, Zenon DEF D!endScope
  <2>2. StackInv(dStack', dDepth', dMutatorState')
    <3>1. dMutatorState' = f.oldState
      BY <1>4, <1>a, Zenon DEF D!endScope, ScopeInv, IsLocal
    <3>2. QED
      BY <1>4, <1>a, <2>1, <3>1, Zenon DEF D!endScope, D!Deferring
  <2>3. QED
    BY <1>4, <1>a, <1>b, <2>1, <2>2, DeferralPop, Zenon DEF D!endScope
<1>5. QED
  BY <1>1, <1>2, <1>3, <1>4, Zenon

(* allocateSlowCase *)
LEMMA DeferralAllocates ==
    ASSUME DeferralInv, D!allocateSlowCase
    PROVE  DeferralInv'
<1> USE DEF D!conductor, D!Top
<1> DEFINE a == D!Frame("AllocatingScope")
           context == IF D!Top("GCDeferralContext") THEN Len(dStack) ELSE 0
           c == D!Call(context, "Allocating")
           t == Append(dStack, a)
<1>1. /\ StackInv(dStack, dDepth, dMutatorState) /\ dMutatorState = "Running" /\ dStack \in Seq(D!Frames)
      /\ Len(dStack) \in Nat /\ Len(dStack) + 1 < MaxFrames /\ (Len(dStack) = 0 <=> dStack = << >>)
  BY AllocatesRunning, DeferralAssumption DEF DeferralInv, StackInv, D!allocateSlowCase,
     D!MaxFramesAssumption
<1>2. \A i \in 1 .. Len(dStack) : dStack[i].kind \notin D!Collection
  BY AllocatesRunning, Zenon DEF D!allocateSlowCase, D!InCollection
<1>3. /\ a \in D!Frames /\ a.kind = "AllocatingScope" /\ a.oldState = dMutatorState /\ ~a.shouldGC
      /\ a.at = "stop" /\ a.kind \notin D!Deferring /\ a.kind \notin D!Collection
  BY <1>1, FrameFields, Zenon DEF D!Kinds, D!States, D!Deferring, D!Collection
<1>4. StateIn(a) = "Allocating"
  BY <1>3, Zenon DEF StateIn
<1> HIDE DEF a
<1>5. StackInv(t, dDepth, "Allocating")
  <2>1. Len(dStack) > 0 => dStack[Len(dStack)].kind \notin {"collectIfNecessaryOrDefer", "worldIsStopped"}
    BY <1>1, <1>2 DEF D!allocateSlowCase, D!MayAllocate, D!Program, D!Collection
  <2>2. QED
    BY <1>1, <1>2, <1>3, <1>4, <2>1, PushScope, Zenon
<1>6. /\ t \in Seq(D!Frames) /\ Len(t) = Len(dStack) + 1 /\ t[Len(dStack) + 1] = a
      /\ \A i \in 1 .. Len(dStack) : t[i] = dStack[i]
  BY <1>1, <1>3
<1>7. context \in 0 .. MaxFrames /\ (context # 0 => context \in 1 .. Len(t) /\ t[context].kind = "GCDeferralContext")
  BY <1>1, <1>6, DeferralAssumption DEF D!MaxFramesAssumption
<1> HIDE DEF context
<1>8. /\ c \in D!Frames /\ c.kind = "collectIfNecessaryOrDefer" /\ c.oldState = "Allocating" /\ c.context = context
      /\ ~c.shouldGC /\ c.at = "stop" /\ c.kind \notin D!Deferring /\ c.kind \notin D!Collection
  BY <1>7, CallFields DEF D!Deferring, D!Collection, D!States
<1>9. StateIn(c) = "Allocating"
  BY <1>8, Zenon DEF StateIn
<1>10. dStack' = Append(t, c)
  <2>1. dStack' = dStack \o <<a, c>>
    BY Zenon DEF D!allocateSlowCase, a, c, context
  <2> HIDE DEF c
  <2>2. dStack \o <<a, c>> = Append(t, c)
    BY <1>1, <1>3, <1>8
  <2>3. QED
    BY <2>1, <2>2, Zenon
<1> HIDE DEF c, t
<1>11. \A i \in 1 .. Len(t) : t[i].kind \notin D!Collection
  BY <1>1, <1>2, <1>3, <1>6
<1>12. StackInv(Append(t, c), dDepth, "Allocating")
  BY <1>3, <1>5, <1>6, <1>7, <1>8, <1>9, <1>11, PushScope, Zenon
<1>13. /\ Len(dStack') = Len(dStack) + 2 /\ \A i \in 1 .. Len(dStack) : dStack'[i] = dStack[i]
       /\ dStack'[Len(dStack) + 1] = a /\ dStack'[Len(dStack) + 2] = c
  <2>1. Len(dStack') = Len(t) + 1 /\ dStack'[Len(t) + 1] = c /\ \A i \in 1 .. Len(t) : dStack'[i] = t[i]
    BY <1>6, <1>8, <1>10
  <2>2. Len(t) = Len(dStack) + 1 /\ Len(dStack) \in Nat
    BY <1>1, <1>6, Zenon
  <2>3. Len(dStack') = Len(dStack) + 2 /\ dStack'[Len(dStack) + 2] = c
    BY <2>1, <2>2
  <2>4. dStack'[Len(dStack) + 1] = a /\ \A i \in 1 .. Len(dStack) : dStack'[i] = dStack[i]
    BY <1>6, <2>1, <2>2
  <2>5. QED
    BY <2>3, <2>4, Zenon
<1>14. D!InCollection' => D!InCollection
  BY <1>1, <1>3, <1>8, <1>13 DEF D!InCollection
<1>15. Kept => Kept'
  <2>1. dDidDeferGCWork' = dDidDeferGCWork
    BY Zenon DEF D!allocateSlowCase
  <2>2. \A i \in 1 .. Len(dStack) : i \in 1 .. Len(dStack') /\ dStack'[i] = dStack[i]
    BY <1>1, <1>13
  <2>3. QED
    BY <2>1, <2>2, Zenon DEF Kept
<1>16. QED
  BY <1>10, <1>12, <1>14, <1>15, DeferralFrame, Zenon DEF D!allocateSlowCase, DeferralInv

(* The call that checks goes on to the limit, or leaves a note in its context. *)
LEMMA LimitScope ==
    ASSUME DeferralInv, D!Top("collectIfNecessaryOrDefer"), dMutatorState \in {"Running", "Allocating"}
    PROVE  /\ StackInv(D!Limit, dDepth, dMutatorState) /\ Len(D!Limit) = Len(dStack)
           /\ \A i \in 1 .. Len(dStack) :
                 /\ D!Limit[i].kind = dStack[i].kind /\ D!Limit[i].oldState = dStack[i].oldState
                 /\ D!Limit[i].shouldGC = dStack[i].shouldGC
<1> DEFINE n == Len(dStack)
           f == dStack[n]
<1>1. /\ StackInv(dStack, dDepth, dMutatorState) /\ dStack \in Seq(D!Frames) /\ n \in 1 .. Len(dStack) /\ f \in D!Frames
      /\ f.oldState = dMutatorState
  BY PoppedStack DEF DeferralInv, StackInv, D!Top, StateIn
<1>2. D!Limit = [dStack EXCEPT ![n] = [f EXCEPT !.at = "limit"]]
  BY Zenon DEF D!Limit
<1>3. /\ [f EXCEPT !.at = "limit"] \in D!Frames
      /\ [f EXCEPT !.at = "limit"].kind = f.kind /\ [f EXCEPT !.at = "limit"].oldState = f.oldState
      /\ [f EXCEPT !.at = "limit"].shouldGC = f.shouldGC /\ [f EXCEPT !.at = "limit"].context = f.context
  BY <1>1, Zenon DEF D!Frames
<1>4. D!Limit \in Seq(D!Frames) /\ Len(D!Limit) = Len(dStack)
  BY <1>1, <1>2, <1>3
<1>5. \A i \in 1 .. Len(dStack) : IF i = n THEN D!Limit[i] = [f EXCEPT !.at = "limit"] ELSE D!Limit[i] = dStack[i]
  BY <1>1, <1>2
<1>6. \A i \in 1 .. Len(dStack) :
                 /\ D!Limit[i].kind = dStack[i].kind /\ D!Limit[i].oldState = dStack[i].oldState
                 /\ D!Limit[i].shouldGC = dStack[i].shouldGC /\ D!Limit[i].context = dStack[i].context
                 /\ i # n => D!Limit[i].at = dStack[i].at
  BY <1>3, <1>5, Zenon
<1>7. StackInv(D!Limit, dDepth, dMutatorState)
  <2>1. \A i \in 1 .. Len(dStack) :
           /\ D!Limit[i].shouldGC => dStack[i].shouldGC \/ dStack[i].kind = "GCDeferralContext"
           /\ D!Limit[i].at = "limit" => dStack[i].at = "limit" \/ dStack[i].oldState \in {"Running", "Allocating"}
    BY <1>1, <1>6, Zenon
  <2> HIDE DEF n, f
  <2>2. QED
    BY <1>1, <1>4, <1>6, <2>1, UpdateScope, Zenon
<1>8. QED
  BY <1>4, <1>6, <1>7, Zenon

(* A note is left in the context c: the frame g takes its place. *)
LEMMA NoteScope ==
    ASSUME NEW s, NEW d, NEW m, StackInv(s, d, m), NEW c \in 1 .. Len(s), s[c].kind = "GCDeferralContext",
           NEW g \in D!Frames, g.kind = s[c].kind, g.oldState = s[c].oldState, g.context = s[c].context,
           g.at = s[c].at, g.shouldGC,
           NEW t \in Seq(D!Frames), Len(t) = Len(s), \A i \in 1 .. Len(s) : t[i] = IF i = c THEN g ELSE s[i]
    PROVE  StackInv(t, d, m) /\ t[c].shouldGC /\ \A i \in 1 .. Len(s) : t[i].kind = s[i].kind
<1>1. \A i \in 1 .. Len(s) :
               /\ t[i].kind = s[i].kind /\ t[i].oldState = s[i].oldState /\ t[i].context = s[i].context
               /\ t[i].shouldGC => s[i].shouldGC \/ s[i].kind = "GCDeferralContext"
               /\ t[i].at = s[i].at
  BY Zenon
<1>2. StackInv(t, d, m)
  BY <1>1, UpdateScope, Zenon
<1>3. QED
  BY <1>1, <1>2, Zenon

(* The world stops, or the mutator collects, on top of s. *)
LEMMA StopScope ==
    ASSUME DeferralInv, NEW s, StackInv(s, 0, dMutatorState), D!Stop(s), dDepth = 0, dDepth' = 0,
           dMutatorState \in D!States,
           \A i \in 1 .. Len(s) : s[i].kind \notin D!Collection, dRequested',
           UNCHANGED dOverLimit, dNoticed' \in BOOLEAN
    PROVE  DeferralInv'
<1>1. \E k \in D!Collection : dStack' = Append(s, D!Frame(k)) /\ dMutatorState' = StateIn(D!Frame(k))
  <2>1. "CollectingScope" \in D!Kinds /\ "worldIsStopped" \in D!Kinds
    BY Zenon DEF D!Kinds
  <2>2. StateIn(D!Frame("CollectingScope")) = "Collecting"
        /\ StateIn(D!Frame("worldIsStopped")) = dMutatorState
    BY <2>1, FrameFields, Zenon DEF StateIn
  <2>3. QED
    BY <2>2, Zenon DEF D!Stop, D!Collection
<1>2. PICK k \in D!Collection : dStack' = Append(s, D!Frame(k)) /\ dMutatorState' = StateIn(D!Frame(k))
  BY <1>1, Zenon
<1> DEFINE f == D!Frame(k)
<1>3. /\ f \in D!Frames /\ f.kind = k /\ f.oldState = dMutatorState /\ ~f.shouldGC /\ f.at = "stop"
      /\ f.kind \notin D!Deferring
                        \cup {"DeferGC", "GCDeferralContext", "AllocatingScope", "collectIfNecessaryOrDefer"}
  <2>1. k \in D!Kinds
    BY Zenon DEF D!Kinds, D!Collection
  <2>2. QED
    BY <2>1, FrameFields, Zenon DEF D!Deferring, D!Collection
<1> HIDE DEF f
<1>4. StackInv(Append(s, f), 0, StateIn(f))
  <2>1. /\ f.kind # "DeferGC" /\ f.kind \notin {"GCDeferralContext", "AllocatingScope"}
        /\ f.kind # "collectIfNecessaryOrDefer"
    BY <1>3, Zenon
  <2>2. f.kind \in D!Collection /\ f.kind \notin D!Deferring
    BY <1>3, Zenon
  <2>3. Len(s) > 0 => s[Len(s)].kind # "worldIsStopped"
    BY DEF StackInv, D!Collection
  <2>4. QED
    BY <1>3, <2>1, <2>2, <2>3, PushScope, Zenon
<1>5. StackInv(dStack', dDepth', dMutatorState')
  BY <1>2, <1>4, Zenon DEF f
<1>6. QED
  BY <1>5, Zenon DEF DeferralInv, D!Stop

(* collectIfNecessaryOrDefer, up to the check of the world state. *)
LEMMA DeferralToStop ==
    ASSUME DeferralInv, D!collectOrDeferToStop
    PROVE  DeferralInv'
<1> DEFINE n == Len(dStack)
           f == dStack[n]
<1> USE DEF D!Calling, D!Top
<1>a. /\ StackInv(dStack, dDepth, dMutatorState) /\ dStack # << >> /\ n \in Nat \ {0}
      /\ StackInv(D!Pop, dDepth, f.oldState) /\ f.oldState = dMutatorState
      /\ f.kind = "collectIfNecessaryOrDefer" /\ ~f.shouldGC /\ dMutatorState \in D!States
         /\ dDepth \in Nat
      /\ f.context # 0 => f.context \in 1 .. n /\ dStack[f.context].kind = "GCDeferralContext"
  <2>1. D!Top("collectIfNecessaryOrDefer")
    BY Zenon DEF D!collectOrDeferToStop
  <2>2. f.context \in Nat
    BY <2>1, PoppedStack, ContextIsNumber, Zenon
  <2>3. QED
    BY <2>1, <2>2, PoppedStack DEF DeferralInv, StateIn, ScopeInv, Checks, IsLocal, D!Deferring
<1>b. UNCHANGED <<dDepth, dOverLimit, dRequested>>
  BY Zenon DEF D!collectOrDeferToStop
<1>1. CASE /\ dMutatorState \in {"Sweeping", "Collecting"} /\ dStack' = D!Pop
           /\ UNCHANGED <<dDidDeferGCWork, dMutatorState, dNoticed, dMayNeedToStop>>
  <2>1. dMutatorState = "Collecting" => dRequested
    BY <1>a, InCollecting, Zenon DEF DeferralInv, D!InCollection, D!Collection
  <2>2. StackInv(dStack', dDepth', dMutatorState')
    BY <1>1, <1>a, <1>b, Zenon
  <2>3. QED
    BY <1>1, <1>a, <1>b, <2>1, <2>2, DeferralPop, Zenon
<1>2. CASE /\ dMutatorState \in {"Running", "Allocating"} /\ dStack' = D!Limit
           /\ UNCHANGED <<dDidDeferGCWork, dMutatorState, dNoticed, dMayNeedToStop>>
  <2>1. StackInv(dStack', dDepth', dMutatorState')
    BY <1>2, <1>a, <1>b, LimitScope, Zenon
  <2>2. D!InCollection' => D!InCollection
    BY <1>2, <1>a, LimitScope, Zenon DEF D!InCollection
  <2>3. Kept => Kept'
    <3>1. /\ Len(dStack') = n
          /\ \A i \in 1 .. n : /\ dStack'[i].kind = dStack[i].kind /\ dStack'[i].oldState = dStack[i].oldState
                              /\ dStack'[i].shouldGC = dStack[i].shouldGC
      BY <1>2, <1>a, LimitScope, Zenon
    <3>2. QED
      BY <1>2, <3>1, Zenon DEF Kept
  <2>4. QED
    BY <1>2, <1>b, <2>1, <2>2, <2>3, DeferralFrame, Zenon DEF DeferralInv
<1>3. CASE /\ dMutatorState \in {"Running", "Allocating"} /\ dMayNeedToStop /\ dNoticed' = TRUE
           /\ D!Note(D!Limit) /\ UNCHANGED <<dMutatorState, dMayNeedToStop>>
  <2>1. dRequested /\ ~D!InCollection
    BY <1>3, Zenon DEF DeferralInv
  <2>2. /\ StackInv(dStack', dDepth', dMutatorState') /\ Len(dStack') = n
        /\ \A i \in 1 .. n : dStack'[i].kind = dStack[i].kind
    <3>1. /\ StackInv(D!Limit, dDepth, dMutatorState) /\ Len(D!Limit) = n
          /\ \A i \in 1 .. n : D!Limit[i].kind = dStack[i].kind
      BY <1>3, <1>a, LimitScope, Zenon
    <3>2. CASE f.context # 0
      <4> DEFINE c == f.context
                 g == [D!Limit[c] EXCEPT !.shouldGC = TRUE]
      <4>1. dStack' = [D!Limit EXCEPT ![c] = g]
        BY <1>3, <3>2, Zenon DEF D!Note
      <4>2. D!Limit[c].kind = "GCDeferralContext" /\ c \in 1 .. Len(D!Limit)
        BY <1>a, <3>1, <3>2, Zenon
      <4>3. /\ StackInv(dStack', dDepth, dMutatorState) /\ Len(dStack') = Len(D!Limit)
            /\ \A i \in 1 .. Len(D!Limit) : dStack'[i].kind = D!Limit[i].kind
        <5>1. D!Limit \in Seq(D!Frames) /\ D!Limit[c] \in D!Frames
          <6>1. D!Limit \in Seq(D!Frames)
            BY <3>1, Zenon DEF StackInv
          <6>2. QED
            BY <4>2, <6>1
        <5>2. /\ g \in D!Frames /\ g.kind = D!Limit[c].kind /\ g.oldState = D!Limit[c].oldState
              /\ g.context = D!Limit[c].context /\ g.at = D!Limit[c].at /\ g.shouldGC
          BY <5>1, Zenon DEF D!Frames, g
        <5>3. /\ dStack' \in Seq(D!Frames) /\ Len(dStack') = Len(D!Limit)
              /\ \A i \in 1 .. Len(D!Limit) : dStack'[i] = IF i = c THEN g ELSE D!Limit[i]
          BY <4>1, <4>2, <5>1, <5>2
        <5> HIDE DEF c
        <5>4. QED
          BY <3>1, <4>2, <5>2, <5>3, NoteScope, Zenon
      <4>4. QED
        BY <1>3, <1>b, <3>1, <4>3, Zenon
    <3>3. CASE f.context = 0
      BY <1>3, <1>b, <3>1, <3>3, Zenon DEF D!Note
    <3>4. QED
      BY <3>2, <3>3, Zenon
  <2>3. ~D!InCollection'
    BY <2>1, <2>2, Zenon DEF D!InCollection
  <2>4. dDidDeferGCWork' \in BOOLEAN
    BY <1>3, Zenon DEF D!Note, DeferralInv
  <2>5. QED
    BY <1>3, <1>b, <2>1, <2>2, <2>3, <2>4, Zenon DEF DeferralInv
<1>4. CASE /\ dMutatorState \in {"Running", "Allocating"} /\ dMayNeedToStop /\ dNoticed' = TRUE
           /\ D!Stop(D!Limit)
  <2>1. dRequested
    BY <1>4, Zenon DEF DeferralInv
  <2>2. dDepth = 0
    BY <1>4, Zenon DEF D!Stop
  <2>3. \A i \in 1 .. n : dStack[i].kind \notin D!Collection
    <3>1. StackInv(dStack, 0, dMutatorState) /\ Len(dStack) > 0
      BY <1>a, <2>2
    <3>2. QED
      BY <1>4, <1>a, <3>1, NoCollectionAround, Zenon
  <2>4. StackInv(D!Limit, 0, dMutatorState) /\ \A i \in 1 .. Len(D!Limit) : D!Limit[i].kind \notin D!Collection
    BY <1>4, <1>a, <2>2, <2>3, LimitScope, Zenon
  <2>5. QED
    BY <1>4, <1>a, <1>b, <2>1, <2>2, <2>4, StopScope, Zenon
<1>5. QED
  BY <1>1, <1>2, <1>3, <1>4, Zenon DEF D!collectOrDeferToStop

(* collectIfNecessaryOrDefer, from the check of the cycle's allocation on. *)
LEMMA DeferralAtLimit ==
    ASSUME DeferralInv, D!collectOrDeferAtLimit
    PROVE  DeferralInv'
<1> DEFINE n == Len(dStack)
           f == dStack[n]
<1> USE DEF D!Calling, D!Top
<1>a. /\ StackInv(dStack, dDepth, dMutatorState) /\ dStack # << >> /\ n \in Nat \ {0}
      /\ StackInv(D!Pop, dDepth, dMutatorState) /\ dMutatorState \in {"Running", "Allocating"}
      /\ f.kind = "collectIfNecessaryOrDefer" /\ ~f.shouldGC /\ dDepth \in Nat
      /\ f.context # 0 => f.context \in 1 .. n - 1 /\ dStack[f.context].kind = "GCDeferralContext"
      /\ Len(D!Pop) = n - 1 /\ \A i \in 1 .. n - 1 : D!Pop[i] = dStack[i]
  <2>1. D!Top("collectIfNecessaryOrDefer") /\ f.at = "limit"
    BY Zenon DEF D!collectOrDeferAtLimit
  <2>2. f.context \in Nat
    BY <2>1, PoppedStack, ContextIsNumber, Zenon
  <2>3. QED
    BY <2>1, <2>2, PoppedStack DEF DeferralInv, StateIn, ScopeInv, Checks, IsLocal, D!Deferring
<1>b. UNCHANGED <<dDepth, dOverLimit>>
  BY Zenon DEF D!collectOrDeferAtLimit
<1>c. /\ Len(dStack) \in Nat /\ Len(dStack) > 0
      /\ \A i \in 1 .. Len(D!Pop) : i \in 1 .. Len(dStack) /\ D!Pop[i] = dStack[i]
  BY <1>a
<1>d. StackInv(dStack, dDepth, dMutatorState)
  BY <1>a, Zenon
<1>1. CASE /\ ~dOverLimit /\ dStack' = D!Pop
           /\ UNCHANGED <<dDidDeferGCWork, dMutatorState, dNoticed, D!conductor>>
  <2>1. dNoticed => dRequested
    BY <1>1, Zenon DEF DeferralInv
  <2>2. StackInv(dStack', dDepth', dMutatorState')
    BY <1>1, <1>a, <1>b, Zenon
  <2>3. QED
    BY <1>1, <1>a, <1>b, <2>1, <2>2, DeferralPop, Zenon DEF D!conductor
<1>2. CASE /\ dOverLimit /\ dNoticed' = TRUE /\ D!Note(D!Pop) /\ UNCHANGED <<dMutatorState, D!conductor>>
  <2>1. /\ StackInv(dStack', dDepth', dMutatorState') /\ Len(dStack') = n - 1 /\ Kept'
        /\ \A i \in 1 .. n - 1 : dStack'[i].kind = dStack[i].kind
    <3>1. CASE f.context # 0
      <4> DEFINE c == f.context
                 g == [D!Pop[c] EXCEPT !.shouldGC = TRUE]
      <4>1. dStack' = [D!Pop EXCEPT ![c] = g]
        BY <1>2, <3>1, Zenon DEF D!Note
      <4>2. D!Pop[c].kind = "GCDeferralContext" /\ c \in 1 .. Len(D!Pop)
        BY <1>a, <3>1, Zenon
      <4>3. /\ StackInv(dStack', dDepth, dMutatorState) /\ Len(dStack') = Len(D!Pop) /\ dStack'[c].shouldGC
            /\ \A i \in 1 .. Len(D!Pop) : dStack'[i].kind = D!Pop[i].kind
        <5>1. D!Pop \in Seq(D!Frames) /\ D!Pop[c] \in D!Frames
          <6>1. D!Pop \in Seq(D!Frames)
            BY <1>a, Zenon DEF StackInv
          <6>2. QED
            BY <4>2, <6>1
        <5>2. /\ g \in D!Frames /\ g.kind = D!Pop[c].kind /\ g.oldState = D!Pop[c].oldState
              /\ g.context = D!Pop[c].context /\ g.at = D!Pop[c].at /\ g.shouldGC
          BY <5>1, Zenon DEF D!Frames, g
        <5>3. /\ dStack' \in Seq(D!Frames) /\ Len(dStack') = Len(D!Pop)
              /\ \A i \in 1 .. Len(D!Pop) : dStack'[i] = IF i = c THEN g ELSE D!Pop[i]
          BY <4>1, <4>2, <5>1, <5>2
        <5>4. StackInv(D!Pop, dDepth, dMutatorState)
          BY <1>a, Zenon
        <5> HIDE DEF c
        <5>5. QED
          BY <4>2, <5>2, <5>3, <5>4, NoteScope, Zenon
      <4>4. QED
        BY <1>2, <1>a, <1>b, <4>2, <4>3, Zenon DEF Kept
    <3>2. CASE f.context = 0
      BY <1>2, <1>a, <1>b, <3>2, Zenon DEF D!Note, Kept
    <3>3. QED
      BY <3>1, <3>2, Zenon
  <2>2. D!InCollection' => D!InCollection
    <3>1. \A i \in 1 .. Len(dStack') : i \in 1 .. Len(dStack) /\ dStack'[i].kind = dStack[i].kind
      BY <1>c, <2>1
    <3>2. QED
      BY <3>1, Zenon DEF D!InCollection
  <2>3. dDidDeferGCWork' \in BOOLEAN
    BY <1>2, Zenon DEF D!Note, DeferralInv
  <2>4. QED
    BY <1>2, <1>b, <2>1, <2>2, <2>3, Zenon DEF DeferralInv, D!conductor
<1>3. CASE dOverLimit /\ dNoticed' = TRUE /\ dRequested' = TRUE /\ D!Stop(D!Pop)
  <2>1. dDepth = 0
    BY <1>3, Zenon DEF D!Stop
  <2>2. \A i \in 1 .. n : dStack[i].kind \notin D!Collection
    <3>1. StackInv(dStack, 0, dMutatorState) /\ Len(dStack) > 0
      BY <1>c, <1>d, <2>1, Zenon
    <3>2. QED
      BY <1>a, <3>1, NoCollectionAround, Zenon
  <2>3. \A i \in 1 .. Len(D!Pop) : D!Pop[i].kind \notin D!Collection
    BY <1>c, <2>2, Zenon
  <2>4. dMutatorState \in D!States
    BY <1>a, Zenon DEF D!States
  <2>5. QED
    BY <1>3, <1>a, <1>b, <2>1, <2>3, <2>4, StopScope, Zenon
<1>4. CASE /\ dOverLimit /\ dNoticed' = TRUE /\ f.context = 0 /\ dDepth = 0
           /\ dRequested' = TRUE /\ dStack' = D!Pop
           /\ UNCHANGED <<dDidDeferGCWork, dMutatorState, dMayNeedToStop>>
  <2>1. StackInv(dStack', dDepth', dMutatorState')
    BY <1>4, <1>a, <1>b, Zenon
  <2>2. D!InCollection' => D!InCollection
    BY <1>4, <1>c, Zenon DEF D!InCollection
  <2>3. QED
    BY <1>4, <1>b, <2>1, <2>2, Zenon DEF DeferralInv
<1>5. QED
  BY <1>1, <1>2, <1>3, <1>4, Zenon DEF D!collectOrDeferAtLimit

(* The collector's side. *)
LEMMA DeferralConducts ==
    ASSUME DeferralInv, D!requestCollection \/ D!stopTheMutator \/ D!resumeTheMutator
    PROVE  DeferralInv'
<1>1. CASE D!requestCollection
  <2>1. UNCHANGED <<dStack, dDepth, dMutatorState>>
    BY <1>1, Zenon DEF D!requestCollection
  <2>2. StackInv(dStack', dDepth', dMutatorState') /\ (D!InCollection' <=> D!InCollection)
    BY <2>1, Zenon DEF DeferralInv, D!InCollection
  <2>3. QED
    BY <1>1, <2>2, Zenon DEF D!requestCollection, DeferralInv
<1>2. CASE D!stopTheMutator
  <2>1. UNCHANGED <<dStack, dDepth, dMutatorState, dDidDeferGCWork>>
    BY <1>2, Zenon DEF D!stopTheMutator
  <2>2. StackInv(dStack', dDepth', dMutatorState') /\ (D!InCollection' <=> D!InCollection) /\ (Kept' <=> Kept)
    BY <2>1, Zenon DEF DeferralInv, D!InCollection, Kept
  <2>3. QED
    BY <1>2, <2>2, Zenon DEF D!stopTheMutator, DeferralInv
<1>3. CASE D!resumeTheMutator
  <2> DEFINE n == Len(dStack)
  <2>1. /\ dStack # << >> /\ dStack[n].kind \in D!Collection
        /\ dStack' = D!Pop /\ dMutatorState' = dStack[n].oldState
    BY <1>3, Zenon DEF D!resumeTheMutator, D!Top, D!Calling, D!Collection
  <2>2. /\ n \in Nat \ {0} /\ ScopeInv(dStack, n) /\ Len(dStack') = n - 1
        /\ \A i \in 1 .. n - 1 : dStack'[i] = dStack[i]
    BY <2>1, PoppedStack, Zenon
  <2>3. StackInv(dStack', dDepth, dMutatorState')
    BY <2>1, PoppedStack, Zenon DEF D!Collection, D!Deferring
  <2>4. ~D!InCollection'
    <3>1. \A j \in 1 .. n : j < n => dStack[j].kind \notin D!Collection
      BY <2>1, <2>2, Zenon DEF ScopeInv, Isolates
    <3>2. \A j \in 1 .. Len(dStack') : j \in 1 .. n /\ j < n /\ dStack'[j] = dStack[j]
      BY <2>2
    <3>3. QED
      BY <3>1, <3>2, Zenon DEF D!InCollection
  <2>5. dRequested /\ ~dMayNeedToStop
    <3>1. D!InCollection
      BY <2>1, <2>2 DEF D!InCollection
    <3>2. QED
      BY <3>1, Zenon DEF DeferralInv
  <2>6. QED
    BY <1>3, <2>3, <2>4, <2>5, Zenon DEF D!resumeTheMutator, DeferralInv
<1>4. QED
  BY <1>1, <1>2, <1>3, Zenon

(* No collection stops the mutator inside a DeferGC, a DeferGCForAWhile or   *)
(* another collection, the work that collectIfNecessaryOrDefer put off is    *)
(* not forgotten, and the RELEASE_ASSERTs of AllocatingScope hold, for every *)
(* nesting of scopes.                                                        *)
THEOREM DeferralHolds == D!Spec => []DeferralIsKept
<1>1. D!Init => DeferralInv
  <2> SUFFICES ASSUME D!Init PROVE DeferralInv
    BY Zenon
  <2>1. D!Init
    BY Zenon
  <2>2. Deferred(dStack) = {} /\ Len(dStack) = 0
    BY <2>1 DEF D!Init, Deferred
  <2>3. StackInv(dStack, dDepth, dMutatorState)
    BY <2>1, <2>2, FS_EmptySet DEF D!Init, StackInv
  <2>4. ~D!InCollection
    BY <2>2 DEF D!InCollection
  <2>5. QED
    BY <2>1, <2>3, <2>4, Zenon DEF D!Init, DeferralInv
<1>2. DeferralInv /\ [D!Next]_(D!vars) => DeferralInv'
  <2> SUFFICES ASSUME DeferralInv, [D!Next]_(D!vars) PROVE DeferralInv'
    BY Zenon
  <2>1. CASE D!Next
    BY <2>1, DeferralOpens, DeferralCloses, DeferralAllocates, DeferralToStop, DeferralAtLimit,
       DeferralConducts, Zenon
    DEF D!Next
  <2>2. CASE UNCHANGED dVars
    <3>1. StackInv(dStack', dDepth', dMutatorState') /\ (D!InCollection' <=> D!InCollection) /\ (Kept' <=> Kept)
      BY <2>2, Zenon DEF dVars, DeferralInv, D!InCollection, Kept
    <3>2. QED
      BY <2>2, <3>1, Zenon DEF dVars, DeferralInv
  <2>3. QED
    BY <2>1, <2>2, Zenon DEF D!vars, dVars
<1>3. DeferralInv => DeferralIsKept
  <2> SUFFICES ASSUME DeferralInv PROVE DeferralIsKept
    BY Zenon
  <2>1. D!TypeOK
    BY DeferredIsFinite, StateIsState, Zenon DEF D!TypeOK, DeferralInv, StackInv
  <2>2. D!NoCollectionWhileDeferred /\ D!NoNestedCollection
    BY Zenon DEF D!NoCollectionWhileDeferred, D!NoNestedCollection, DeferralInv, StackInv,
       ScopeInv, Isolates
  <2>3. D!DeferredWorkIsRemembered
    BY Zenon DEF D!DeferredWorkIsRemembered, DeferralInv, Kept
  <2>4. D!AllocatingScopeAsserts
    <3>1. D!Top("AllocatingScope") => dMutatorState = "Allocating"
      BY PoppedStack, Zenon DEF D!Top, StateIn
    <3>2. QED
      BY <3>1, AllocatesRunning, Zenon DEF D!AllocatingScopeAsserts
  <2>5. QED
    BY <2>1, <2>2, <2>3, <2>4, Zenon DEF DeferralIsKept
<1>4. QED
  BY <1>1, <1>2, <1>3, PTL DEF D!Spec

=============================================================================

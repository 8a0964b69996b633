----------------------------- MODULE MCMarkers ------------------------------
(***************************************************************************)
(* ParallelMarking and Periphery as components of MCVisitors: how the      *)
(* visitors share the marking, and how they learn whether the world is     *)
(* stopped.                                                                *)
(***************************************************************************)
EXTENDS Naturals

CONSTANTS
    Collector, Mutator, Helpers,            \* the visitors, by who drains them
    MaxCells, MaxTimeouts, MaxStops         \* bounds of the two components

VARIABLES
    mUnmarked, mOwn, mShared, mActive, mWaiting, mBonusTask, mShouldExit, mElapsed,
    mTimeouts, mWorldRuns, mStopIfNecessary, mVisited, mIsActive, mPc,
    pOptimizeParallel, pWorldIsStopped, pRegistered, pMutatorIsStopped, pRightToRun, pDrain,
    pRead, pConductor, pTodo, pStops

mVars == <<mUnmarked, mOwn, mShared, mActive, mWaiting, mBonusTask, mShouldExit, mElapsed,
           mTimeouts, mWorldRuns, mStopIfNecessary, mVisited, mIsActive, mPc>>
pVars == <<pOptimizeParallel, pWorldIsStopped, pRegistered, pMutatorIsStopped, pRightToRun,
           pDrain, pRead, pConductor, pTodo, pStops>>

M == INSTANCE ParallelMarking WITH
       unmarked <- mUnmarked, own <- mOwn, shared <- mShared, active <- mActive,
       waiting <- mWaiting, bonusTask <- mBonusTask, shouldExit <- mShouldExit,
       elapsed <- mElapsed, timeouts <- mTimeouts, worldRuns <- mWorldRuns,
       stopIfNecessary <- mStopIfNecessary,
       visited <- mVisited, isActive <- mIsActive, pc <- mPc
P == INSTANCE Periphery WITH
       optimizeParallel <- pOptimizeParallel, worldIsStopped <- pWorldIsStopped, registered <- pRegistered,
       mutatorIsStopped <- pMutatorIsStopped, rightToRun <- pRightToRun, drain <- pDrain,
       read <- pRead, conductor <- pConductor, todo <- pTodo, stops <- pStops

ASSUME MarkersAssumption == M!ParallelMarkingAssumption /\ P!PeripheryAssumption

\* ParallelMarking: when the collector sees termination with the world stopped, no
\* visitor holds a cell and no helper runs a task; runTaskInParallel() returns
\* after its task has ended everywhere; and while the collector sleeps, work is in
\* the hands of a visitor that is awake.
TerminationIsReal ==
    M!TypeOK /\ M!TerminationIsReal /\ M!TaskIsOver /\ M!NobodySleepsOnWork

\* Periphery: no visitor skips the race checks while the world runs, unless the
\* option lets the helpers' visitors do so; and the collector's visitor does skip
\* them in a stopped world.
BelieversAreRight ==
    P!TypeOK /\ (~pOptimizeParallel => P!BelieversAreRight) /\ P!StoppedIsNoticed

=============================================================================

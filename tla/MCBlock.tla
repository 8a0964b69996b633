------------------------------ MODULE MCBlock -------------------------------
(***************************************************************************)
(* MarkedBlock as a component of MCMarking.  The marking version does not  *)
(* wrap.                                                                   *)
(***************************************************************************)
CONSTANTS BlockCells, LastVersion, RetireAt

VARIABLES
    bSpace, bWorld, bMarks, bMarkingVersion, bNewlyAllocated, bNewlyAllocatedVersion, bBits,
    bIsFreeListed, bAllocator, bFreeList, bCell, bHeld, bNeedsDestruction, bForgets

bVars == <<bSpace, bWorld, bMarks, bMarkingVersion, bNewlyAllocated, bNewlyAllocatedVersion,
           bBits, bIsFreeListed, bAllocator, bFreeList, bCell, bHeld, bNeedsDestruction, bForgets>>

B == INSTANCE MarkedBlock WITH
       Cells <- BlockCells, Wraps <- FALSE,
       space <- bSpace, world <- bWorld, marks <- bMarks, markingVersion <- bMarkingVersion,
       newlyAllocated <- bNewlyAllocated, newlyAllocatedVersion <- bNewlyAllocatedVersion,
       bits <- bBits, isFreeListed <- bIsFreeListed, allocator <- bAllocator,
       freeList <- bFreeList, cell <- bCell, held <- bHeld,
       needsDestruction <- bNeedsDestruction, forgets <- bForgets

ASSUME BlockAssumption == B!MarkedBlockAssumption

\* MarkedBlock: a cell that isLive() takes for live holds an object no collection
\* has found dead, a cell is handed out again only after its object was found dead
\* and its destructor ran, destructors run only on objects and only once, a block whose
\* empty bit is set holds no object, and the assertions of aboutToMarkSlow, sweep and
\* didConsumeFreeList hold.  With an exact mark count, a conservative scan of the
\* stopped mutator finds every cell it holds.
BlockIsSound ==
    /\ B!TypeOK /\ B!LiveIsSound /\ B!FreeListIsDead /\ B!DestroysOnlyObjects
    /\ B!EmptyIsEmpty /\ B!AssertsHold
    /\ B!Exact => B!ReachableIsLive
=============================================================================

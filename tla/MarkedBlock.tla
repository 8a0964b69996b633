---------------------------- MODULE MarkedBlock ----------------------------
(***************************************************************************)
(* One MarkedBlock through many collections: its mark bits and its newly   *)
(* allocated bits, each meaningful only under a version number, the bits   *)
(* its BlockDirectory keeps about it, and the LocalAllocator that sweeps   *)
(* it to a free list.  Nothing is cleared at the beginning of a            *)
(* collection: MarkedSpace bumps a version and every block finds out later *)
(* that its bits are stale.  HeapVersion is an unsigned integer that       *)
(* wraps; its width is a constant here.                                    *)
(***************************************************************************)
EXTENDS FiniteSets, Integers

CONSTANTS
    Cells,              \* the cells of the block
    LastVersion,        \* the largest HeapVersion: 2^32 - 1 in the code
    Wraps,              \* whether collections go on after LastVersion (a bound if FALSE)
    RetireAt            \* how many marks retire a block (-m_markCountBias)

nullVersion == 0
initialVersion == 2

\* What the constants have to satisfy.
MarkedBlockAssumption ==
    /\ LastVersion \in Nat /\ LastVersion > initialVersion
    /\ Wraps \in BOOLEAN /\ RetireAt \in Nat /\ IsFiniteSet(Cells)

VARIABLES
    space,              \* MarkedSpace: the versions, whether it marks, the collection's scope
    world,              \* whether the mutator runs
    marks,              \* the block's m_marks
    markingVersion,     \* and the version they belong to
    newlyAllocated,     \* the block's m_newlyAllocated
    newlyAllocatedVersion, \* and the version they belong to
    bits,               \* the names of the directory's bit vectors that are set for the block
    isFreeListed,       \* m_isFreeListed
    allocator,          \* the LocalAllocator's relation to the block, and its cursor
    freeList,           \* the cells on the allocator's free list
    cell,               \* what each cell holds: an object, an object found dead whose destructor
                        \* has yet to run, a zapped header, or memory that is none of these
    held,               \* the cells the mutator can reach
    needsDestruction,   \* the directory's attributes: its cells have destructors
    forgets             \* whether the racy mark counter may forget to retire the block

blockVars == <<marks, markingVersion, newlyAllocated, newlyAllocatedVersion>>
allocatorVars == <<isFreeListed, allocator, freeList>>
vars == <<space, world, blockVars, bits, allocatorVars, cell, held, needsDestruction, forgets>>

Versions == {nullVersion} \cup initialVersion .. LastVersion
Bits == {"live", "empty", "allocated", "canAllocateButNotEmpty", "destructible", "eden",
         "unswept", "markingNotEmpty", "markingRetired"}

TypeOK ==
    /\ space \in [marking: Versions, newlyAllocated: Versions, isMarking: BOOLEAN, scope: {"None", "Full", "Eden"}]
    /\ world \in {"running", "stopped"}
    /\ marks \subseteq Cells /\ newlyAllocated \subseteq Cells
    /\ markingVersion \in Versions /\ newlyAllocatedVersion \in Versions
    /\ bits \subseteq Bits
    /\ isFreeListed \in BOOLEAN /\ freeList \subseteq Cells /\ (~isFreeListed => freeList = {})
    /\ allocator \in [block: {"none", "current", "lastActive"}, passed: BOOLEAN]
    /\ cell \in [Cells -> {"garbage", "zapped", "object", "dead"}]
    /\ held \subseteq Cells
    /\ needsDestruction \in BOOLEAN /\ forgets \in BOOLEAN

Init ==
    /\ space = [marking |-> initialVersion, newlyAllocated |-> initialVersion, isMarking |-> FALSE, scope |-> "None"]
    /\ world = "running"
    /\ marks = {} /\ markingVersion = nullVersion
    /\ newlyAllocated = {} /\ newlyAllocatedVersion = nullVersion
    /\ bits = {}
    /\ isFreeListed = FALSE /\ freeList = {}
    /\ allocator = [block |-> "none", passed |-> FALSE]
    /\ cell = [c \in Cells |-> "garbage"]
    /\ held = {}
    /\ needsDestruction \in BOOLEAN /\ forgets \in BOOLEAN

nextVersion(v) == IF v = LastVersion THEN initialVersion ELSE v + 1

-----------------------------------------------------------------------------
(* What the bits say about a cell. *)

areMarksStale == markingVersion # space.marking
hasAnyNewlyAllocated == newlyAllocatedVersion = space.newlyAllocated

marksConveyLivenessDuringMarking ==
    /\ space.scope = "Full"
    /\ markingVersion = nullVersion \/ nextVersion(markingVersion) = space.marking

isLive(c) ==
    \/ "allocated" \in bits
    \/ /\ "allocated" \notin bits
       /\ IF hasAnyNewlyAllocated THEN c \in newlyAllocated
          ELSE /\ areMarksStale => space.isMarking /\ marksConveyLivenessDuringMarking
               /\ c \in marks

\* isMarked(), in the heap's current marking version
isMarked(c) == ~areMarksStale /\ c \in marks

-----------------------------------------------------------------------------
(* The mutator allocates and sweeps. *)

marksMode == ~areMarksStale \/ (space.isMarking /\ marksConveyLivenessDuringMarking)

\* The cells sweep() takes to be dead.
SweepsAway ==
    IF "empty" \in bits THEN Cells
    ELSE {c \in Cells : ~(marksMode /\ c \in marks) /\ ~(hasAnyNewlyAllocated /\ c \in newlyAllocated)}

\* The destructors sweep() runs, and the zapping that keeps them from running again.
mustDestroy == needsDestruction /\ "destructible" \in bits
AfterDestruction == [c \in Cells |-> IF mustDestroy /\ c \in SweepsAway THEN "zapped" ELSE cell[c]]

\* The links of the free list overwrite the zapped headers.
AfterLinking == [c \in Cells |-> IF c \in SweepsAway /\ AfterDestruction[c] = "zapped" THEN "garbage"
                                 ELSE AfterDestruction[c]]

\* What Handle::sweep(&freeList) does to the bits, under the block's lock while marking.
sweepToFreeList ==
    /\ newlyAllocatedVersion' = IF hasAnyNewlyAllocated THEN nullVersion ELSE newlyAllocatedVersion
    /\ UNCHANGED <<marks, markingVersion, newlyAllocated>>
Swept == {"unswept", "destructible", "empty"}

\* The mutator gets a cell: it constructs an object there and holds it.
Gets(c, cells) == cell' = [cells EXCEPT ![c] = "object"] /\ held' = held \cup {c}

\* FreeList::allocate
allocate(c) ==
    /\ world = "running" /\ allocator.block = "current" /\ c \in freeList
    /\ freeList' = freeList \ {c}
    /\ Gets(c, cell)
    /\ UNCHANGED <<space, world, blockVars, bits, isFreeListed, allocator>>

\* allocateSlowCase begins by giving up the block it used up.
didConsumeFreeList ==
    /\ world = "running" /\ allocator.block = "current" /\ freeList = {}
    /\ isFreeListed' = FALSE
    /\ bits' = bits \cup {"allocated"}
    /\ allocator' = [allocator EXCEPT !.block = "none"]
    /\ UNCHANGED <<space, world, blockVars, freeList, cell, held>>

\* tryAllocateIn of the block that findBlockForAllocation found.
findBlockForAllocation ==
    /\ world = "running" /\ allocator.block = "none" /\ ~allocator.passed
    /\ bits \cap {"empty", "canAllocateButNotEmpty"} # {}

tryAllocateIn(c) ==
    /\ findBlockForAllocation /\ c \in SweepsAway
    /\ sweepToFreeList
    /\ isFreeListed' = TRUE /\ freeList' = SweepsAway \ {c}
    /\ Gets(c, AfterLinking)
    /\ bits' = (bits \ (Swept \cup {"canAllocateButNotEmpty"})) \cup {"eden"}
    /\ allocator' = [block |-> "current", passed |-> TRUE]
    /\ UNCHANGED <<space, world>>

\* tryAllocateIn of a completely full block: unsweepWithNoNewlyAllocated.
tryAllocateInFull ==
    /\ findBlockForAllocation /\ SweepsAway = {}
    /\ sweepToFreeList
    /\ bits' = bits \ (Swept \cup {"canAllocateButNotEmpty"})
    /\ allocator' = [allocator EXCEPT !.passed = TRUE]
    /\ UNCHANGED <<space, world, isFreeListed, freeList, cell, held>>

\* tryAllocateBlock, addBlock and allocateIn: the block is new.
addBlock(c) ==
    /\ world = "running" /\ allocator.block = "none" /\ "live" \notin bits
    /\ isFreeListed' = TRUE /\ freeList' = Cells \ {c}
    /\ Gets(c, cell)
    /\ bits' = {"live", "eden"}
    /\ allocator' = [allocator EXCEPT !.block = "current"]
    /\ UNCHANGED <<space, world, blockVars>>

\* An allocator of another directory, which may have other attributes, steals the empty
\* block: it is swept, moved, and swept to a free list.
stealEmptyBlock(c) ==
    /\ world = "running" /\ allocator.block = "none" /\ "empty" \in bits
    /\ sweepToFreeList
    /\ isFreeListed' = TRUE /\ freeList' = Cells \ {c}
    /\ Gets(c, AfterLinking)
    /\ bits' = {"live", "eden"}
    /\ allocator' = [allocator EXCEPT !.block = "current"]
    /\ needsDestruction' \in BOOLEAN
    /\ UNCHANGED <<space, world>>

\* freeBlock: the memory goes away, and with it what the footer and the directory knew.
freeBlock ==
    /\ marks' = {} /\ markingVersion' = nullVersion
    /\ newlyAllocated' = {} /\ newlyAllocatedVersion' = nullVersion
    /\ bits' = {}
    /\ cell' = [c \in Cells |-> "garbage"]

\* IncrementalSweeper::sweepNextBlock: sweep(nullptr), then freeOrShrinkBlock.
sweepNextBlock ==
    LET provesEmpty == mustDestroy /\ SweepsAway = Cells
    IN  /\ world = "running" /\ "unswept" \in bits
        /\ IF "empty" \in bits \/ provesEmpty THEN freeBlock
           ELSE /\ bits' = bits \ (IF mustDestroy THEN {"unswept", "destructible"} ELSE {"unswept"})
                /\ cell' = AfterDestruction
                /\ UNCHANGED blockVars
        /\ UNCHANGED <<space, world, allocatorVars, held>>

\* BlockDirectory::shrink, after a synchronous sweep.
shrink ==
    /\ world = "running" /\ "empty" \in bits /\ "destructible" \notin bits
    /\ freeBlock
    /\ UNCHANGED <<space, world, allocatorVars, held>>

forget(c) ==
    /\ world = "running" /\ c \in held
    /\ held' = held \ {c}
    /\ UNCHANGED <<space, world, blockVars, bits, allocatorVars, cell>>

-----------------------------------------------------------------------------
(* The collector stops and resumes the world, marks and flips. *)

\* LocalAllocator::stopAllocating and MarkedBlock::Handle::stopAllocating, which zaps what is
\* left on the free list, so that no sweep takes it for an object to destroy.
stopAllocating ==
    /\ world = "running" /\ world' = "stopped"
    /\ IF allocator.block = "current" /\ isFreeListed
       THEN newlyAllocated' = Cells \ freeList /\ newlyAllocatedVersion' = space.newlyAllocated
       ELSE UNCHANGED <<newlyAllocated, newlyAllocatedVersion>>
    /\ allocator' = [allocator EXCEPT !.block = IF @ = "current" THEN "lastActive" ELSE @]
    /\ isFreeListed' = FALSE /\ freeList' = {}
    /\ cell' = [c \in Cells |-> IF needsDestruction /\ c \in freeList THEN "zapped" ELSE cell[c]]
    /\ UNCHANGED <<space, marks, markingVersion, bits, held>>

\* LocalAllocator::resumeAllocating: the free list is made again by a sweep.
resumeAllocating ==
    /\ world = "stopped" /\ world' = "running"
    /\ IF allocator.block = "lastActive" /\ hasAnyNewlyAllocated
       THEN /\ sweepToFreeList
            /\ isFreeListed' = TRUE /\ freeList' = SweepsAway
            /\ bits' = bits \ Swept
            /\ cell' = AfterLinking
       ELSE UNCHANGED <<blockVars, isFreeListed, freeList, bits, cell>>
    /\ allocator' = [allocator EXCEPT !.block = IF @ = "lastActive" THEN "current" ELSE @]
    /\ UNCHANGED <<space, held>>

\* MarkedSpace::beginMarking
resetMarks ==
    /\ marks' = IF areMarksStale THEN {} ELSE marks
    /\ markingVersion' = nullVersion

beginMarking ==
    /\ world = "stopped" /\ ~space.isMarking
    /\ Wraps \/ (space.marking # LastVersion /\ space.newlyAllocated # LastVersion)
    /\ \/ /\ space' = [marking |-> nextVersion(space.marking), newlyAllocated |-> space.newlyAllocated,
                       isMarking |-> TRUE, scope |-> "Full"]
          /\ bits' = bits \ {"markingNotEmpty", "markingRetired"}
          /\ IF space'.marking = initialVersion THEN resetMarks ELSE UNCHANGED <<marks, markingVersion>>
       \/ /\ space' = [marking |-> space.marking, newlyAllocated |-> space.newlyAllocated,
                       isMarking |-> TRUE, scope |-> "Eden"]
          /\ UNCHANGED <<bits, marks, markingVersion>>
    /\ UNCHANGED <<world, newlyAllocated, newlyAllocatedVersion, allocatorVars, cell, held>>

\* A cell marking may come to: an object some reference led to, or what a conservative scan
\* of the stopped mutator's stack takes for an object.
MayMark(c) == space.isMarking /\ ~isMarked(c) /\ (cell[c] = "object" \/ (world = "stopped" /\ isLive(c)))

(* Mutant: stale marks are always dropped. *)
aboutToMarkDropsMarks ==
    /\ areMarksStale /\ \E c \in Cells : MayMark(c)
    /\ IF "allocated" \in bits \/ ~marksConveyLivenessDuringMarking \/ hasAnyNewlyAllocated
       THEN UNCHANGED <<newlyAllocated, newlyAllocatedVersion>>
       ELSE UNCHANGED <<newlyAllocated, newlyAllocatedVersion>>
    /\ marks' = {} /\ markingVersion' = space.marking
    /\ bits' = bits \cup {"markingNotEmpty"}
    /\ UNCHANGED <<space, world, allocatorVars, cell, held>>

\* The first mark in a block: its stale marks are dropped, or kept as newly allocated bits.
aboutToMarkSlow ==
    /\ areMarksStale /\ \E c \in Cells : MayMark(c)
    /\ IF "allocated" \in bits \/ ~marksConveyLivenessDuringMarking \/ hasAnyNewlyAllocated
       THEN UNCHANGED <<newlyAllocated, newlyAllocatedVersion>>
       ELSE newlyAllocated' = marks /\ newlyAllocatedVersion' = space.newlyAllocated
    /\ marks' = {} /\ markingVersion' = space.marking
    /\ bits' = bits \cup {"markingNotEmpty"}
    /\ UNCHANGED <<space, world, allocatorVars, cell, held>>

\* testAndSetMarked and noteMarked
testAndSetMarked(c) ==
    /\ ~areMarksStale /\ MayMark(c)
    /\ marks' = marks \cup {c}
    /\ \/ Cardinality(marks') >= RetireAt /\ bits' = bits \cup {"markingRetired"}
       \/ (forgets \/ Cardinality(marks') < RetireAt) /\ UNCHANGED bits
    /\ UNCHANGED <<space, world, markingVersion, newlyAllocated, newlyAllocatedVersion, allocatorVars, cell, held>>

\* runEndPhase, once everything reachable is marked: MarkedSpace::endMarking and
\* BlockDirectory::endMarking, snapshotUnswept, prepareForAllocation.
Where(condition, names) == IF condition THEN names ELSE {}
Flipped ==
    LET notEmpty == "markingNotEmpty" \in bits
    IN  (bits \ {"allocated", "empty", "canAllocateButNotEmpty", "eden"})
        \cup Where("live" \in bits /\ ~notEmpty, {"empty"})
        \cup Where("live" \in bits /\ notEmpty /\ "markingRetired" \notin bits, {"canAllocateButNotEmpty"})
        \cup Where("live" \in bits /\ needsDestruction, {"destructible"})
        \cup Where("live" \in bits /\ (space.scope = "Full" \/ "eden" \in bits), {"unswept"})

runEndPhase ==
    /\ world = "stopped" /\ space.isMarking
    /\ \A c \in held : isMarked(c)
    /\ space' = [marking |-> space.marking, newlyAllocated |-> nextVersion(space.newlyAllocated),
                 isMarking |-> FALSE, scope |-> "None"]
    /\ IF space'.newlyAllocated = initialVersion
       THEN newlyAllocated' = {} /\ newlyAllocatedVersion' = nullVersion
       ELSE UNCHANGED <<newlyAllocated, newlyAllocatedVersion>>
    /\ bits' = Flipped
    /\ cell' = [c \in Cells |-> IF cell[c] = "object" /\ ~isMarked(c)
                                THEN IF needsDestruction THEN "dead" ELSE "garbage"
                                ELSE cell[c]]
    /\ allocator' = [block |-> "none", passed |-> FALSE]
    /\ UNCHANGED <<world, marks, markingVersion, isFreeListed, freeList, held>>

-----------------------------------------------------------------------------
Next ==
    /\ \/ \E c \in Cells : stealEmptyBlock(c)
       \/ /\ \/ \E c \in Cells : allocate(c) \/ tryAllocateIn(c) \/ addBlock(c) \/ forget(c)
             \/ didConsumeFreeList \/ tryAllocateInFull \/ sweepNextBlock \/ shrink
             \/ stopAllocating \/ resumeAllocating \/ beginMarking \/ aboutToMarkSlow \/ runEndPhase
             \/ \E c \in Cells : testAndSetMarked(c)
          /\ UNCHANGED needsDestruction
    /\ UNCHANGED forgets

Spec == Init /\ [][Next]_vars

-----------------------------------------------------------------------------
\* The mark count is exact, and a block that is full of marks is retired.
Exact == ~forgets /\ RetireAt \in 1 .. Cardinality(Cells)

\* A conservative scan of the stopped mutator finds every cell it holds: isLive() says so
\* whichever of the two sets of bits currently describes the block.
ReachableIsLive == world = "stopped" => \A c \in held : isLive(c)

\* And it finds nothing else: a cell that isLive() takes for live holds an object that no
\* collection has found dead, so its fields may be followed.
LiveIsSound == world = "stopped" => \A c \in Cells : isLive(c) => cell[c] = "object"

\* A cell is handed out again only after a collection found its object dead, and if it had
\* a destructor, after the destructor ran.
FreeListIsDead == \A c \in freeList : cell[c] \in {"garbage", "zapped"}

\* A destructor runs only on an object that a collection found dead, and only once: a sweep
\* that runs destructors meets dead objects and zapped headers, whatever the memory held
\* before the block came to this directory and whatever the free list left in it.
DestroysOnlyObjects == mustDestroy => \A c \in SweepsAway : cell[c] \in {"dead", "zapped"}

\* A block whose empty bit is set can be freed or stolen: nothing in it is an object.
EmptyIsEmpty == "empty" \in bits => \A c \in Cells : cell[c] # "object"

\* The assertions of aboutToMarkSlow, sweep, didConsumeFreeList and of the bump allocator's
\* "incredibly powerful assertion that checks the sanity of our block bits".
AssertsHold ==
    /\ space.isMarking /\ areMarksStale /\ "allocated" \notin bits
       /\ marksConveyLivenessDuringMarking /\ hasAnyNewlyAllocated => marks \subseteq newlyAllocated
    /\ "empty" \in bits /\ ~hasAnyNewlyAllocated /\ marksMode => marks = {}
    /\ isFreeListed => "unswept" \notin bits /\ "allocated" \notin bits
    /\ "allocated" \in bits => "unswept" \notin bits
    /\ allocator.block = "current" => isFreeListed

=============================================================================

----------------------------- MODULE Butterfly -----------------------------
(***************************************************************************)
(* The scan of one object's out-of-line storage (JSObject::visitButterfly) *)
(* while the mutator adds and removes its properties.  The mutator         *)
(* allocates a new butterfly when the capacity changes and publishes it in *)
(* several stores; the visitor takes a snapshot of the structure, of the   *)
(* structure's last offset and of the butterfly by double collect.  The    *)
(* mutator's stores are fenced and the visitor's loads are ordered by      *)
(* dependencies, so each store and each load is one step.  The object has  *)
(* no inline slots and no indexed elements: an offset is the number of     *)
(* out-of-line slots up to it.                                             *)
(***************************************************************************)
EXTENDS Naturals, Sequences

CONSTANTS
    InitialSizes,       \* how many properties the object may have at first
    MaxOperations,      \* bound: the mutator's operations on the object
    MaxSize             \* bound: the number of slots of the object

\* Structure::outOfLineCapacity: none, then initialOutOfLineCapacity, then powers of two.
outOfLineCapacity(offset) ==
    CASE offset = 0 -> 0
      [] offset \in 1 .. 4 -> 4
      [] OTHER -> CHOOSE c \in {2 ^ i : i \in 3 .. offset} : c >= offset /\ c < 2 * offset

\* What the constants have to satisfy.  That a capacity is a positive number is arithmetic:
\* a power of two lies between any size and its double.
ButterflyAssumption ==
    /\ MaxOperations \in Nat /\ MaxSize \in Nat
    /\ InitialSizes \subseteq 0 .. MaxSize
    /\ \A size \in 1 .. MaxSize : outOfLineCapacity(size) \in Nat \ {0}

VARIABLES
    flattens,           \* whether the mutator meets the inline caches that flatten dictionaries
    structureID,        \* the object's m_structureID, without the nuke bit
    nuked,              \* the nuke bit
    butterfly,          \* the object's m_butterfly: 0, or the number of the allocation
    lastOffset,         \* each Structure's m_offset
    values,             \* how many values were stored into the object
    capacity,           \* the out-of-line capacity each butterfly was allocated with
    kind,               \* each Structure's dictionaryKind()
    properties,         \* the size of each Structure's property table
    stores,             \* the stores the mutator's operation still has to do, in program order
    operations,         \* how many operations the mutator began
    black,              \* the object's CellState is PossiblyBlack
    queued,             \* the object is on a mark stack
    raced,              \* the object is on m_raceMarkStack
    visit,              \* the visitor's program counter and what it read
    scanned             \* what the last accepted scan marked

object == <<structureID, nuked, butterfly, values>>
structures == <<flattens, lastOffset, kind, properties>>
colors == <<black, queued, raced>>
vars == <<object, structures, capacity, stores, operations, colors, visit, scanned>>

\* An operation makes at most one structure and one butterfly.
Structures == 1 .. MaxOperations + 1
Butterflies == 1 .. MaxOperations + 1
Fresh == operations + 2

Kinds == {"None", "Cached", "Uncached"}
Stores == {"nuke", "setStructureIDDirectly", "setStructure", "setButterfly", "setLastOffset", "putDirect", "barrier"}
Nothing == [butterfly |-> 0, lastOffset |-> 0, values |-> 0]
Idle == [at |-> "idle", structureID |-> 1, lastOffset |-> 0, butterfly |-> 0]

TypeOK ==
    /\ flattens \in BOOLEAN /\ structureID \in Structures /\ nuked \in BOOLEAN
    /\ butterfly \in {0} \cup Butterflies
    /\ lastOffset \in [Structures -> 0 .. MaxSize]
    /\ properties \in [Structures -> 0 .. MaxSize]
    /\ kind \in [Structures -> Kinds]
    /\ values \in Nat
    /\ capacity \in [Butterflies -> Nat]
    /\ stores \in Seq([to: Stores, value: Nat])
    /\ operations \in 0 .. MaxOperations
    /\ black \in BOOLEAN /\ queued \in BOOLEAN /\ raced \in BOOLEAN
    /\ visit \in [at: {"idle", "structure", "lastOffset", "butterfly", "structureLate", "lastOffsetLate"},
                  structureID: Structures, lastOffset: 0 .. MaxSize, butterfly: {0} \cup Butterflies]
    /\ scanned \in [butterfly: {0} \cup Butterflies, lastOffset: 0 .. MaxSize, values: Nat]

Init ==
    \E size \in InitialSizes :
        /\ flattens \in BOOLEAN /\ structureID = 1 /\ nuked = FALSE
        /\ butterfly = IF size = 0 THEN 0 ELSE 1
        /\ lastOffset = [s \in Structures |-> size]
        /\ properties = [s \in Structures |-> size]
        /\ kind = [s \in Structures |-> "None"]
        /\ values = 0
        /\ capacity = [b \in Butterflies |-> outOfLineCapacity(size)]
        /\ stores = << >> /\ operations = 0
        /\ black = FALSE /\ queued = TRUE /\ raced = FALSE
        /\ visit = Idle /\ scanned = Nothing

-----------------------------------------------------------------------------
(***************************************************************************)
(* The mutator.  An operation begins by computing what it will publish;    *)
(* its stores, in program order, are then taken one at a time.             *)
(***************************************************************************)
Store(to, value) == <<[to |-> to, value |-> value]>>
Barrier == Store("barrier", 0)

\* WriteBarrier::set of a property slot; AuxiliaryBarrier::set of the butterfly;
\* JSCell::setStructure.  Each runs the write barrier on the object after its store.
putDirect == Store("putDirect", 0) \o Barrier
setButterfly(b) == Store("setButterfly", b) \o Barrier
setStructure(s) == Store("setStructure", s) \o Barrier
nukeStructureAndSetButterfly(b) == Store("nuke", 0) \o setButterfly(b)

Begin(list) ==
    /\ stores = << >> /\ operations < MaxOperations
    /\ operations' = operations + 1
    /\ stores' = list
    /\ UNCHANGED <<flattens, object, colors, visit, scanned>>

\* The structure a transition makes: nobody reads it before it is published.
NewStructure(offset, count, dictionaryKind) ==
    /\ lastOffset' = [lastOffset EXCEPT ![Fresh] = offset]
    /\ properties' = [properties EXCEPT ![Fresh] = count]
    /\ kind' = [kind EXCEPT ![Fresh] = dictionaryKind]

\* putDirectInternal on a structure that is not a dictionary: the property is added by a
\* transition to another structure, with more storage if the capacities differ.  After too
\* many transitions the new structure is a cacheable dictionary.
addPropertyTransition ==
    LET old == lastOffset[structureID]
        grows == outOfLineCapacity(old) # outOfLineCapacity(old + 1)
    IN  /\ kind[structureID] = "None" /\ old < MaxSize
        /\ Begin((IF grows THEN nukeStructureAndSetButterfly(Fresh) ELSE << >>)
                 \o putDirect \o setStructure(Fresh))
        /\ \E dictionaryKind \in {"None", "Cached"} : NewStructure(old + 1, old + 1, dictionaryKind)
        /\ capacity' = IF grows THEN [capacity EXCEPT ![Fresh] = outOfLineCapacity(old + 1)] ELSE capacity

\* JSObject::convertToDictionary, for an object about to get many properties.
toDictionaryTransition ==
    /\ kind[structureID] = "None"
    /\ Begin(setStructure(Fresh))
    /\ NewStructure(lastOffset[structureID], properties[structureID], "Cached")
    /\ UNCHANGED capacity

\* prepareToPutDirectWithoutTransition: a dictionary takes the property in place.  The
\* property table hands out the slot of a deleted property first.
prepareToPutDirectWithoutTransition ==
    LET old == lastOffset[structureID]
        new == IF properties[structureID] < old THEN old ELSE old + 1
        grows == outOfLineCapacity(old) # outOfLineCapacity(new)
    IN  /\ kind[structureID] # "None" /\ new <= MaxSize
        /\ Begin((IF grows
                  THEN nukeStructureAndSetButterfly(Fresh) \o Store("setLastOffset", new)
                       \o Store("setStructureIDDirectly", 0)
                  ELSE Store("setLastOffset", new))
                 \o putDirect)
        /\ properties' = [properties EXCEPT ![structureID] = @ + 1]
        /\ capacity' = IF grows THEN [capacity EXCEPT ![Fresh] = outOfLineCapacity(new)] ELSE capacity
        /\ UNCHANGED <<lastOffset, kind>>

\* JSObject::deleteProperty: in an uncacheable dictionary the table forgets the property
\* and keeps its slot; any other structure first becomes one.
deleteProperty ==
    /\ properties[structureID] > 0
    /\ \/ /\ kind[structureID] = "Uncached"
          /\ Begin(<< >>)
          /\ properties' = [properties EXCEPT ![structureID] = @ - 1]
          /\ UNCHANGED <<lastOffset, kind>>
       \/ /\ kind[structureID] # "Uncached"
          /\ Begin(setStructure(Fresh))
          /\ NewStructure(lastOffset[structureID], properties[structureID] - 1, "Uncached")
    /\ UNCHANGED capacity

\* Structure::flattenDictionaryStructure.  An uncacheable dictionary is compacted: its
\* last offset is recomputed one property at a time, the values move, and the storage
\* shrinks if the capacity does.
Compaction ==
    LET count == properties[structureID]
        steps == [i \in 1 .. count + 1 |-> [to |-> "setLastOffset", value |-> i - 1]]
    IN  steps \o (IF count > 0 THEN putDirect ELSE << >>)

flattenDictionaryStructure ==
    LET after == IF kind[structureID] = "Uncached" THEN properties[structureID] ELSE lastOffset[structureID]
        shrinks == butterfly # 0 /\ outOfLineCapacity(lastOffset[structureID]) # outOfLineCapacity(after)
    IN  /\ flattens /\ kind[structureID] # "None"
        /\ Begin(Store("nuke", 0)
                 \o (IF kind[structureID] = "Uncached" THEN Compaction ELSE << >>)
                 \o (IF shrinks THEN setButterfly(IF after = 0 THEN 0 ELSE Fresh) ELSE << >>)
                 \o Store("setStructureIDDirectly", 0) \o Barrier)
        /\ kind' = [kind EXCEPT ![structureID] = "None"]
        /\ capacity' = IF shrinks THEN [capacity EXCEPT ![Fresh] = outOfLineCapacity(after)] ELSE capacity
        /\ UNCHANGED <<lastOffset, properties>>

\* The next store of the operation.
store ==
    LET s == Head(stores)
    IN  /\ stores # << >>
        /\ stores' = Tail(stores)
        /\ nuked' = CASE s.to = "nuke" -> TRUE
                      [] s.to \in {"setStructure", "setStructureIDDirectly"} -> FALSE
                      [] OTHER -> nuked
        /\ structureID' = IF s.to = "setStructure" THEN s.value ELSE structureID
        /\ butterfly' = IF s.to = "setButterfly" THEN s.value ELSE butterfly
        /\ values' = IF s.to = "putDirect" THEN values + 1 ELSE values
        /\ lastOffset' = IF s.to = "setLastOffset" THEN [lastOffset EXCEPT ![structureID] = s.value] ELSE lastOffset
        /\ black' = IF s.to = "barrier" THEN FALSE ELSE black
        /\ queued' = (queued \/ (s.to = "barrier" /\ black))
        /\ UNCHANGED <<flattens, raced, kind, properties, capacity, operations, visit, scanned>>

-----------------------------------------------------------------------------
(***************************************************************************)
(* The visitor: JSObject::visitButterflyImpl, load by load.                *)
(***************************************************************************)

\* SlotVisitor::visitChildren takes the object off its stack and blackens it.
visitChildren ==
    /\ visit.at = "idle"
    /\ \/ queued /\ queued' = FALSE /\ UNCHANGED raced
       \/ raced /\ raced' = FALSE /\ UNCHANGED queued
    /\ black' = TRUE
    /\ visit' = [visit EXCEPT !.at = "structure"]
    /\ UNCHANGED <<object, structures, capacity, stores, operations, scanned>>

Visiting(at) ==
    /\ visit.at = at
    /\ UNCHANGED <<object, structures, capacity, stores, operations, black, queued>>

\* visitButterfly: a visit that returns no structure is repeated later.
didRace == visit' = Idle /\ raced' = TRUE /\ UNCHANGED scanned
Read(at, v) == visit' = [v EXCEPT !.at = at] /\ UNCHANGED <<raced, scanned>>
Accept(b, offset) ==
    /\ scanned' = [butterfly |-> b, lastOffset |-> offset, values |-> values]
    /\ visit' = Idle /\ UNCHANGED raced

readStructureEarly ==
    /\ Visiting("structure")
    /\ IF nuked THEN didRace ELSE Read("lastOffset", [visit EXCEPT !.structureID = structureID])

readLastOffsetEarly ==
    /\ Visiting("lastOffset")
    /\ Read("butterfly", [visit EXCEPT !.lastOffset = lastOffset[visit.structureID]])

readButterfly ==
    /\ Visiting("butterfly")
    /\ IF butterfly = 0 THEN Accept(0, 0) ELSE Read("structureLate", [visit EXCEPT !.butterfly = butterfly])

readStructureLate ==
    /\ Visiting("structureLate")
    /\ IF nuked \/ structureID # visit.structureID THEN didRace ELSE Read("lastOffsetLate", visit)

(* Mutant: the last offset is not read again. *)
readLastOffsetOnce ==
    /\ Visiting("lastOffsetLate")
    /\ Accept(visit.butterfly, visit.lastOffset)

readLastOffsetLate ==
    /\ Visiting("lastOffsetLate")
    /\ IF lastOffset[visit.structureID] # visit.lastOffset THEN didRace
       ELSE Accept(visit.butterfly, visit.lastOffset)

\* The visitor knows that the mutator is stopped, which it is between two operations.
visitStopped ==
    /\ stores = << >>
    /\ Visiting("structure")
    /\ Accept(butterfly, IF butterfly = 0 THEN 0 ELSE lastOffset[structureID])

visitButterfly ==
    \/ readStructureEarly \/ readLastOffsetEarly \/ readButterfly
    \/ readStructureLate \/ readLastOffsetLate \/ visitStopped

operate ==
    \/ addPropertyTransition \/ toDictionaryTransition \/ deleteProperty
    \/ prepareToPutDirectWithoutTransition \/ flattenDictionaryStructure

Next == operate \/ store \/ visitChildren \/ visitButterfly

Spec == Init /\ [][Next]_vars

-----------------------------------------------------------------------------
\* "the collector will never see any torn structure/butterfly mix": a scan that marks a
\* butterfly takes it to be as large as it was allocated, so it finds the allocation's
\* base and reads no slot outside of it.
NoTornScan == scanned.butterfly # 0 => capacity[scanned.butterfly] = outOfLineCapacity(scanned.lastOffset)

\* What marking needs of the scan: between two operations the object is due for another
\* visit, or the last scan covered the storage, the slots and the values it has now.
ScannedOrPending ==
    stores = << >> /\ visit.at = "idle" /\ ~queued /\ ~raced =>
        scanned = [butterfly |-> butterfly, values |-> values,
                   lastOffset |-> IF butterfly = 0 THEN 0 ELSE lastOffset[structureID]]

\* The storage is as large as the structure says whenever the mutator is between two
\* operations: allocateMoreOutOfLineStorage and shiftButterflyAfterFlattening rely on it.
StorageFits ==
    stores = << >> =>
        /\ ~nuked
        /\ (butterfly = 0) = (lastOffset[structureID] = 0)
        /\ butterfly # 0 => capacity[butterfly] = outOfLineCapacity(lastOffset[structureID])

\* Double collect is obstruction-free: once the mutator leaves the object alone, the
\* object stops being revisited.
VisitsEnd == <>[](visit.at = "idle" /\ ~queued /\ ~raced)

=============================================================================

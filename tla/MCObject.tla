------------------------------ MODULE MCObject ------------------------------
(***************************************************************************)
(* Butterfly as a component of MCVisitors.                                 *)
(***************************************************************************)

CONSTANTS InitialSizes, MaxOperations, MaxSize      \* bounds of Butterfly

VARIABLES
    bFlattens, bStructureID, bNuked, bButterfly, bLastOffset, bValues, bCapacity, bKind,
    bProperties, bStores, bOperations, bBlack, bQueued, bRaced, bVisit, bScanned

bVars == <<bFlattens, bStructureID, bNuked, bButterfly, bLastOffset, bValues, bCapacity,
           bKind, bProperties, bStores, bOperations, bBlack, bQueued, bRaced, bVisit, bScanned>>

B == INSTANCE Butterfly WITH
       flattens <- bFlattens, structureID <- bStructureID, nuked <- bNuked, butterfly <- bButterfly,
       lastOffset <- bLastOffset, values <- bValues, capacity <- bCapacity, kind <- bKind,
       properties <- bProperties, stores <- bStores, operations <- bOperations,
       black <- bBlack, queued <- bQueued, raced <- bRaced, visit <- bVisit,
       scanned <- bScanned

ASSUME ObjectAssumption == B!ButterflyAssumption

\* Butterfly: "In other words, the collector will never see any torn structure/butterfly
\* mix", for the sizes that the collector combines, whatever the mutator does.
NeverTorn == B!NoTornScan

\* Butterfly: a scan that marks a butterfly takes it to be as large as it was
\* allocated, unless a dictionary is flattened under the visitor; between two
\* operations the storage is as large as the structure says, and the object is due
\* for another visit or the last scan covered all that it holds now.
ObjectIsScanned ==
    /\ ~bFlattens => B!NoTornScan
    /\ B!TypeOK /\ B!StorageFits /\ B!ScannedOrPending

=============================================================================

----------------------------- MODULE MCMarking -----------------------------
(***************************************************************************)
(* Which cells are live: concurrent marking of a small heap, and the bits  *)
(* of one block through several collections.  Init chooses what runs, and  *)
(* the variables of the other keep their values.  The block is tried with  *)
(* destructors and with the exact mark count, and without destructors and  *)
(* with a racy count that may fail to retire a full block.                 *)
(***************************************************************************)
EXTENDS Marking, MCBlock, TLC

VARIABLE part

mcVars == <<part, vars, bVars>>

\* Marking's cells are interchangeable, and so are its visitors.
MarkingSymmetry == Permutations(Cells) \cup Permutations(Visitors)

MCInit ==
    /\ part \in {"Marking", "MarkedBlock"}
    /\ Init
    /\ B!Init /\ bForgets = ~bNeedsDestruction
    /\ part = "MarkedBlock" \/ bNeedsDestruction

MCNext ==
    \/ part = "Marking" /\ Next /\ UNCHANGED <<part, bVars>>
    \/ part = "MarkedBlock" /\ B!Next /\ UNCHANGED <<part, vars>>

MCSpec == MCInit /\ [][MCNext]_mcVars
=============================================================================

----------------------------- MODULE MCVisitors -----------------------------
(***************************************************************************)
(* The threads that visit the heap: parallel draining, the scan of an      *)
(* object that the mutator changes, the periphery that tells the visitors  *)
(* whether the world is stopped, and the scopes that defer the collection  *)
(* they are part of.  Init chooses what runs, and the variables of the     *)
(* others keep their values.  The components are in modules of their own,  *)
(* for their proofs.                                                       *)
(***************************************************************************)
EXTENDS MCMarkers, MCDeferral, MCObject

VARIABLE part

mcVars == <<part, mVars, bVars, pVars, dVars>>

MCInit ==
    /\ part \in {"Marking", "Butterfly", "Periphery", "Deferral"}
    /\ M!Init /\ B!Init /\ P!Init /\ D!Init
    /\ part = "Butterfly" \/ (bButterfly = 0 /\ ~bFlattens)
    /\ part = "Periphery" \/ ~pOptimizeParallel

\* A step of the component that runs.
OnMarking(A) == part = "Marking" /\ A /\ UNCHANGED <<part, bVars, pVars, dVars>>
OnButterfly(A) == part = "Butterfly" /\ A /\ UNCHANGED <<part, mVars, pVars, dVars>>
OnPeriphery(A) == part = "Periphery" /\ A /\ UNCHANGED <<part, mVars, bVars, dVars>>
OnDeferral(A) == part = "Deferral" /\ A /\ UNCHANGED <<part, mVars, bVars, pVars>>

MCNext ==
    OnMarking(M!Next) \/ OnButterfly(B!Next) \/ OnPeriphery(P!Next) \/ OnDeferral(D!Next)

\* The threads run: the collector and the helpers go on draining, an increment of
\* the mutator's and an operation on the object that began are finished, and the
\* conductor goes on stopping or resuming.  Nothing makes a helper start, the
\* mutator operate, or the world stop.
Conducts ==
    \/ OnMarking(M!Collects) \/ OnButterfly(B!store)
    \/ OnPeriphery(P!tellStopped \/ P!tellResumed \/ P!stopTrying \/ P!updateUnderLock)

Mutates ==
    \/ OnMarking(M!Increments)
    \/ OnButterfly(B!visitChildren \/ B!visitButterfly)
    \/ OnPeriphery(P!Drains(Collector))

Helps(v) == OnMarking(M!Helps(v)) \/ OnPeriphery(P!Drains(v))

MCSpec ==
    /\ MCInit /\ [][MCNext]_mcVars
    /\ WF_mcVars(Conducts) /\ WF_mcVars(Mutates)
    /\ \A v \in Helpers : WF_mcVars(Helps(v))

----------------------------------------------------------------------------
(* Properties *)

\* Marking ends and every helper goes back to the pool, an object that the mutator
\* leaves alone stops being revisited, and resumeThePeriphery returns, however
\* long the visitors go on draining.  A visitor that was told there is work gets
\* at least one cell of it, and the mark stacks hold no cell twice.
VisitorsReturn ==
    /\ M!StealFindsWork /\ []M!StacksAreBounded
    /\ part = "Marking" => M!MarkingEnds
    /\ part = "Butterfly" => B!VisitsEnd
    /\ P!ResumeReturns
=============================================================================

----------------------------- MODULE MCDeferral -----------------------------
(***************************************************************************)
(* GCDeferral as a component of MCVisitors.                                *)
(***************************************************************************)

CONSTANT MaxFrames

VARIABLES
    dStack, dDepth, dDidDeferGCWork, dMutatorState, dMayNeedToStop, dOverLimit, dRequested,
    dNoticed

dVars == <<dStack, dDepth, dDidDeferGCWork, dMutatorState, dMayNeedToStop, dOverLimit,
           dRequested, dNoticed>>

D == INSTANCE GCDeferral WITH
       stack <- dStack, depth <- dDepth, didDeferGCWork <- dDidDeferGCWork,
       mutatorState <- dMutatorState, mayNeedToStop <- dMayNeedToStop,
       overLimit <- dOverLimit, requested <- dRequested, noticed <- dNoticed

ASSUME DeferralAssumption == D!MaxFramesAssumption

\* GCDeferral: no collection stops the mutator inside a DeferGC, a
\* DeferGCForAWhile or another collection, and what a check noticed meanwhile is
\* not forgotten before a collection ends; the mutator's state is what the
\* RELEASE_ASSERTs of AllocatingScope say where an allocation begins and ends.
DeferralIsKept ==
    /\ D!TypeOK
    /\ D!NoCollectionWhileDeferred /\ D!NoNestedCollection /\ D!DeferredWorkIsRemembered
    /\ D!AllocatingScopeAsserts

=============================================================================

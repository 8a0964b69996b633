-------------------------- MODULE MCHeapConductor --------------------------
(***************************************************************************)
(* HeapConductor for TLC.  The two requests differ in scope, so that one   *)
(* may subsume the other in one direction only; the .cfg files choose the  *)
(* build (threads, concurrent collector), the entry points and the bounds. *)
(***************************************************************************)
EXTENDS HeapConductor

MCRequests == {[scope |-> "full", didFinishEndPhase |-> FALSE], AnyRequest}

=============================================================================

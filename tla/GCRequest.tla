----------------------------- MODULE GCRequest -----------------------------
(***************************************************************************)
(* A request for a collection: JavaScriptCore/heap/GCRequest.h and         *)
(* GCRequest.cpp.  The scope is an Optional<CollectionScope>, "any" stands *)
(* for the disengaged optional; the callback is kept as the fact that it   *)
(* is there.                                                               *)
(***************************************************************************)

CollectionScope == {"eden", "full"}

GCRequest == [scope : CollectionScope \cup {"any"}, didFinishEndPhase : BOOLEAN]

(* Heap::collectAsync() without an argument, and the request of the        *)
(* collectContinuously thread.                                             *)
AnyRequest == [scope |-> "any", didFinishEndPhase |-> FALSE]

subsumedBy(this, other) ==
    /\ ~this.didFinishEndPhase
    /\ \/ other.scope = "full"
       \/ this.scope = "eden"
       \/ this.scope = "any" /\ other.scope = "any"

=============================================================================

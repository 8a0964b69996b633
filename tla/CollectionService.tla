------------------------- MODULE CollectionService -------------------------
(***************************************************************************)
(* What the heap promises to those who request collections, whichever      *)
(* thread conducts them: requests are granted tickets and served in order, *)
(* one collection each; a collection is served at its end, with the world  *)
(* stopped; its finalizers run before the next one begins; and who waits   *)
(* for a ticket returns only when it is served.  It promises nothing once  *)
(* an assertion of the protocol has been put at risk (failed).             *)
(***************************************************************************)
EXTENDS Naturals, Sequences

CONSTANT Requests       \* what can be requested

VARIABLES
    queue,              \* the requests not yet served
    granted,            \* the last ticket granted
    served,             \* the last ticket served
    stage,              \* of the current collection
    unfinalized,        \* the finalizers of the last one are still to run
    waiting,            \* the ticket the mutator waits for, 0 if none
    failed

vars == <<queue, granted, served, stage, unfinalized, waiting, failed>>

Init ==
    /\ queue = << >> /\ granted = 0 /\ served = 0
    /\ stage = "idle" /\ unfinalized = FALSE
    /\ waiting = 0 /\ failed = FALSE

\* A request is appended; the requester may wait for its ticket.
Request(r) ==
    /\ queue' = Append(queue, r) /\ granted' = granted + 1
    /\ waiting' \in {waiting, granted'}
    /\ UNCHANGED <<served, stage, unfinalized, failed>>

\* The world stops, for a new collection or to go on with one.
Stop ==
    /\ \/ stage = "idle" /\ queue # << >> /\ ~unfinalized
       \/ stage = "concurrent"
    /\ stage' = "stopped"
    /\ UNCHANGED <<queue, granted, served, unfinalized, waiting, failed>>

Resume ==
    /\ stage = "stopped" /\ stage' = "concurrent"
    /\ UNCHANGED <<queue, granted, served, unfinalized, waiting, failed>>

Serve ==
    /\ stage = "stopped" /\ queue # << >> /\ stage' = "served"
    /\ queue' = Tail(queue) /\ served' = served + 1
    /\ UNCHANGED <<granted, unfinalized, waiting, failed>>

\* Finalizers become due, and then the world resumes.
NeedFinalize ==
    /\ stage = "served" /\ unfinalized' = TRUE
    /\ UNCHANGED <<queue, granted, served, stage, waiting, failed>>

End ==
    /\ stage = "served" /\ unfinalized /\ stage' = "idle"
    /\ UNCHANGED <<queue, granted, served, unfinalized, waiting, failed>>

Finalize ==
    /\ stage = "idle" /\ unfinalized' = FALSE
    /\ UNCHANGED <<queue, granted, served, stage, waiting, failed>>

Return ==
    /\ served >= waiting /\ waiting' = 0
    /\ UNCHANGED <<queue, granted, served, stage, unfinalized, failed>>

Next ==
    \/ \E r \in Requests : Request(r)
    \/ Stop \/ Resume \/ Serve \/ NeedFinalize \/ End \/ Finalize \/ Return
    \/ failed'

Spec == Init /\ [][Next]_vars
=============================================================================

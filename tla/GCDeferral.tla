----------------------------- MODULE GCDeferral -----------------------------
(***************************************************************************)
(* When a collection may start on the mutator's thread.  Code that cannot  *)
(* bear one opens a DeferGC or a DeferGCForAWhile, or hands a              *)
(* GCDeferralContext to its allocations.  collectIfNecessaryOrDefer then   *)
(* leaves a note, in m_didDeferGCWork or in the context, and the           *)
(* destructors of the scopes act on it.  The variable stack is the C++     *)
(* stack of the mutator, as far as such scopes go, and of the collector    *)
(* thread while it holds the mutator stopped.                              *)
(***************************************************************************)
EXTENDS Naturals, Sequences

CONSTANT MaxFrames      \* a bound on the nesting of scopes

\* What the constants have to satisfy.
MaxFramesAssumption == MaxFrames \in Nat

VARIABLES
    stack,              \* the open scopes, the innermost last
    depth,              \* m_deferralDepth
    didDeferGCWork,     \* m_didDeferGCWork
    mutatorState,       \* m_mutatorState
    mayNeedToStop,      \* the world state asks the mutator to stop, or gives it the conn
    overLimit,          \* m_bytesAllocatedThisCycle exceeds what the cycle allows
    requested,          \* a collection is requested or under way
    noticed             \* a check since the last collection saw that one was needed (history)

vars == <<stack, depth, didDeferGCWork, mutatorState, mayNeedToStop, overLimit, requested, noticed>>
conductor == <<mayNeedToStop, requested>>

Kinds == {"DeferGC", "DeferGCForAWhile", "GCDeferralContext", "AllocatingScope", "SweepingScope",
          "CollectingScope", "worldIsStopped", "collectIfNecessaryOrDefer"}
States == {"Running", "Allocating", "Sweeping", "Collecting"}
Deferring == {"DeferGC", "DeferGCForAWhile"}
Collection == {"CollectingScope", "worldIsStopped"}

\* A scope or a call of collectIfNecessaryOrDefer: the mutator's state where it began, a
\* context's m_shouldGC, and for a call where it is, and which frame its context is (0 for
\* none).
Frames == [kind: Kinds, oldState: States, shouldGC: BOOLEAN, at: {"stop", "limit"}, context: 0 .. MaxFrames]
Frame(kind) == [kind |-> kind, oldState |-> mutatorState, shouldGC |-> FALSE, at |-> "stop", context |-> 0]
Call(context, state) == [kind |-> "collectIfNecessaryOrDefer", oldState |-> state, shouldGC |-> FALSE,
                         at |-> "stop", context |-> context]

TypeOK ==
    /\ stack \in Seq(Frames) /\ depth \in 0 .. MaxFrames
    /\ mutatorState \in States
    /\ {didDeferGCWork, mayNeedToStop, overLimit, requested, noticed} \subseteq BOOLEAN

Init ==
    /\ stack = << >> /\ depth = 0 /\ didDeferGCWork = FALSE /\ mutatorState = "Running"
    /\ mayNeedToStop = FALSE /\ overLimit = FALSE /\ requested = FALSE /\ noticed = FALSE

Pop == SubSeq(stack, 1, Len(stack) - 1)
Top(kind) == stack # << >> /\ stack[Len(stack)].kind = kind
Room == Len(stack) < MaxFrames

\* Code that may open scopes or allocate runs, rather than a call of this module's.
InCollection == \E i \in 1 .. Len(stack) : stack[i].kind \in Collection
Program == ~Top("AllocatingScope") /\ ~Top("collectIfNecessaryOrDefer")

\* The program's own code may allocate, and a destructor or the code of a collection may not.
Working == {"AllocatingScope", "SweepingScope", "CollectingScope", "worldIsStopped"}
MayAllocate == Program /\ \A i \in 1 .. Len(stack) : stack[i].kind \notin Working

-----------------------------------------------------------------------------
(* The scopes. *)

\* DeferGC is not used by destructors, and by a collection only below its DeferGCForAWhile.
deferGC ==
    /\ Program /\ Room
    /\ depth > 0 \/ mutatorState = "Running"
    /\ ~Top("worldIsStopped")
    /\ stack' = Append(stack, Frame("DeferGC")) /\ depth' = depth + 1
    /\ UNCHANGED <<didDeferGCWork, mutatorState, overLimit, noticed, conductor>>

deferGCForAWhile ==
    /\ Program /\ Room
    /\ stack' = Append(stack, Frame("DeferGCForAWhile")) /\ depth' = depth + 1
    /\ UNCHANGED <<didDeferGCWork, mutatorState, overLimit, noticed, conductor>>

(* Mutant: the note is cleared at any depth. *)
endDeferGCForgets ==
    /\ Top("DeferGC") /\ depth' = depth - 1
    /\ IF didDeferGCWork /\ depth' = 0
       THEN didDeferGCWork' = FALSE /\ stack' = Append(Pop, Call(0, mutatorState))
       ELSE stack' = Pop /\ didDeferGCWork' = FALSE
    /\ UNCHANGED <<mutatorState, overLimit, noticed, conductor>>

\* ~DeferGC: decrementDeferralDepthAndGCIfNeeded, with its slow path.
endDeferGC ==
    /\ Top("DeferGC") /\ depth' = depth - 1
    /\ IF didDeferGCWork /\ depth' = 0
       THEN didDeferGCWork' = FALSE /\ stack' = Append(Pop, Call(0, mutatorState))
       ELSE stack' = Pop /\ UNCHANGED didDeferGCWork
    /\ UNCHANGED <<mutatorState, overLimit, noticed, conductor>>

\* ~DeferGCForAWhile: decrementDeferralDepth
endDeferGCForAWhile ==
    /\ Top("DeferGCForAWhile") /\ depth' = depth - 1 /\ stack' = Pop
    /\ UNCHANGED <<didDeferGCWork, mutatorState, overLimit, noticed, conductor>>

gcDeferralContext ==
    /\ MayAllocate /\ Room
    /\ stack' = Append(stack, Frame("GCDeferralContext"))
    /\ UNCHANGED <<depth, didDeferGCWork, mutatorState, overLimit, noticed, conductor>>

\* ~GCDeferralContext
endGCDeferralContext ==
    /\ Top("GCDeferralContext")
    /\ stack' = IF stack[Len(stack)].shouldGC THEN Append(Pop, Call(0, mutatorState)) ELSE Pop
    /\ UNCHANGED <<depth, didDeferGCWork, mutatorState, overLimit, noticed, conductor>>

\* sweep() of a block, also to find a cell for allocateSlowCase: destructors run inside.
sweep ==
    /\ Program \/ Top("AllocatingScope")
    /\ Room /\ ~InCollection
    /\ stack' = Append(stack, Frame("SweepingScope")) /\ mutatorState' = "Sweeping"
    /\ UNCHANGED <<depth, didDeferGCWork, overLimit, noticed, conductor>>

\* ~SweepingScope restores the state, and ~AllocatingScope sets it.
endScope ==
    /\ \/ Top("SweepingScope") /\ mutatorState' = stack[Len(stack)].oldState
       \/ Top("AllocatingScope") /\ mutatorState' = "Running"
    /\ stack' = Pop
    /\ UNCHANGED <<depth, didDeferGCWork, overLimit, noticed, conductor>>

-----------------------------------------------------------------------------
(* What notices that a collection is due. *)

\* allocateSlowCase: didAllocate, AllocatingScope, collectIfNecessaryOrDefer.  A context
\* given to it is the innermost scope of the caller, or there is a DeferGC in it.
allocateSlowCase ==
    /\ MayAllocate /\ Len(stack) + 1 < MaxFrames
    /\ overLimit' \in {overLimit, TRUE}
    /\ stack' = stack \o <<Frame("AllocatingScope"),
                         Call(IF Top("GCDeferralContext") THEN Len(stack) ELSE 0, "Allocating")>>
    /\ mutatorState' = "Allocating"
    /\ UNCHANGED <<depth, didDeferGCWork, noticed, conductor>>

\* reportExtraMemoryAllocatedSlowCase, which destructors and the collector's JIT
\* completion may reach as well.
reportExtraMemoryAllocated ==
    /\ Program /\ Room /\ ~Top("worldIsStopped")
    /\ overLimit' \in {overLimit, TRUE}
    /\ stack' = Append(stack, Call(0, mutatorState))
    /\ UNCHANGED <<depth, didDeferGCWork, mutatorState, noticed, conductor>>

\* The three ways collectIfNecessaryOrDefer can act, in the frame on top.
Calling == stack[Len(stack)]
Note(next) ==
    IF Calling.context # 0
    THEN /\ stack' = [next EXCEPT ![Calling.context].shouldGC = TRUE]
         /\ UNCHANGED didDeferGCWork
    ELSE /\ depth > 0 /\ didDeferGCWork' = TRUE
         /\ stack' = next

\* stopIfNecessary: the mutator conducts the collection, or waits while the collector does.
Stop(next) ==
    /\ Calling.context = 0 /\ depth = 0
    /\ mayNeedToStop' = FALSE
    /\ \/ stack' = Append(next, Frame("CollectingScope")) /\ mutatorState' = "Collecting"
       \/ stack' = Append(next, Frame("worldIsStopped")) /\ UNCHANGED mutatorState
    /\ UNCHANGED didDeferGCWork

Limit == [stack EXCEPT ![Len(stack)].at = "limit"]

\* finalize(), once the mutator is past the stop of collectIfNecessaryOrDefer.
finalize ==
    /\ Top("collectIfNecessaryOrDefer") /\ Calling.at = "limit" /\ Calling.context = 0 /\ depth = 0
    /\ Room
    /\ stack' = Append(stack, Frame("SweepingScope")) /\ mutatorState' = "Sweeping"
    /\ UNCHANGED <<depth, didDeferGCWork, overLimit, noticed, conductor>>

\* collectIfNecessaryOrDefer up to the check of the world state
collectOrDeferToStop ==
    /\ Top("collectIfNecessaryOrDefer") /\ Calling.at = "stop"
    /\ \/ /\ mutatorState \in {"Sweeping", "Collecting"}
          /\ stack' = Pop
          /\ UNCHANGED <<didDeferGCWork, mutatorState, noticed, mayNeedToStop>>
       \/ /\ mutatorState \in {"Running", "Allocating"} /\ ~mayNeedToStop
          /\ stack' = Limit
          /\ UNCHANGED <<didDeferGCWork, mutatorState, noticed, mayNeedToStop>>
       \/ /\ mutatorState \in {"Running", "Allocating"} /\ mayNeedToStop
          /\ noticed' = TRUE
          /\ \/ Note(Limit) /\ UNCHANGED <<mutatorState, mayNeedToStop>>
             \/ Stop(Limit)
    /\ UNCHANGED <<depth, overLimit, requested>>

\* ... and from the check of the cycle's allocation on.  collectAsync raises the stop at
\* once if it gives the mutator the conn, and otherwise leaves that to the collector.
collectOrDeferAtLimit ==
    /\ Top("collectIfNecessaryOrDefer") /\ Calling.at = "limit"
    /\ \/ ~overLimit /\ stack' = Pop /\ UNCHANGED <<didDeferGCWork, mutatorState, noticed, conductor>>
       \/ /\ overLimit /\ noticed' = TRUE
          /\ \/ Note(Pop) /\ UNCHANGED <<mutatorState, conductor>>
             \/ requested' = TRUE /\ Stop(Pop)
             \/ /\ Calling.context = 0 /\ depth = 0
                /\ requested' = TRUE /\ stack' = Pop
                /\ UNCHANGED <<didDeferGCWork, mutatorState, mayNeedToStop>>
    /\ UNCHANGED <<depth, overLimit>>

\* The collector's side: a timer asks for a collection, and the collector for a stop.
requestCollection ==
    /\ ~requested /\ requested' = TRUE
    /\ UNCHANGED <<stack, depth, didDeferGCWork, mutatorState, mayNeedToStop, overLimit, noticed>>

stopTheMutator ==
    /\ requested /\ ~mayNeedToStop /\ ~InCollection
    /\ mayNeedToStop' = TRUE
    /\ UNCHANGED <<stack, depth, didDeferGCWork, mutatorState, overLimit, requested, noticed>>

\* The mutator resumes, in the middle of a collection or at its end.
resumeTheMutator ==
    /\ Top("CollectingScope") \/ Top("worldIsStopped")
    /\ stack' = Pop /\ mutatorState' = Calling.oldState
    /\ \/ UNCHANGED <<overLimit, requested, noticed>>
       \/ overLimit' = FALSE /\ requested' = FALSE /\ noticed' = FALSE
    /\ UNCHANGED <<depth, didDeferGCWork, mayNeedToStop>>

Next ==
    \/ deferGC \/ deferGCForAWhile \/ endDeferGC \/ endDeferGCForAWhile
    \/ gcDeferralContext \/ endGCDeferralContext \/ sweep \/ finalize \/ endScope
    \/ allocateSlowCase \/ reportExtraMemoryAllocated
    \/ collectOrDeferToStop \/ collectOrDeferAtLimit
    \/ requestCollection \/ stopTheMutator \/ resumeTheMutator

Spec == Init /\ [][Next]_vars

-----------------------------------------------------------------------------
\* No collection stops the mutator inside a DeferGC or a DeferGCForAWhile, however the
\* scopes, contexts, sweeps and allocations around it are nested.
NoCollectionWhileDeferred ==
    \A i, j \in 1 .. Len(stack) : i < j /\ stack[j].kind \in Collection => stack[i].kind \notin Deferring

\* The RELEASE_ASSERTs of AllocatingScope: the state is Running where the program allocates,
\* whatever it nested before, and Allocating again when the allocation is over, whatever was
\* swept, finalized or collected in it.
AllocatingScopeAsserts ==
    /\ MayAllocate => mutatorState = "Running"
    /\ Top("AllocatingScope") => mutatorState = "Allocating"

\* A collection never runs inside another one's stop.
NoNestedCollection ==
    \A i, j \in 1 .. Len(stack) : i < j /\ stack[j].kind \in Collection => stack[i].kind \notin Collection

\* Once a check has seen that a collection or a stop is due, that is not forgotten before a
\* collection ends: it is requested, or noted in the heap or in an open context, or a call
\* that acts on the note is under way.
DeferredWorkIsRemembered ==
    noticed =>
        \/ requested \/ didDeferGCWork
        \/ \E i \in 1 .. Len(stack) : stack[i].shouldGC \/ stack[i].kind = "collectIfNecessaryOrDefer"
=============================================================================

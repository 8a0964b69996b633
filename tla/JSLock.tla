------------------------------- MODULE JSLock -------------------------------
(***************************************************************************)
(* JSLock.cpp: the recursive lock of a VM.  Threads run native and script  *)
(* code that nests scopes: a JSLockHolder (or a lock_guard), a             *)
(* DropAllLocks, and the microtasks that are drained before the lock is    *)
(* released.  m_lock is the WTF::Lock that LockAlgorithm models; here it   *)
(* is a mutex.  The steps that matter are the racy reads of                *)
(* currentThreadIsHoldingLock() and the gaps between the stores.           *)
(***************************************************************************)
EXTENDS Naturals, SequencesExt, FiniteSetsExt

CONSTANTS
    Threads, NoThread,
    MaxOpens            \* bound on the scopes each thread opens

\* What the constants have to satisfy.
JSLockAssumption == NoThread \notin Threads /\ MaxOpens \in Nat

VARIABLES
    mutex,              \* m_lock: its owner
    ownerThread,        \* m_ownerThread
    hasOwnerThread,     \* m_hasOwnerThread
    lockCount,          \* m_lockCount
    lockDropDepth,      \* m_lockDropDepth
    vm,                 \* m_vm is not null
    embedderRef,        \* the embedder has a reference to the VM
    stackPointer,       \* the VM's stackPointerAtVMEntry: a scope of a thread
    heapAccess,         \* the heap's hasAccess()
    shouldRelease,      \* m_shouldReleaseHeapAccess
    table,              \* the thread's current atomic string table
    entryTable,         \* m_entryAtomicStringTable
    saved,              \* the thread's savedStackPointerAtVMEntry
    stack,              \* the scopes the thread is in
    opens, pc

shared == <<mutex, ownerThread, hasOwnerThread, lockCount, lockDropDepth>>
vmVars == <<vm, embedderRef, stackPointer, heapAccess, shouldRelease, table, entryTable>>
vars == <<shared, vmVars, saved, stack, opens, pc>>

NoPointer == <<>>
Pointers == {NoPointer} \cup (Threads \X (1 .. 2 * MaxOpens))

Scopes ==
    [kind: {"holder", "guard"}, ref: BOOLEAN]
    \cup [kind: {"drop"}, ref: {TRUE}, count: Nat, depth: Nat]
    \cup [kind: {"drain"}, ref: BOOLEAN, count: Nat, then: {"close", "drop", "retry"}]

Top(t) == Last(stack[t])
TopIs(t, kinds) == stack[t] # <<>> /\ Top(t).kind \in kinds

TypeOK ==
    /\ mutex \in Threads \cup {NoThread} /\ ownerThread \in Threads \cup {NoThread}
    /\ hasOwnerThread \in BOOLEAN
    /\ lockCount \in Nat /\ lockDropDepth \in Nat
    /\ vm \in BOOLEAN /\ embedderRef \in BOOLEAN /\ heapAccess \in BOOLEAN /\ shouldRelease \in BOOLEAN
    /\ stackPointer \in Pointers
    /\ table \in [Threads -> {"thread", "vm"}]
    /\ entryTable \in {"null", "thread", "vm"}
    /\ saved \in [Threads -> Pointers]
    /\ \A t \in Threads : \A i \in DOMAIN stack[t] : stack[t][i] \in Scopes
    /\ opens \in [Threads -> 0 .. MaxOpens]
    /\ pc \in [Threads -> {"run", "tryLock", "readHasOwner", "readOwner", "block", "setOwner",
                           "setHasOwner", "check", "unlock"}]

\* The embedder has one reference, and may hold heap access of its own.
Init ==
    /\ mutex = NoThread /\ ownerThread = NoThread /\ hasOwnerThread = FALSE
    /\ lockCount = 0 /\ lockDropDepth = 0
    /\ vm = TRUE /\ embedderRef = TRUE
    /\ stackPointer = NoPointer
    /\ heapAccess \in BOOLEAN /\ shouldRelease = FALSE
    /\ table = [t \in Threads |-> "thread"] /\ entryTable = "null"
    /\ saved = [t \in Threads |-> NoPointer]
    /\ stack = [t \in Threads |-> <<>>]
    /\ opens = [t \in Threads |-> 0]
    /\ pc = [t \in Threads |-> "run"]

Goto(t, label) == pc' = [pc EXCEPT ![t] = label]
Push(t, scope) == stack' = [stack EXCEPT ![t] = Append(@, scope)]
Pop(t, n) == stack' = [stack EXCEPT ![t] = SubSeq(@, 1, Len(@) - n)]
Opens(t) == opens[t] < MaxOpens /\ opens' = [opens EXCEPT ![t] = @ + 1]

currentThreadIsHoldingLock(t) == hasOwnerThread /\ ownerThread = t

----------------------------------------------------------------------------
(* lock(lockCount): the count is 1, or what the DropAllLocks dropped *)

wanted(t) == IF TopIs(t, {"drop"}) THEN Top(t).count ELSE 1

\* lock() returns: to a new scope, or to the loop of grabAllLocks().
Locked(t) == Goto(t, IF TopIs(t, {"drop"}) THEN "check" ELSE "run")

\* The thread runs native code, script or, if there is a VM, microtasks.
RunsCode(t) == pc[t] = "run" /\ (TopIs(t, {"drain"}) => Top(t).ref)

\* Somebody other than the scopes of t from the i-th up refers to the VM.
Referred(t, i) ==
    \/ embedderRef
    \/ \E s \in Threads : \E j \in DOMAIN stack[s] : (s = t => j < i) /\ stack[s][j].ref

\* A JSLockHolder holds a reference; the lock_guard of a JSRunLoopTimer takes none.
enter(t, kind) ==
    /\ RunsCode(t) /\ Opens(t)
    /\ kind = "holder" => vm
    /\ Push(t, [kind |-> kind, ref |-> kind = "holder"])
    /\ Goto(t, "tryLock")
    /\ UNCHANGED <<shared, vmVars, saved>>

tryLock(t) ==
    /\ pc[t] = "tryLock"
    /\ IF mutex = NoThread
       THEN mutex' = t /\ Goto(t, "setOwner")
       ELSE UNCHANGED mutex /\ Goto(t, "readHasOwner")
    /\ UNCHANGED <<ownerThread, hasOwnerThread, lockCount, lockDropDepth, vmVars, saved, stack, opens>>

readHasOwner(t) ==
    /\ pc[t] = "readHasOwner"
    /\ Goto(t, IF hasOwnerThread THEN "readOwner" ELSE "block")
    /\ UNCHANGED <<shared, vmVars, saved, stack, opens>>

\* The guard of a timer takes its reference to the VM when it has the lock.
Referenced(t) ==
    stack' = IF TopIs(t, {"guard"}) THEN [stack EXCEPT ![t][Len(stack[t])].ref = vm] ELSE stack

(* Mutant: somebody owns the lock, so it is this thread. *)
readOwnerUnchecked(t) ==
    /\ pc[t] = "readOwner"
    /\ IF hasOwnerThread
       THEN lockCount' = lockCount + wanted(t) /\ Locked(t) /\ Referenced(t)
       ELSE Goto(t, "block") /\ UNCHANGED <<lockCount, stack>>
    /\ UNCHANGED <<mutex, ownerThread, hasOwnerThread, lockDropDepth, vmVars, saved, opens>>

readOwner(t) ==
    /\ pc[t] = "readOwner"
    /\ IF ownerThread = t
       THEN lockCount' = lockCount + wanted(t) /\ Locked(t) /\ Referenced(t)
       ELSE Goto(t, "block") /\ UNCHANGED <<lockCount, stack>>
    /\ UNCHANGED <<mutex, ownerThread, hasOwnerThread, lockDropDepth, vmVars, saved, opens>>

block(t) ==
    /\ pc[t] = "block" /\ mutex = NoThread
    /\ mutex' = t
    /\ Goto(t, "setOwner")
    /\ UNCHANGED <<ownerThread, hasOwnerThread, lockCount, lockDropDepth, vmVars, saved, stack, opens>>

setOwner(t) ==
    /\ pc[t] = "setOwner"
    /\ ownerThread' = t
    /\ Goto(t, "setHasOwner")
    /\ UNCHANGED <<mutex, hasOwnerThread, lockCount, lockDropDepth, vmVars, saved, stack, opens>>

didAcquireLock(t) ==
    IF vm
    THEN /\ entryTable' = table[t]
         /\ table' = [table EXCEPT ![t] = "vm"]
         /\ heapAccess' = TRUE
         /\ shouldRelease' = ~heapAccess
         /\ stackPointer' = <<t, Len(stack[t])>>
    ELSE UNCHANGED <<entryTable, table, heapAccess, shouldRelease, stackPointer>>

setHasOwner(t) ==
    /\ pc[t] = "setHasOwner"
    /\ hasOwnerThread' = TRUE
    /\ lockCount' = wanted(t)
    /\ didAcquireLock(t)
    /\ Locked(t) /\ Referenced(t)
    /\ UNCHANGED <<mutex, ownerThread, lockDropDepth, vm, embedderRef, saved, opens>>

----------------------------------------------------------------------------
(* unlock(unlockCount) *)

\* The last unlock refers to the VM, if there still is one, and drains the microtasks
\* first, with m_lockCount as it is.
willReleaseLock(t, scopes, n, next) ==
    LET drain == [kind |-> "drain", ref |-> vm', count |-> n, then |-> next]
    IN  stack' = [stack EXCEPT ![t] = Append(scopes, drain)]

\* The rest of willReleaseLock(), which may drop the last reference and destroy the
\* VM, and of unlock() up to m_lock.unlock().
drained(t) ==
    /\ pc[t] = "run" /\ TopIs(t, {"drain"})
    /\ stackPointer' = IF vm THEN NoPointer ELSE stackPointer
    /\ heapAccess' = (heapAccess /\ ~(vm /\ shouldRelease))
    /\ table' = IF entryTable # "null" THEN [table EXCEPT ![t] = entryTable] ELSE table
    /\ entryTable' = "null"
    /\ lockCount' = lockCount - Top(t).count
    /\ hasOwnerThread' = (hasOwnerThread /\ lockCount' # 0)
    /\ vm' = (vm /\ Referred(t, Len(stack[t])))
    /\ Goto(t, "unlock")
    /\ stack' = [stack EXCEPT ![t][Len(stack[t])].ref = FALSE]
    /\ UNCHANGED <<mutex, ownerThread, lockDropDepth, embedderRef, shouldRelease, saved, opens>>

\* m_lock.unlock(), and the return to whatever unlocked: the end of a scope, a
\* callback without the lock, or the yield() and lock() of grabAllLocks().
unlock(t) ==
    /\ pc[t] = "unlock"
    /\ mutex' = IF lockCount = 0 THEN NoThread ELSE mutex
    /\ Pop(t, IF Top(t).then = "close" THEN 2 ELSE 1)
    /\ Goto(t, IF Top(t).then = "retry" THEN "tryLock" ELSE "run")
    /\ UNCHANGED <<ownerThread, hasOwnerThread, lockCount, lockDropDepth, vmVars, saved, opens>>

\* ~JSLockHolder drops the reference, which may destroy the VM (willDestroyVM), then unlocks.
leave(t) ==
    /\ pc[t] = "run" /\ TopIs(t, {"holder", "guard"})
    /\ vm' = (vm /\ Referred(t, Len(stack[t])))
    /\ IF lockCount = 1
       THEN /\ willReleaseLock(t, Append(Front(stack[t]), [Top(t) EXCEPT !.ref = FALSE]), 1, "close")
            /\ UNCHANGED lockCount
       ELSE Pop(t, 1) /\ lockCount' = lockCount - 1
    /\ UNCHANGED <<mutex, ownerThread, hasOwnerThread, lockDropDepth, embedderRef, stackPointer,
                   heapAccess, shouldRelease, table, entryTable, saved, opens, pc>>

\* The embedder gives up its reference; JSContextGroupRelease() locks to do so.
deref(t) ==
    /\ pc[t] = "run" /\ TopIs(t, {"holder"}) /\ embedderRef
    /\ embedderRef' = FALSE
    /\ UNCHANGED <<shared, vm, stackPointer, heapAccess, shouldRelease, table, entryTable, saved, stack,
                   opens, pc>>

----------------------------------------------------------------------------
(* DropAllLocks; it is used by code that a JSLockHolder encloses *)

dropAllLocks(t) ==
    /\ RunsCode(t) /\ Opens(t)
    /\ \E i \in DOMAIN stack[t] : stack[t][i].kind = "holder"
    /\ vm /\ UNCHANGED vmVars
    /\ IF currentThreadIsHoldingLock(t)
       THEN /\ lockDropDepth' = lockDropDepth + 1
            /\ saved' = [saved EXCEPT ![t] = stackPointer]
            /\ LET drop == [kind |-> "drop", ref |-> TRUE, count |-> lockCount, depth |-> lockDropDepth']
               IN  willReleaseLock(t, Append(stack[t], drop), lockCount, "drop")
       ELSE /\ Push(t, [kind |-> "drop", ref |-> TRUE, count |-> 0, depth |-> 0])
            /\ UNCHANGED <<lockDropDepth, saved>>
    /\ UNCHANGED <<mutex, ownerThread, hasOwnerThread, lockCount, pc>>

\* ~DropAllLocks: nothing to do, or lock(droppedLockCount).
grabAllLocks(t) ==
    /\ pc[t] = "run" /\ TopIs(t, {"drop"})
    /\ IF Top(t).count = 0
       THEN Pop(t, 1) /\ UNCHANGED pc
       ELSE Goto(t, "tryLock") /\ UNCHANGED stack
    /\ UNCHANGED <<shared, vmVars, saved, opens>>

(* Mutant: spin without giving up the lock. *)
retrySpins(t) ==
    /\ pc[t] = "check" /\ Top(t).depth # lockDropDepth
    /\ UNCHANGED vars

\* Not the last one that dropped: unlock, yield, lock again.
retry(t) ==
    /\ pc[t] = "check" /\ Top(t).depth # lockDropDepth
    /\ UNCHANGED <<shared, vmVars, saved, opens>>
    /\ willReleaseLock(t, stack[t], Top(t).count, "retry")
    /\ Goto(t, "run")

(* Mutant: the order of the drops is not looked at. *)
regrabAtOnce(t) ==
    /\ pc[t] = "check"
    /\ lockDropDepth' = lockDropDepth - 1
    /\ stackPointer' = saved[t]
    /\ Pop(t, 1)
    /\ Goto(t, "run")
    /\ UNCHANGED <<mutex, ownerThread, hasOwnerThread, lockCount, vm, embedderRef, heapAccess, shouldRelease,
                   table, entryTable, saved, opens>>

regrab(t) ==
    /\ pc[t] = "check" /\ Top(t).depth = lockDropDepth
    /\ lockDropDepth' = lockDropDepth - 1
    /\ stackPointer' = saved[t]
    /\ Pop(t, 1)
    /\ Goto(t, "run")
    /\ UNCHANGED <<mutex, ownerThread, hasOwnerThread, lockCount, vm, embedderRef, heapAccess, shouldRelease,
                   table, entryTable, saved, opens>>

----------------------------------------------------------------------------
Acquire(t) == tryLock(t) \/ block(t)
Return(t) == leave(t) \/ drained(t) \/ grabAllLocks(t)
Internal(t) ==
    readHasOwner(t) \/ readOwner(t) \/ setOwner(t) \/ setHasOwner(t) \/ unlock(t) \/ retry(t) \/ regrab(t)

Done == \A t \in Threads : stack[t] = <<>> /\ pc[t] = "run"

Next ==
    \/ \E t \in Threads :
         \/ \E kind \in {"holder", "guard"} : enter(t, kind)
         \/ dropAllLocks(t) \/ deref(t) \/ Acquire(t) \/ Return(t) \/ Internal(t)
    \/ Done /\ UNCHANGED vars

Spec == Init /\ [][Next]_vars

----------------------------------------------------------------------------
(* What the thread's scopes say of its lock: the holders above the innermost *)
(* DropAllLocks, and what a pending unlock() has still to release.           *)
Held(t) ==
    LET marks == {i \in DOMAIN stack[t] : stack[t][i].kind = "drain"
                                            \/ (stack[t][i].kind = "drop" /\ stack[t][i].count > 0)}
        last == IF marks = {} THEN 0 ELSE Max(marks)
        base == IF last # 0 /\ stack[t][last].kind = "drain" THEN stack[t][last].count ELSE 0
    IN  base + Cardinality({i \in last + 1 .. Len(stack[t]) : stack[t][i].kind \in {"holder", "guard"}})

(* A thread that runs inside its scopes has the lock exactly when the scopes *)
(* say so, counted right, and then it has all that didAcquireLock() sets up: *)
(* heap access, a stack pointer, the VM's string table.                      *)
InsideMeansReady ==
    \A t \in Threads : pc[t] = "run" =>
        /\ currentThreadIsHoldingLock(t) <=> Held(t) > 0
        /\ Held(t) > 0 => /\ mutex = t /\ lockCount = Held(t)
                          /\ vm => heapAccess /\ stackPointer # NoPointer /\ table[t] = "vm"
        /\ Held(t) = 0 => table[t] = "thread"

(* The ASSERTs and RELEASE_ASSERTs: a fresh lock finds no count, no entry    *)
(* table and no stack pointer; grabAllLocks() finds the VM alive.            *)
AssertsHold ==
    \A t \in Threads :
        /\ pc[t] = "setHasOwner" =>
            lockCount = 0 /\ (vm => entryTable = "null" /\ stackPointer = NoPointer)
        /\ pc[t] = "check" => vm
        /\ pc[t] = "run" /\ TopIs(t, {"holder"}) => lockCount >= 1

Drops == {<<t, i>> \in Threads \X (1 .. 2 * MaxOpens) :
            i <= Len(stack[t]) /\ stack[t][i].kind = "drop" /\ stack[t][i].count > 0}

(* Locks are grabbed again in the reverse order of their dropping, over all  *)
(* threads: the one that returns from grabAllLocks() dropped last.           *)
RegrabIsLIFO ==
    [][\A t \in Threads : regrab(t) =>
        \A d \in Drops : d # <<t, Len(stack[t])>> => stack[d[1]][d[2]].depth < Top(t).depth]_vars

(* Every ~DropAllLocks returns, however many threads wait for their turn.    *)
GrabReturns ==
    \A t \in Threads : (pc[t] = "tryLock" /\ TopIs(t, {"drop"})) ~> (pc[t] = "run" /\ ~TopIs(t, {"drop"}))
=============================================================================

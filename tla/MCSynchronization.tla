------------------------- MODULE MCSynchronization -------------------------
(***************************************************************************)
(* WTF's locks, conditions and thread pools, each on a small instance of   *)
(* its own; Init chooses the instance that runs, and the variables of the  *)
(* others keep their values:                                               *)
(*   "CountingLock"   LockAlgorithm with the constants of the .cfg;        *)
(*   "Lock"           LockAlgorithm with Lock's fast paths and no count;   *)
(*   "WordLock", "Condition", "ReadWriteLock", "WorkerPool", "HelperPool". *)
(***************************************************************************)
EXTENDS CountingLock, MCWaiting, MCPools

VARIABLE part

mcVars == <<part, allVars, wVars, cVars, rwVars, oVars, hVars>>

L == INSTANCE LockAlgorithm WITH
       AssumingZero <- TRUE, CountModulus <- 1, ByteModulus <- 64,
       SpinLimit <- 1, Collisions <- TRUE

MCInit ==
    /\ part \in {"CountingLock", "Lock", "WordLock",
                 "Condition", "ReadWriteLock", "WorkerPool", "HelperPool"}
    /\ CountInit /\ W!Init /\ C!Init /\ R!Init /\ O!Init /\ H!Init

MCNext ==
    /\ UNCHANGED part
    /\ \/ /\ \/ part = "CountingLock" /\ CountNext
             \/ part = "Lock" /\ L!Next /\ UNCHANGED readVars
          /\ UNCHANGED <<wVars, cVars, rwVars, oVars, hVars>>
       \/ part = "WordLock" /\ W!Next /\ UNCHANGED <<allVars, cVars, rwVars, oVars, hVars>>
       \/ part = "Condition" /\ C!Next /\ UNCHANGED <<allVars, wVars, rwVars, oVars, hVars>>
       \/ part = "ReadWriteLock" /\ R!Next /\ UNCHANGED <<allVars, wVars, cVars, oVars, hVars>>
       \/ part = "WorkerPool" /\ O!Next /\ UNCHANGED <<allVars, wVars, cVars, rwVars, hVars>>
       \/ part = "HelperPool" /\ H!Next /\ UNCHANGED <<allVars, wVars, cVars, rwVars, oVars>>

MCSpec == MCInit /\ [][MCNext]_mcVars

----------------------------------------------------------------------------
(* Properties.  The invariants are the extended modules'.                    *)

MCTypeOK ==
    CASE part = "CountingLock" -> TypeOK /\ CountTypeOK
      [] part = "Lock" -> L!TypeOK /\ CountTypeOK
      [] part = "WordLock" -> W!TypeOK
      [] part = "Condition" -> C!TypeOK
      [] part = "ReadWriteLock" -> R!TypeOK
      [] part = "WorkerPool" -> O!TypeOK
      [] part = "HelperPool" -> H!TypeOK

\* Every module's variables have their types, and Lock, CountingLock and WordLock each
\* implement a mutex.
LocksExclude == []MCTypeOK /\ ImplementsMutex /\ W!ImplementsMutex
=============================================================================

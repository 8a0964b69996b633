--------------------------- MODULE AutomaticThread ---------------------------
(***************************************************************************)
(* AutomaticThread.cpp: threads that are started by a notification and     *)
(* stop by themselves when they have waited too long.  This module is the  *)
(* mechanism; a client (WorkerPool, ParallelHelperPool) extends it with    *)
(* what poll() and work() do.  Every step but timeout and the work itself  *)
(* is a critical section of the client's lock.                             *)
(***************************************************************************)
EXTENDS Naturals, FiniteSets

CONSTANTS
    MaxThreads,     \* the AutomaticThread objects are 1 .. MaxThreads
    CanTimeOut      \* m_timeout is finite

\* What the constants have to satisfy.
AutomaticThreadAssumption ==
    /\ MaxThreads \in Nat \ {0}
    /\ CanTimeOut \in BOOLEAN

VARIABLES
    created,                \* m_threads of the condition is 1, 2, ..., created
    isRunning,              \* m_isRunning
    isWaiting,              \* m_isWaiting
    hasUnderlyingThread,    \* m_hasUnderlyingThread
    at                      \* where the underlying thread is

threadVars == <<created, isRunning, isWaiting, hasUnderlyingThread, at>>

AllThreads == 1 .. MaxThreads
Created == 1 .. created

ThreadTypeOK ==
    /\ created \in 0 .. MaxThreads
    /\ isRunning \in [AllThreads -> BOOLEAN]
    /\ isWaiting \in [AllThreads -> BOOLEAN]
    /\ hasUnderlyingThread \in [AllThreads -> BOOLEAN]
    /\ at \in [AllThreads -> {"none", "starting", "poll", "wait", "notified", "timedOut", "work"}]

ThreadInit(n) ==
    /\ created = n
    /\ isRunning = [t \in AllThreads |-> TRUE]
    /\ isWaiting = [t \in AllThreads |-> FALSE]
    /\ hasUnderlyingThread = [t \in AllThreads |-> FALSE]
    /\ at = [t \in AllThreads |-> "none"]

----------------------------------------------------------------------------
(* AutomaticThreadCondition *)

IsWaiting(t) == hasUnderlyingThread[t] /\ isWaiting[t]

\* notify() for a set of threads, of which those in waitFor() are woken, and start()
\* for another.
notifyAndStart(woken, started) ==
    /\ isWaiting' = [t \in AllThreads |-> isWaiting[t] /\ t \notin woken]
    /\ hasUnderlyingThread' = [t \in AllThreads |-> hasUnderlyingThread[t] \/ t \in started]
    /\ at' = [t \in AllThreads |-> CASE t \in woken /\ at[t] = "wait" -> "notified"
                                     [] t \in started -> "starting"
                                     [] OTHER -> at[t]]
    /\ UNCHANGED isRunning

First(S) == {t \in S : \A u \in S : t <= u}

(* Mutant: nobody is started. *)
notifyOneWaiting(threads) ==
    notifyAndStart(First({t \in threads : IsWaiting(t)}), {})

\* The first thread that waits, else the first one to be started, else whoever
\* waits on m_condition itself; no client in this project waits there.
notifyOneAmong(threads) ==
    LET waiting == {t \in threads : IsWaiting(t)}
        absent == {t \in threads : ~hasUnderlyingThread[t]}
    IN  notifyAndStart(First(waiting), IF waiting = {} THEN First(absent) ELSE {})

notifyOne == notifyOneAmong(Created)

notifyAllAmong(threads) ==
    notifyAndStart({t \in threads : IsWaiting(t)}, {t \in threads : ~hasUnderlyingThread[t]})

notifyAll == notifyAllAmong(Created)

----------------------------------------------------------------------------
(* The underlying thread: the lambda of start() *)

didStart(t) ==
    /\ at[t] = "starting"
    /\ at' = [at EXCEPT ![t] = "poll"]
    /\ UNCHANGED <<created, isRunning, isWaiting, hasUnderlyingThread>>

\* The thread leaves waitFor() with the lock held and still counts as waiting.
WaitedInVain(t) == at[t] \in {"notified", "timedOut"} /\ isWaiting[t]

stopForTimeout(t) ==
    /\ isWaiting' = [isWaiting EXCEPT ![t] = FALSE]
    /\ hasUnderlyingThread' = [hasUnderlyingThread EXCEPT ![t] = FALSE]
    /\ at' = [at EXCEPT ![t] = "none"]
    /\ UNCHANGED <<created, isRunning>>

stopPermanently(t) ==
    /\ isRunning' = [isRunning EXCEPT ![t] = FALSE]
    /\ hasUnderlyingThread' = [hasUnderlyingThread EXCEPT ![t] = FALSE]
    /\ at' = [at EXCEPT ![t] = "none"]
    /\ UNCHANGED <<created, isWaiting>>

\* poll() is called, on the way in, after work() or after waitFor().
MayPoll(t) == at[t] \in {"poll", "notified", "timedOut"}

pollWait(t) ==
    /\ isWaiting' = [isWaiting EXCEPT ![t] = TRUE]
    /\ at' = [at EXCEPT ![t] = "wait"]
    /\ UNCHANGED <<created, isRunning, hasUnderlyingThread>>

pollWork(t) ==
    /\ at' = [at EXCEPT ![t] = "work"]
    /\ UNCHANGED <<created, isRunning, isWaiting, hasUnderlyingThread>>

workContinue(t) ==
    /\ at[t] = "work"
    /\ at' = [at EXCEPT ![t] = "poll"]
    /\ UNCHANGED <<created, isRunning, isWaiting, hasUnderlyingThread>>

\* waitFor() times out: the lock is not held until the thread runs on.
timeout(t) ==
    /\ CanTimeOut
    /\ at[t] = "wait"
    /\ at' = [at EXCEPT ![t] = "timedOut"]
    /\ UNCHANGED <<created, isRunning, isWaiting, hasUnderlyingThread>>

----------------------------------------------------------------------------
(* What the clients rely on *)

(* start() is only called on a thread that has not stopped for good: its     *)
(* RELEASE_ASSERT(m_isRunning), and one underlying thread per object.        *)
OnlyRunningThreadsStart ==
    \A t \in AllThreads :
        /\ hasUnderlyingThread[t] => isRunning[t]
        /\ hasUnderlyingThread[t] <=> at[t] # "none"

(* A thread that counts as waiting is in waitFor(), so that the notification *)
(* notify() gives it is never wasted on a thread that is busy.               *)
WaitingFlagIsExact ==
    \A t \in AllThreads : IsWaiting(t) => at[t] \in {"wait", "timedOut"}
=============================================================================

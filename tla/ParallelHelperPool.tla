------------------------- MODULE ParallelHelperPool -------------------------
(***************************************************************************)
(* ParallelHelperPool.cpp: clients publish a task, AutomaticThreads of the *)
(* pool (and threads that call doSomeHelping) run it together, and the     *)
(* client's finish() waits until the last of them is out of it.  The heap  *)
(* is a client: setFunction() in beginMarking, finish() in endMarking.     *)
(***************************************************************************)
EXTENDS AutomaticThread, FiniteSets

CONSTANTS
    Clients, NoClient,
    MaxTasks        \* bound on the tasks each client sets

\* What the constants have to satisfy.
HelperPoolAssumption ==
    /\ AutomaticThreadAssumption /\ MaxTasks \in Nat
    /\ IsFiniteSet(Clients) /\ NoClient \notin Clients /\ Clients \cap AllThreads = {}

VARIABLES
    clients,        \* m_clients, of which getClientWithTask picks a random one
    numThreads,     \* m_numThreads
    isDying,        \* m_isDying
    clientTask,     \* m_task of each client: 0 is null, k its k-th task
    numActive,      \* m_numActive of each client
    pc,             \* where the thread that owns the client is
    tasksSet,       \* tasks that each client has set so far
    helping,        \* <<client, task>> of each helper: a pool thread or a client's thread
    poolState       \* "alive", "joining" or "destroyed"

poolVars == <<clients, numThreads, isDying, clientTask, numActive, pc, tasksSet, helping, poolState>>

vars == <<threadVars, poolVars>>

Helpers == AllThreads \cup Clients
Nobody == <<NoClient, 0>>

TypeOK ==
    /\ ThreadTypeOK
    /\ clients \subseteq Clients
    /\ numThreads \in 0 .. MaxThreads
    /\ isDying \in BOOLEAN
    /\ clientTask \in [Clients -> 0 .. MaxTasks]
    /\ numActive \in [Clients -> 0 .. Cardinality(Helpers)]
    /\ pc \in [Clients -> {"new", "idle", "set", "helps", "finish", "dying", "gone"}]
    /\ tasksSet \in [Clients -> 0 .. MaxTasks]
    /\ helping \in [Helpers -> (Clients \X (1 .. MaxTasks)) \cup {Nobody}]
    /\ poolState \in {"alive", "joining", "destroyed"}

Init ==
    /\ ThreadInit(0)
    /\ clients = {}
    /\ numThreads = 0
    /\ isDying = FALSE
    /\ clientTask = [c \in Clients |-> 0]
    /\ numActive = [c \in Clients |-> 0]
    /\ pc = [c \in Clients |-> "new"]
    /\ tasksSet = [c \in Clients |-> 0]
    /\ helping = [h \in Helpers |-> Nobody]
    /\ poolState = "alive"

Goto(c, label) == pc' = [pc EXCEPT ![c] = label]

----------------------------------------------------------------------------
(* Claiming and running a task *)

WithTask == {c \in clients : clientTask[c] # 0}

getClientWithTask(c) == c \in WithTask

claimTask(h, c) ==
    /\ numActive' = [numActive EXCEPT ![c] = @ + 1]
    /\ helping' = [helping EXCEPT ![h] = <<c, clientTask[c]>>]

\* The end of runTask(): the task is over for everybody.
ranTask(h) ==
    LET c == helping[h][1] IN
    /\ clientTask' = [clientTask EXCEPT ![c] = 0]
    /\ numActive' = [numActive EXCEPT ![c] = @ - 1]
    /\ helping' = [helping EXCEPT ![h] = Nobody]

----------------------------------------------------------------------------
(* The threads of the clients *)

newClient(c) ==
    /\ pc[c] = "new" /\ poolState = "alive"
    /\ clients' = clients \cup {c}
    /\ Goto(c, "idle")
    /\ UNCHANGED <<threadVars, numThreads, isDying, clientTask, numActive, tasksSet, helping, poolState>>

\* The threads are created now: notifyAll() starts the new ones too.
didMakeWorkAvailable(n) ==
    /\ created' = IF n > created THEN n ELSE created
    /\ notifyAllAmong(1 .. created')

setTask(c) ==
    /\ pc[c] = "idle" /\ tasksSet[c] < MaxTasks
    /\ tasksSet' = [tasksSet EXCEPT ![c] = @ + 1]
    /\ clientTask' = [clientTask EXCEPT ![c] = tasksSet'[c]]
    /\ didMakeWorkAvailable(numThreads)
    /\ Goto(c, "set")
    /\ UNCHANGED <<clients, numThreads, isDying, numActive, helping, poolState>>

\* doSomeHelping(), of the client or of the pool, on this client's thread.
doSomeHelping(c, from) ==
    /\ pc[c] = "set" /\ getClientWithTask(from)
    /\ claimTask(c, from)
    /\ Goto(c, "helps")
    /\ UNCHANGED <<threadVars, clients, numThreads, isDying, clientTask, tasksSet, poolState>>

helped(c) ==
    /\ pc[c] = "helps"
    /\ ranTask(c)
    /\ Goto(c, "set")
    /\ UNCHANGED <<threadVars, clients, numThreads, isDying, tasksSet, poolState>>

\* finish() clears the task; the destructor does the same.
finish(c) ==
    /\ \/ pc[c] = "set" /\ Goto(c, "finish")
       \/ pc[c] = "idle" /\ Goto(c, "dying")
    /\ clientTask' = [clientTask EXCEPT ![c] = 0]
    /\ UNCHANGED <<threadVars, clients, numThreads, isDying, numActive, tasksSet, helping, poolState>>

(* Mutant: the helpers are not waited for. *)
finishedEarly(c) ==
    /\ \/ /\ pc[c] = "finish"
          /\ Goto(c, "idle")
          /\ UNCHANGED clients
       \/ /\ pc[c] = "dying"
          /\ Goto(c, "gone")
          /\ clients' = clients \ {c}
    /\ UNCHANGED <<threadVars, numThreads, isDying, clientTask, numActive, tasksSet, helping, poolState>>

\* The wait on m_workCompleteCondition is over.
finished(c) ==
    /\ numActive[c] = 0
    /\ \/ /\ pc[c] = "finish"
          /\ Goto(c, "idle")
          /\ UNCHANGED clients
       \/ /\ pc[c] = "dying"
          /\ Goto(c, "gone")
          /\ clients' = clients \ {c}
    /\ UNCHANGED <<threadVars, numThreads, isDying, clientTask, numActive, tasksSet, helping, poolState>>

----------------------------------------------------------------------------
(* The owner of the pool *)

ensureThreads(n) ==
    /\ poolState = "alive" /\ n > numThreads
    /\ numThreads' = n
    /\ IF WithTask # {} THEN didMakeWorkAvailable(n) ELSE UNCHANGED threadVars
    /\ UNCHANGED <<clients, isDying, clientTask, numActive, pc, tasksSet, helping, poolState>>

\* ~ParallelHelperPool, once every client is gone.
destroy ==
    /\ poolState = "alive"
    /\ clients = {} /\ \A c \in Clients : pc[c] = "gone"
    /\ poolState' = "joining"
    /\ isDying' = TRUE
    /\ notifyAll
    /\ UNCHANGED <<created, clients, numThreads, clientTask, numActive, pc, tasksSet, helping>>

join ==
    /\ poolState = "joining"
    /\ \A t \in Created : ~isRunning[t]
    /\ poolState' = "destroyed"
    /\ UNCHANGED <<threadVars, clients, numThreads, isDying, clientTask, numActive, pc, tasksSet, helping>>

----------------------------------------------------------------------------
(* The threads of the pool *)

threadDidStart(t) == didStart(t) /\ UNCHANGED poolVars

fallAsleep(t) == WaitedInVain(t) /\ stopForTimeout(t) /\ UNCHANGED poolVars

poll(t) ==
    /\ MayPoll(t) /\ ~WaitedInVain(t)
    /\ \/ isDying /\ stopPermanently(t) /\ UNCHANGED <<numActive, helping>>
       \/ \E c \in Clients :
            /\ ~isDying /\ getClientWithTask(c)
            /\ claimTask(t, c)
            /\ pollWork(t)
       \/ ~isDying /\ WithTask = {} /\ pollWait(t) /\ UNCHANGED <<numActive, helping>>
    /\ UNCHANGED <<clients, numThreads, isDying, clientTask, pc, tasksSet, poolState>>

work(t) ==
    /\ workContinue(t)
    /\ ranTask(t)
    /\ UNCHANGED <<clients, numThreads, isDying, pc, tasksSet, poolState>>

waitTimesOut(t) == timeout(t) /\ UNCHANGED poolVars

Worker(t) == threadDidStart(t) \/ fallAsleep(t) \/ poll(t) \/ work(t)

Client(c) ==
    \/ newClient(c) \/ setTask(c) \/ helped(c) \/ finish(c) \/ finished(c)
    \/ \E from \in Clients : doSomeHelping(c, from)

Next ==
    \/ \E c \in Clients : Client(c)
    \/ \E n \in AllThreads : ensureThreads(n)
    \/ destroy \/ join
    \/ \E t \in AllThreads : Worker(t) \/ waitTimesOut(t)

Spec == Init /\ [][Next]_vars

----------------------------------------------------------------------------
(* When finish() or the destructor has returned, nobody runs the client's    *)
(* task any more: what its caller frees next is not in use.                  *)
FinishedMeansQuiet ==
    \A c \in Clients : pc[c] \in {"idle", "gone"} => \A h \in Helpers : helping[h][1] # c

(* The RELEASE_ASSERTs: setTask() finds no task, runTask() finds itself      *)
(* counted and no other task installed ("since we were still active"), and   *)
(* the pool is not dying while it has clients.                               *)
AssertsHold ==
    /\ \A c \in Clients : pc[c] = "idle" => clientTask[c] = 0
    /\ \A h \in Helpers : helping[h] # Nobody =>
            /\ numActive[helping[h][1]] > 0
            /\ clientTask[helping[h][1]] \in {0, helping[h][2]}
    /\ isDying => clients = {}

(* A task that is set is run by the pool's threads even if its client never  *)
(* helps or finishes, as the collector relies on while the mutator runs.     *)
(* The number of tasks is bounded, so from some time on none is left.        *)
PoolRunsTheTask == <>[](numThreads > 0 => \A c \in Clients : clientTask[c] = 0)

(* finish() and the client's destructor return: the calls are bounded, so    *)
(* from some time on nobody is inside one.                                   *)
FinishReturns == <>[](\A c \in Clients : pc[c] \notin {"finish", "dying"})

(* ~ParallelHelperPool returns, though a thread may be timing out when it    *)
(* notifies.                                                                 *)
DestructorReturns == poolState = "joining" ~> poolState = "destroyed"
=============================================================================

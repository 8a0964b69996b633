--------------------------- MODULE JSRunLoopTimer ---------------------------
(***************************************************************************)
(* JSRunLoopTimer.cpp for one VM: the timers that the mutator and the      *)
(* collector's threads set and cancel, the Manager that keeps one run loop *)
(* timer armed for them all, and the run loop's thread that fires them.    *)
(* The API lock is a mutex here (JSLock models it).  IncrementalSweeper    *)
(* and GCActivityCallback are timers whose doWork() sets or cancels itself *)
(* again.                                                                  *)
(***************************************************************************)
EXTENDS Naturals, SequencesExt, FiniteSetsExt

CONSTANTS
    Timers,
    MaxTime         \* bound on the clock; later than it is a decade away

\* What the constants have to satisfy.
TimerAssumption == MaxTime \in Nat

VARIABLES
    now,
    timers,         \* PerVMData::timers, pairs of a timer and its time
    armed,          \* when the run loop's timer fires next
    registered,     \* the VM is in m_mapping
    vm,             \* the API lock's vm() is not null
    isScheduled,    \* m_isScheduled of each timer
    apiLock,        \* "free", "mutator" or "loop"
    toFire,         \* timersToFire
    pc              \* of the run loop's thread

vars == <<now, timers, armed, registered, vm, isScheduled, apiLock, toFire, pc>>

Decade == MaxTime + 1
Times == 0 .. Decade

TypeOK ==
    /\ now \in 0 .. MaxTime
    /\ timers \in Seq(Timers \X Times)
    /\ armed \in Times
    /\ registered \in BOOLEAN /\ vm \in BOOLEAN
    /\ isScheduled \in [Timers -> BOOLEAN]
    /\ apiLock \in {"free", "mutator", "loop"}
    /\ toFire \in Seq(Timers)
    /\ pc \in {"idle", "check", "lock", "work"}
    /\ pc = "idle" <=> toFire = <<>>

Init ==
    /\ now = 0
    /\ timers = <<>>
    /\ armed = Decade
    /\ registered = TRUE /\ vm = TRUE
    /\ isScheduled = [tm \in Timers |-> FALSE]
    /\ apiLock = "free"
    /\ toFire = <<>>
    /\ pc = "idle"

----------------------------------------------------------------------------
(* The Manager's loops over the vector, each under its m_lock *)

Earliest(s) == Min({s[i][2] : i \in DOMAIN s} \cup {Decade})

\* The i-th entry is swapped with the last one and taken off.
SwapRemove(s, i) == Front([s EXCEPT ![i] = Last(s)])

\* The loop of Manager::timerDidFire from index i: what stays, what is to fire.
RECURSIVE Expire(_, _, _)
Expire(s, i, fired) ==
    IF i > Len(s) THEN [stay |-> s, fired |-> fired]
    ELSE IF s[i][2] > now THEN Expire(s, i + 1, fired)
    ELSE Expire(SwapRemove(s, i), i, Append(fired, s[i][1]))

\* The loop of Manager::cancelTimer.
RECURSIVE Without(_, _, _)
Without(s, i, tm) ==
    IF i > Len(s) THEN s
    ELSE IF s[i][1] = tm THEN Without(SwapRemove(s, i), i, tm)
    ELSE Without(s, i + 1, tm)

\* The loop of Manager::scheduleTimer: the entry is updated, or appended.
Scheduled(s, tm, time) ==
    IF \E i \in DOMAIN s : s[i][1] = tm
    THEN [i \in DOMAIN s |-> IF s[i][1] = tm THEN <<tm, time>> ELSE s[i]]
    ELSE Append(s, <<tm, time>>)

----------------------------------------------------------------------------
(* JSRunLoopTimer's calls, each under the timer's lock and the Manager's *)

SetTimeUntilFire(tm, delay) ==
    /\ now + delay <= MaxTime
    /\ isScheduled' = [isScheduled EXCEPT ![tm] = TRUE]
    /\ timers' = Scheduled(timers, tm, now + delay)
    /\ armed' = Earliest(timers')

CancelTimer(tm) ==
    /\ isScheduled' = [isScheduled EXCEPT ![tm] = FALSE]
    /\ IF registered
       THEN timers' = Without(timers, 1, tm) /\ armed' = Earliest(timers')
       ELSE UNCHANGED <<timers, armed>>

\* By the mutator, or by a collector's thread (scheduleSoon, startSweeping), which has no
\* API lock and runs until ~VM has stopped it, just before unregisterVM().
setTimeUntilFire(tm, delay) ==
    /\ registered
    /\ SetTimeUntilFire(tm, delay)
    /\ UNCHANGED <<now, registered, vm, apiLock, toFire, pc>>

cancelTimer(tm) ==
    /\ registered \/ apiLock = "mutator"
    /\ CancelTimer(tm)
    /\ UNCHANGED <<now, registered, vm, apiLock, toFire, pc>>

lockAPI ==
    /\ apiLock = "free"
    /\ apiLock' = "mutator"
    /\ UNCHANGED <<now, timers, armed, registered, vm, isScheduled, toFire, pc>>

unlockAPI ==
    /\ apiLock = "mutator" /\ (vm <=> registered)
    /\ apiLock' = "free"
    /\ UNCHANGED <<now, timers, armed, registered, vm, isScheduled, toFire, pc>>

\* ~VM, with the lock held: willDestroyVM(), then unregisterVM().
willDestroyVM ==
    /\ apiLock = "mutator" /\ vm
    /\ vm' = FALSE
    /\ UNCHANGED <<now, timers, armed, registered, isScheduled, apiLock, toFire, pc>>

unregisterVM ==
    /\ apiLock = "mutator" /\ ~vm /\ registered
    /\ registered' = FALSE
    /\ timers' = <<>> /\ armed' = Decade
    /\ UNCHANGED <<now, vm, isScheduled, apiLock, toFire, pc>>

----------------------------------------------------------------------------
(* The run loop *)

tick ==
    /\ now < MaxTime
    /\ now' = now + 1
    /\ UNCHANGED <<timers, armed, registered, vm, isScheduled, apiLock, toFire, pc>>

\* Manager::timerDidFire up to the end of its critical section.
managerTimerDidFire ==
    /\ pc = "idle" /\ registered /\ armed <= now
    /\ LET result == Expire(timers, 1, <<>>)
       IN  /\ timers' = result.stay
           /\ armed' = Earliest(result.stay)
           /\ toFire' = result.fired
           /\ pc' = IF result.fired = <<>> THEN "idle" ELSE "check"
    /\ UNCHANGED <<now, registered, vm, isScheduled, apiLock>>

NextTimer == toFire' = Tail(toFire) /\ pc' = IF Len(toFire) = 1 THEN "idle" ELSE "check"

\* timerDidFire: under the timer's own lock, was it cancelled meanwhile?
checkScheduled ==
    /\ pc = "check"
    /\ IF isScheduled[Head(toFire)] THEN pc' = "lock" /\ UNCHANGED toFire ELSE NextTimer
    /\ UNCHANGED <<now, timers, armed, registered, vm, isScheduled, apiLock>>

(* Mutant: the VM is not looked at. *)
lockForWorkUnchecked ==
    /\ pc = "lock" /\ apiLock = "free"
    /\ IF TRUE THEN apiLock' = "loop" /\ pc' = "work" /\ UNCHANGED toFire
             ELSE NextTimer /\ UNCHANGED apiLock
    /\ UNCHANGED <<now, timers, armed, registered, vm, isScheduled>>

lockForWork ==
    /\ pc = "lock" /\ apiLock = "free"
    /\ IF vm THEN apiLock' = "loop" /\ pc' = "work" /\ UNCHANGED toFire
             ELSE NextTimer /\ UNCHANGED apiLock
    /\ UNCHANGED <<now, timers, armed, registered, vm, isScheduled>>

\* doWork() may set the timer again, cancel it, or do neither; the lock is released.
doWork ==
    /\ pc = "work"
    /\ \/ \E delay \in 0 .. MaxTime : SetTimeUntilFire(Head(toFire), delay)
       \/ CancelTimer(Head(toFire))
       \/ UNCHANGED <<timers, armed, isScheduled>>
    /\ NextTimer
    /\ apiLock' = "free"
    /\ UNCHANGED <<now, registered, vm>>

----------------------------------------------------------------------------
Loop == managerTimerDidFire \/ checkScheduled \/ lockForWork \/ doWork

Mutator ==
    \/ lockAPI \/ unlockAPI \/ willDestroyVM \/ unregisterVM
    \/ \E tm \in Timers : cancelTimer(tm) \/ \E delay \in 0 .. MaxTime : setTimeUntilFire(tm, delay)

Next == tick \/ Loop \/ Mutator

Spec == Init /\ [][Next]_vars

----------------------------------------------------------------------------
(* Outside the Manager's critical sections the run loop's timer is armed for *)
(* the earliest entry, each timer has one entry, and an entry is scheduled:  *)
(* no swap-and-remove loop lost or doubled one.                              *)
EarliestIsArmed ==
    /\ armed = Earliest(timers)
    /\ \A i, j \in DOMAIN timers : timers[i][1] = timers[j][1] => i = j
    /\ \A i \in DOMAIN timers : isScheduled[timers[i][1]]

(* What Manager::timerDidFire takes off is exactly what was due, and what it *)
(* leaves is not.                                                            *)
FiresWhatIsDue ==
    [][managerTimerDidFire =>
        /\ ToSet(toFire') = {timers[i][1] : i \in {j \in DOMAIN timers : timers[j][2] <= now}}
        /\ ToSet(timers') = {e \in ToSet(timers) : e[2] > now}]_vars

(* doWork() finds the VM alive, though ~VM may have run since the timer was  *)
(* picked to fire.                                                           *)
WorkFindsTheVM == pc = "work" => vm /\ registered

InVector(tm) == \E i \in DOMAIN timers : timers[i][1] = tm

(* A timer that is set leaves the Manager's vector, to fire or by a cancel.  *)
TimersComeDue == \A tm \in Timers : InVector(tm) ~> ~InVector(tm)
=============================================================================

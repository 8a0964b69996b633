--------------------------- MODULE ParkingQueues ---------------------------
(***************************************************************************)
(* What ParkingLot.h promises: one first-in first-out queue of threads per *)
(* address, and a park that ends unparked exactly when an unpark took the  *)
(* thread off its queue.  ParkingLot, with its hashed buckets, rehashing   *)
(* and timeouts, implements this specification.                            *)
(***************************************************************************)
EXTENDS Sequences, Naturals

CONSTANTS Threads, Addresses

VARIABLES
    queue,      \* the threads parked on each address, first to last
    status      \* "running", "parked", or how the park has ended

vars == <<queue, status>>

Init ==
    /\ queue = [a \in Addresses |-> <<>>]
    /\ status = [t \in Threads |-> "running"]

Park(t, a) ==
    /\ status[t] = "running"
    /\ status' = [status EXCEPT ![t] = "parked"]
    /\ queue' = [queue EXCEPT ![a] = Append(@, t)]

\* unparkOne, unparkCount and unparkAll take threads from the front.
Unpark(a, k) ==
    /\ queue' = [queue EXCEPT ![a] = SubSeq(@, k + 1, Len(@))]
    /\ status' = [t \in Threads |->
          IF \E i \in 1 .. k : queue[a][i] = t THEN "unparked" ELSE status[t]]

\* A timeout takes the thread itself, wherever it is.
TimeOut(t, a) ==
    /\ \E i \in 1 .. Len(queue[a]) : queue[a][i] = t
    /\ queue' = [queue EXCEPT ![a] = SelectSeq(@, LAMBDA u : u # t)]
    /\ status' = [status EXCEPT ![t] = "timedOut"]

Return(t) ==
    /\ status[t] \in {"unparked", "timedOut"}
    /\ status' = [status EXCEPT ![t] = "running"]
    /\ UNCHANGED queue

Next ==
    \/ \E t \in Threads : Return(t)
    \/ \E a \in Addresses :
         \/ \E t \in Threads : Park(t, a) \/ TimeOut(t, a)
         \/ \E k \in 1 .. Len(queue[a]) : Unpark(a, k)

Spec == Init /\ [][Next]_vars
=============================================================================

---------------------------- MODULE LockProofs ----------------------------
(***************************************************************************)
(* Safety of LockAlgorithm and CountingLock for any number of threads, any *)
(* spin limit, count and collisions: no wake-up is lost, the assertions of *)
(* the slow paths hold, the lock implements a mutex, and a validated       *)
(* optimistic read is clean.                                               *)
(*                                                                         *)
(* Every invariant of the lock needs the others: the parked bit covers the *)
(* queue because only the owner clears it, and there is one owner because  *)
(* a sleeper that has been handed the lock is not woken for anything else, *)
(* which is because whoever dequeued it is the only one to signal it.      *)
(***************************************************************************)
EXTENDS Integers, CountingLock, TLAPS

-----------------------------------------------------------------------------
(* The inductive invariant *)

IsIn(q, t) == \E i \in DOMAIN q : q[i] = t

Mutual == \A t, u \in Threads : Owns(t) /\ Owns(u) => t = u
HeldIsOwned == word.held <=> \E t \in Threads : Owns(t)

\* Who is queued sleeps, has no token yet, and is known to the lock word.
QueueInv ==
    /\ \A i, j \in DOMAIN queue : queue[i] = queue[j] => i = j
    /\ \A t \in Threads : IsIn(queue, t) =>
         pc[t] = "parked" /\ t \in address /\ token[t] = "BargingOpportunity"
    /\ queue # <<>> => word.parked

\* Whoever dequeued a thread is the only one to signal it, and it sleeps until then.
SignalInv ==
    /\ \A u \in Threads : pc[u] = "signal" => unparked[u] \in address /\ ~IsIn(queue, unparked[u])
    /\ \A u, w \in Threads :
         pc[u] = "signal" /\ pc[w] = "signal" /\ unparked[u] = unparked[w] => u = w

\* Who sleeps is queued or about to be signalled.
AddressInv ==
    \A t \in address :
        /\ pc[t] = "parked"
        /\ IsIn(queue, t) \/ \E u \in Threads : pc[u] = "signal" /\ unparked[u] = t

\* The word a thread expects when it parks has both bits set, and the parked bit
\* stays while its owner goes to unpark.
WordInv ==
    /\ \A t \in Threads : pc[t] = "park" => expected[t].held /\ expected[t].parked
    /\ \A t \in Threads : pc[t] = "unpark" => word.parked
    /\ \A t \in Threads : pc[t] = "unlockSlow" => AssumingZero \/ word.parked

\* A free lock with a queue has a thread that is awake or being woken.
WatchInv == queue # <<>> /\ ~word.held => \E t \in Threads : Waits(t) /\ ~IsIn(queue, t)

Inv == TypeOK /\ Mutual /\ HeldIsOwned /\ QueueInv /\ SignalInv /\ AddressInv /\ WordInv /\ WatchInv

-----------------------------------------------------------------------------
(* Lemmas about the operators *)

(* A residue is smaller than the modulus. *)
LEMMA ModRange ==
    ASSUME NEW m \in Nat \ {0}, NEW n \in Nat
    PROVE  n % m \in 0 .. m - 1
BY SMT

(* lockHook() counts on to the next residue. *)
LEMMA ModSucc ==
    ASSUME NEW m \in Nat \ {0}, NEW n \in 0 .. m - 1
    PROVE  (n + 1) % m = IF n + 1 = m THEN 0 ELSE n + 1
BY SMT

(* lockHook() writes a word. *)
LEMMA LockHookType ==
    ASSUME NEW w \in Words
    PROVE  lockHook(w) \in Words
<1>1. (w.count + 1) % CountModulus \in 0 .. CountModulus - 1
  BY ModRange, LockAssumption DEF Words
<1>q. QED
  BY <1>1, Zenon DEF lockHook, Words

(* The elements of a queue that is appended to, and of one whose head is  *)
(* taken.                                                                 *)
LEMMA Queued ==
    ASSUME NEW S, NEW q \in Seq(S), NEW e \in S
    PROVE  /\ Append(q, e) \in Seq(S) /\ Append(q, e) # <<>> /\ Len(Append(q, e)) = Len(q) + 1
           /\ \A i \in 1 .. Len(q) : Append(q, e)[i] = q[i]
           /\ Append(q, e)[Len(q) + 1] = e
  OBVIOUS

LEMMA Dequeued ==
    ASSUME NEW S, NEW q \in Seq(S), q # <<>>
    PROVE  /\ Head(q) \in S /\ Tail(q) \in Seq(S) /\ Len(Tail(q)) = Len(q) - 1
           /\ \A i \in 1 .. Len(Tail(q)) : Tail(q)[i] = q[i + 1]
  OBVIOUS

(* What an enqueue adds. *)
LEMMA AppendIsIn ==
    ASSUME NEW q \in Seq(Threads), NEW t \in Threads
    PROVE  \A u : IsIn(Append(q, t), u) <=> u = t \/ IsIn(q, u)
<1>1. /\ DOMAIN q = 1 .. Len(q) /\ DOMAIN Append(q, t) = 1 .. Len(q) + 1
      /\ \A i \in 1 .. Len(q) : Append(q, t)[i] = q[i]
      /\ Append(q, t)[Len(q) + 1] = t /\ Len(q) \in Nat
  BY Queued
<1>2. \A i : i \in 1 .. Len(q) + 1 <=> i \in 1 .. Len(q) \/ i = Len(q) + 1
  BY <1>1
<1>q. QED
  BY <1>1, <1>2, Zenon DEF IsIn

(* What a dequeue takes away. *)
LEMMA TailIsIn ==
    ASSUME NEW q \in Seq(Threads), q # <<>>, \A i, j \in DOMAIN q : q[i] = q[j] => i = j
    PROVE  /\ IsIn(q, Head(q))
           /\ \A u : IsIn(Tail(q), u) <=> u # Head(q) /\ IsIn(q, u)
<1>1. /\ DOMAIN q = 1 .. Len(q) /\ DOMAIN Tail(q) = 1 .. Len(q) - 1 /\ Len(q) \in Nat \ {0}
      /\ \A i \in 1 .. Len(q) - 1 : Tail(q)[i] = q[i + 1]
      /\ Head(q) = q[1]
  BY Dequeued
<1>2. ASSUME NEW u, IsIn(Tail(q), u)
      PROVE  u # Head(q) /\ IsIn(q, u)
  <2>1. PICK i \in 1 .. Len(q) - 1 : q[i + 1] = u
    BY <1>1, <1>2, Zenon DEF IsIn
  <2>2. i + 1 \in DOMAIN q /\ 1 \in DOMAIN q /\ i + 1 # 1
    BY <1>1
  <2>q. QED
    BY <1>1, <2>1, <2>2, Zenon DEF IsIn
<1>3. ASSUME NEW u, u # Head(q), IsIn(q, u)
      PROVE  IsIn(Tail(q), u)
  <2>1. PICK i \in 1 .. Len(q)  : q[i] = u
    BY <1>1, <1>3, Zenon DEF IsIn
  <2>2. i - 1 \in 1 .. Len(q) - 1 /\ (i - 1) + 1 = i
    BY <1>1, <1>3, <2>1
  <2>q. QED
    BY <1>1, <2>1, <2>2, Zenon DEF IsIn
<1>4. IsIn(q, Head(q))
  BY <1>1 DEF IsIn
<1>q. QED
  BY <1>2, <1>3, <1>4, Zenon

(* The threads of a queue differ, also after an enqueue of a new one or a *)
(* dequeue.                                                               *)
LEMMA QueueStaysDistinct ==
    ASSUME NEW q \in Seq(Threads), \A i, j \in DOMAIN q : q[i] = q[j] => i = j
    PROVE  /\ \A t \in Threads : ~IsIn(q, t) =>
                 \A i, j \in DOMAIN Append(q, t) : Append(q, t)[i] = Append(q, t)[j] => i = j
           /\ q # <<>> => \A i, j \in DOMAIN Tail(q) : Tail(q)[i] = Tail(q)[j] => i = j
<1>1. ASSUME NEW t \in Threads, ~IsIn(q, t), NEW i \in DOMAIN Append(q, t), NEW j \in DOMAIN Append(q, t),
             Append(q, t)[i] = Append(q, t)[j]
      PROVE  i = j
  <2>1. /\ DOMAIN q = 1 .. Len(q) /\ DOMAIN Append(q, t) = 1 .. Len(q) + 1 /\ Len(q) \in Nat
        /\ \A k \in 1 .. Len(q) : Append(q, t)[k] = q[k]
        /\ Append(q, t)[Len(q) + 1] = t
    BY Queued
  <2>2. \A k \in 1 .. Len(q) : q[k] # t
    BY <1>1, <2>1, Zenon DEF IsIn
  <2>q. QED
    BY <1>1, <2>1, <2>2
<1>2. ASSUME q # <<>>, NEW i \in DOMAIN Tail(q), NEW j \in DOMAIN Tail(q), Tail(q)[i] = Tail(q)[j]
      PROVE  i = j
  <2>1. /\ DOMAIN q = 1 .. Len(q) /\ DOMAIN Tail(q) = 1 .. Len(q) - 1 /\ Len(q) \in Nat
        /\ \A k \in 1 .. Len(q) - 1 : Tail(q)[k] = q[k + 1]
    BY <1>2, Dequeued
  <2>2. i + 1 \in DOMAIN q /\ j + 1 \in DOMAIN q /\ q[i + 1] = q[j + 1] /\ i \in Int /\ j \in Int
    BY <1>2, <2>1
  <2>q. QED
    BY <2>2
<1>q. QED
  BY <1>1, <1>2, Zenon


(* The owner of the mutex is the thread that owns the lock. *)
LEMMA OwnerIs ==
    ASSUME Mutual
    PROVE  /\ \A t \in Threads : Owns(t) => owner = t
           /\ (\A t \in Threads : ~Owns(t)) => owner = NoThread
BY Zenon DEF owner, Mutual

(* ... also in the next state. *)
LEMMA OwnerIsNext ==
    ASSUME Mutual'
    PROVE  /\ \A t \in Threads : Owns(t)' => owner' = t
           /\ (\A t \in Threads : ~Owns(t)') => owner' = NoThread
BY Zenon DEF owner, Mutual

(* A step that changes neither who owns nor who waits is invisible. *)
LEMMA Invisible ==
    ASSUME Mutual, Mutual', \A u \in Threads : (Owns(u)' <=> Owns(u)) /\ (Waits(u)' <=> Waits(u))
    PROVE  UNCHANGED M!vars
<1>1. owner' = owner
  BY OwnerIs, OwnerIsNext, Zenon
<1>2. {u \in Threads : Waits(u)}' = {u \in Threads : Waits(u)}
  BY Zenon
<1>q. QED
  BY <1>1, <1>2, Zenon DEF M!vars

(* A release leaves the mutex without an owner. *)
LEMMA Releases ==
    ASSUME Mutual, Mutual', NEW t \in Threads, Owns(t),
           \A u \in Threads : ~Owns(u)' /\ (Waits(u)' <=> Waits(u))
    PROVE  M!Release(t)
<1>1. owner = t /\ owner' = NoThread
  BY OwnerIs, OwnerIsNext, Zenon
<1>2. {u \in Threads : Waits(u)}' = {u \in Threads : Waits(u)}
  BY Zenon
<1>q. QED
  BY <1>1, <1>2, Zenon DEF M!Release

-----------------------------------------------------------------------------
(* Every action preserves the invariant and is a step of the mutex *)

Labels == {"idle", "lockSlow", "park", "parked", "held", "unlockSlow", "unpark", "signal", "relock"}

\* The part of unparkOne() that does not depend on its callback.
Dequeues(t) ==
    /\ queue' = Tail(queue) /\ unparked' = [unparked EXCEPT ![t] = Head(queue)]
    /\ fairTime' = FALSE /\ Goto(t, "signal")
    /\ UNCHANGED <<address, spinCount, expected, fairness, relock>>

\* The part of compareAndPark() that does not depend on the validation.
Parks(t) ==
    /\ token' = [token EXCEPT ![t] = "BargingOpportunity"]
    /\ expected' = [expected EXCEPT ![t] = Zero]
    /\ UNCHANGED <<word, fairTime, spinCount, fairness, relock, unparked>>


(* The passing of nextFairTime preserves the invariant. *)
LEMMA TickStep ==
    ASSUME Inv, tick
    PROVE  Inv' /\ [M!Next]_M!vars
<1> USE LockAssumption
<1>o. \A u \in Threads : Owns(u)' <=> Owns(u)
  BY Zenon DEF tick, Owns
<1>n. \A u \in Threads : Waits(u)' <=> Waits(u)
  BY Zenon DEF tick, Waits, Owns
<1>1. TypeOK'
  BY <1>o, <1>n, Zenon DEF Inv, TypeOK, Labels, Tokens, tick, Owns, Waits, SignalInv, WordInv
<1>2. Mutual'
  BY <1>o, <1>n DEF Inv, TypeOK, Mutual, HeldIsOwned, tick, Owns, Waits, SignalInv, WordInv
<1>3. HeldIsOwned'
  BY <1>o, <1>n, Zenon DEF Inv, TypeOK, HeldIsOwned, Mutual, tick, Owns, Waits, SignalInv, WordInv
<1>4. QueueInv'
  BY <1>o, <1>n, Zenon DEF Inv, TypeOK, QueueInv, tick, Owns, Waits, SignalInv, WordInv
<1>5. SignalInv'
  BY <1>o, <1>n DEF Inv, TypeOK, SignalInv, AddressInv, tick, Owns, Waits, WordInv
<1>6. AddressInv'
  BY <1>o, <1>n DEF Inv, TypeOK, AddressInv, SignalInv, tick, Owns, Waits, WordInv
<1>7. WordInv'
  BY <1>o, <1>n, Zenon DEF Inv, TypeOK, WordInv, tick, Owns, Waits, SignalInv
<1>8. WatchInv'
  BY <1>o, <1>n, Zenon DEF Inv, TypeOK, WatchInv, QueueInv, tick, Owns, Waits, SignalInv, WordInv
<1>9. [M!Next]_M!vars
  BY <1>2, <1>o, <1>n, Invisible, Zenon DEF Inv
<1>q. QED
  BY <1>1, <1>2, <1>3, <1>4, <1>5, <1>6, <1>7, <1>8, <1>9, Zenon DEF Inv

(* An acquisition by lock() or tryLock() preserves the invariant. *)
LEMMA AcquireStep ==
    ASSUME Inv, NEW t \in Threads, pc[t] \in {"idle", "relock", "lockSlow"}, ~word.held,
           word' = lockHook(word), Goto(t, "held"), spinCount' \in [Threads -> 0 .. SpinLimit],
           UNCHANGED <<queue, fairTime, address, token, expected, fairness, relock, unparked>>
    PROVE  Inv' /\ [M!Next]_M!vars
<1> USE LockAssumption
<1>t. /\ word \in Words /\ queue \in Seq(Threads) /\ pc \in [Threads -> Labels]
      /\ address \in SUBSET Threads /\ token \in [Threads -> Tokens]
         /\ unparked \in [Threads -> Threads \cup {NoThread}]
  BY Zenon DEF Inv, TypeOK, Labels
<1>p. /\ pc'[t] = "held" /\ \A u \in Threads : u # t => pc'[u] = pc[u]
      /\ pc' \in [Threads -> Labels]
  BY <1>t, Zenon DEF Goto, Labels
<1>w. word' \in Words /\ word'.held /\ word'.parked = word.parked
  BY <1>t, LockHookType, Zenon DEF lockHook
<1>o. \A u \in Threads : Owns(u)' <=> (u = t \/ Owns(u))
  BY <1>t, <1>p, Zenon DEF Owns
<1>n. \A u \in Threads : Waits(u)' <=> (u # t /\ Waits(u))
  BY <1>t, <1>p, <1>o, Zenon DEF Waits, Owns
<1>1. TypeOK'
  BY <1>t, <1>p, <1>w, <1>o, <1>n, Zenon DEF Inv, TypeOK, Labels, Tokens
<1>2. Mutual'
  BY <1>t, <1>p, <1>w, <1>o, <1>n, Zenon DEF Inv, TypeOK, Mutual, HeldIsOwned
<1>3. HeldIsOwned'
  BY <1>t, <1>p, <1>w, <1>o, <1>n, Zenon DEF Inv, TypeOK, HeldIsOwned, Mutual
<1>4. QueueInv'
  BY <1>t, <1>p, <1>w, <1>o, <1>n, Zenon DEF Inv, TypeOK, QueueInv
<1>5. SignalInv'
  <2>1. \A u \in Threads : pc'[u] = "signal" => pc[u] = "signal"
    BY <1>p, Zenon
  <2>q. QED
    BY <2>1, <1>t DEF Inv, SignalInv, AddressInv
<1>6. AddressInv'
  <2>1. \A u \in Threads : pc[u] = "signal" => pc'[u] = "signal"
    BY <1>p, Zenon
  <2>2. ASSUME NEW u \in address'
        PROVE  pc'[u] = "parked"
    BY <1>t, <1>p DEF Inv, AddressInv
  <2>q. QED
    BY <2>1, <2>2 DEF Inv, AddressInv
<1>7. WordInv'
  BY <1>t, <1>p, <1>w, <1>o, <1>n, Zenon DEF Inv, TypeOK, WordInv
<1>8. WatchInv'
  BY <1>t, <1>p, <1>w, <1>o, <1>n, Zenon DEF Inv, TypeOK, WatchInv, QueueInv
<1>9. [M!Next]_M!vars
  <2>1. owner = NoThread /\ owner' = t
    BY <1>2, <1>o, OwnerIs, OwnerIsNext, Zenon DEF Inv, HeldIsOwned
  <2>2. {u \in Threads : Waits(u)}' = {u \in Threads : Waits(u)} \ {t}
    BY <1>n, Zenon
  <2>3. M!Enter(t) \/ M!Acquire(t)
    BY <2>1, <2>2, Zenon DEF M!Enter, M!Acquire
  <2>q. QED
    BY <2>3, Zenon DEF M!Next
<1>q. QED
  BY <1>1, <1>2, <1>3, <1>4, <1>5, <1>6, <1>7, <1>8, <1>9, Zenon DEF Inv

(* A call of lock() that has to wait preserves the invariant. *)
LEMMA MoveStep ==
    ASSUME Inv, NEW t \in Threads, pc[t] \in {"idle", "relock"}, NEW label \in {"lockSlow", "relock"},
           Goto(t, label), spinCount' \in [Threads -> 0 .. SpinLimit], UNCHANGED word,
           UNCHANGED <<queue, fairTime, address, token, expected, fairness, relock, unparked>>
    PROVE  Inv' /\ [M!Next]_M!vars
<1> USE LockAssumption
<1>t. /\ word \in Words /\ queue \in Seq(Threads) /\ pc \in [Threads -> Labels]
      /\ address \in SUBSET Threads /\ token \in [Threads -> Tokens]
         /\ unparked \in [Threads -> Threads \cup {NoThread}]
  BY Zenon DEF Inv, TypeOK, Labels
<1>p. /\ pc'[t] = label /\ \A u \in Threads : u # t => pc'[u] = pc[u]
      /\ pc' \in [Threads -> Labels]
  BY <1>t, Zenon DEF Goto, Labels
<1>o. \A u \in Threads : Owns(u)' <=> Owns(u)
  BY <1>t, <1>p, Zenon DEF Owns
<1>n. \A u \in Threads : Waits(u)' <=> (Waits(u) \/ (u = t /\ label = "lockSlow"))
  BY <1>t, <1>p, <1>o, Zenon DEF Waits, Owns
<1>1. TypeOK'
  BY <1>t, <1>p, <1>o, <1>n, Zenon DEF Inv, TypeOK, Labels, Tokens
<1>2. Mutual'
  BY <1>t, <1>p, <1>o, <1>n, Zenon DEF Inv, TypeOK, Mutual, HeldIsOwned
<1>3. HeldIsOwned'
  BY <1>t, <1>p, <1>o, <1>n, Zenon DEF Inv, TypeOK, HeldIsOwned, Mutual
<1>4. QueueInv'
  BY <1>t, <1>p, <1>o, <1>n, Zenon DEF Inv, TypeOK, QueueInv
<1>5. SignalInv'
  <2>1. \A u \in Threads : pc'[u] = "signal" => pc[u] = "signal"
    BY <1>p, Zenon
  <2>q. QED
    BY <2>1, <1>t DEF Inv, SignalInv, AddressInv
<1>6. AddressInv'
  <2>1. \A u \in Threads : pc[u] = "signal" => pc'[u] = "signal"
    BY <1>p, Zenon
  <2>2. ASSUME NEW u \in address'
        PROVE  pc'[u] = "parked"
    BY <1>t, <1>p, Zenon DEF Inv, AddressInv
  <2>q. QED
    BY <2>1, <2>2 DEF Inv, AddressInv
<1>7. WordInv'
  BY <1>t, <1>p, <1>o, <1>n, Zenon DEF Inv, TypeOK, WordInv
<1>8. WatchInv'
  BY <1>t, <1>p, <1>o, <1>n, Zenon DEF Inv, TypeOK, WatchInv, QueueInv
<1>9. [M!Next]_M!vars
  <2>1. CASE label = "relock"
    BY <2>1, <1>2, <1>o, <1>n, Invisible, Zenon DEF Inv
  <2>2. CASE label = "lockSlow"
    <3>1. ~Owns(t) /\ ~Waits(t)
      BY Zenon DEF Owns, Waits
    <3>2. owner # t
      <4>1. CASE \E u \in Threads : Owns(u)
        BY <4>1, <3>1, OwnerIs, Zenon DEF Inv
      <4>2. CASE \A u \in Threads : ~Owns(u)
        BY <4>2, OwnerIs, Zenon DEF Inv
      <4>q. QED
        BY <4>1, <4>2, Zenon
    <3>3. owner' = owner
      BY <1>2, <1>o, OwnerIs, OwnerIsNext, Zenon DEF Inv
    <3>4. {u \in Threads : Waits(u)}' = {u \in Threads : Waits(u)} \cup {t}
      BY <2>2, <1>n, Zenon
    <3>5. M!Request(t)
      BY <3>1, <3>2, <3>3, <3>4, Zenon DEF M!Request
    <3>q. QED
      BY <3>5, Zenon DEF M!Next
  <2>q. QED
    BY <2>1, <2>2, Zenon
<1>q. QED
  BY <1>1, <1>2, <1>3, <1>4, <1>5, <1>6, <1>7, <1>8, <1>9, Zenon DEF Inv

(* A turn of lockSlow() that spins preserves the invariant. *)
LEMMA SpinStep ==
    ASSUME Inv, NEW t \in Threads, spinCount' \in [Threads -> 0 .. SpinLimit], UNCHANGED <<word, pc>>,
           UNCHANGED <<queue, fairTime, address, token, expected, fairness, relock, unparked>>
    PROVE  Inv' /\ [M!Next]_M!vars
<1> USE LockAssumption
<1>t. /\ word \in Words /\ queue \in Seq(Threads) /\ pc \in [Threads -> Labels]
      /\ address \in SUBSET Threads /\ token \in [Threads -> Tokens]
         /\ unparked \in [Threads -> Threads \cup {NoThread}]
  BY Zenon DEF Inv, TypeOK, Labels
<1>o. \A u \in Threads : (Owns(u)' <=> Owns(u)) /\ (Waits(u)' <=> Waits(u))
  BY Zenon DEF Owns, Waits
<1>1. TypeOK'
  BY <1>t, <1>o, Zenon DEF Inv, TypeOK, Labels, Tokens
<1>2. Mutual'
  BY <1>t, <1>o, Zenon DEF Inv, TypeOK, Mutual, HeldIsOwned
<1>3. HeldIsOwned'
  BY <1>t, <1>o, Zenon DEF Inv, TypeOK, HeldIsOwned, Mutual
<1>4. QueueInv'
  BY <1>t, <1>o, Zenon DEF Inv, TypeOK, QueueInv
<1>5. SignalInv'
  BY <1>t, <1>o DEF Inv, TypeOK, SignalInv, AddressInv
<1>6. AddressInv'
  BY <1>t, <1>o, Zenon DEF Inv, TypeOK, AddressInv, SignalInv
<1>7. WordInv'
  BY <1>t, <1>o, Zenon DEF Inv, TypeOK, WordInv
<1>8. WatchInv'
  BY <1>t, <1>o, Zenon DEF Inv, TypeOK, WatchInv, QueueInv
<1>9. [M!Next]_M!vars
  BY <1>2, <1>o, Invisible, Zenon DEF Inv
<1>q. QED
  BY <1>1, <1>2, <1>3, <1>4, <1>5, <1>6, <1>7, <1>8, <1>9, Zenon DEF Inv

(* A turn of lockSlow() that decides to park preserves the invariant. *)
LEMMA SetParkedStep ==
    ASSUME Inv, NEW t \in Threads, pc[t] = "lockSlow", word.held, word' = [word EXCEPT !.parked = TRUE],
           expected' = [expected EXCEPT ![t] = word'], Goto(t, "park"),
           UNCHANGED <<queue, fairTime, address, token, spinCount, fairness, relock, unparked>>
    PROVE  Inv' /\ [M!Next]_M!vars
<1> USE LockAssumption
<1>t. /\ word \in Words /\ queue \in Seq(Threads) /\ pc \in [Threads -> Labels]
      /\ address \in SUBSET Threads /\ token \in [Threads -> Tokens]
         /\ unparked \in [Threads -> Threads \cup {NoThread}]
  BY Zenon DEF Inv, TypeOK, Labels
<1>p. /\ pc'[t] = "park" /\ \A u \in Threads : u # t => pc'[u] = pc[u]
      /\ pc' \in [Threads -> Labels]
  BY <1>t, Zenon DEF Goto, Labels
<1>w. word' \in Words /\ word'.held /\ word'.parked
  BY <1>t, Zenon DEF Words
<1>o. \A u \in Threads : Owns(u)' <=> Owns(u)
  BY <1>t, <1>p, Zenon DEF Owns
<1>n. \A u \in Threads : Waits(u)' <=> Waits(u)
  BY <1>t, <1>p, <1>o, Zenon DEF Waits, Owns
<1>1. TypeOK'
  BY <1>t, <1>p, <1>w, <1>o, <1>n, Zenon DEF Inv, TypeOK, Labels, Tokens
<1>2. Mutual'
  BY <1>t, <1>p, <1>w, <1>o, <1>n, Zenon DEF Inv, TypeOK, Mutual, HeldIsOwned
<1>3. HeldIsOwned'
  BY <1>t, <1>p, <1>w, <1>o, <1>n, Zenon DEF Inv, TypeOK, HeldIsOwned, Mutual
<1>4. QueueInv'
  BY <1>t, <1>p, <1>w, <1>o, <1>n, Zenon DEF Inv, TypeOK, QueueInv
<1>5. SignalInv'
  <2>1. \A u \in Threads : pc'[u] = "signal" => pc[u] = "signal"
    BY <1>p, Zenon
  <2>q. QED
    BY <2>1, <1>t DEF Inv, SignalInv, AddressInv
<1>6. AddressInv'
  <2>1. \A u \in Threads : pc[u] = "signal" => pc'[u] = "signal"
    BY <1>p, Zenon
  <2>2. ASSUME NEW u \in address'
        PROVE  pc'[u] = "parked"
    BY <1>t, <1>p DEF Inv, AddressInv
  <2>q. QED
    BY <2>1, <2>2 DEF Inv, AddressInv
<1>7. WordInv'
  BY <1>t, <1>p, <1>w, <1>o, <1>n, Zenon DEF Inv, TypeOK, WordInv
<1>8. WatchInv'
  BY <1>t, <1>p, <1>w, <1>o, <1>n, Zenon DEF Inv, TypeOK, WatchInv, QueueInv
<1>9. [M!Next]_M!vars
  BY <1>2, <1>o, <1>n, Invisible, Zenon DEF Inv
<1>q. QED
  BY <1>1, <1>2, <1>3, <1>4, <1>5, <1>6, <1>7, <1>8, <1>9, Zenon DEF Inv

(* compareAndPark() that enqueues the thread preserves the invariant. *)
LEMMA ParkStep ==
    ASSUME Inv, NEW t \in Threads, pc[t] = "park", word = expected[t], queue' = Append(queue, t),
           address' = address \cup {t}, Goto(t, "parked"), Parks(t)
    PROVE  Inv' /\ [M!Next]_M!vars
<1> USE LockAssumption
<1>t. /\ word \in Words /\ queue \in Seq(Threads) /\ pc \in [Threads -> Labels]
      /\ address \in SUBSET Threads /\ token \in [Threads -> Tokens]
         /\ unparked \in [Threads -> Threads \cup {NoThread}]
  BY Zenon DEF Inv, TypeOK, Labels
<1>p. /\ pc'[t] = "parked" /\ \A u \in Threads : u # t => pc'[u] = pc[u]
      /\ pc' \in [Threads -> Labels]
  BY <1>t, Zenon DEF Goto, Labels
<1>g. /\ ~IsIn(queue, t) /\ t \notin address
      /\ token' \in [Threads -> Tokens] /\ token'[t] = "BargingOpportunity"
      /\ \A u \in Threads : u # t => token'[u] = token[u]
      /\ expected' \in [Threads -> Words] /\ \A u \in Threads : u # t => expected'[u] = expected[u]
      /\ UNCHANGED <<word, fairTime, spinCount, fairness, relock, unparked>>
  <2>1. expected \in [Threads -> Words] /\ Zero \in Words
    BY DEF Inv, TypeOK, Zero, Words
  <2>q. QED
    BY <2>1, <1>t DEF Parks, Inv, QueueInv, AddressInv, Tokens
<1>e. /\ queue' \in Seq(Threads) /\ address' = address \cup {t}
      /\ \A u : IsIn(queue', u) <=> u = t \/ IsIn(queue, u)
      /\ \A i, j \in DOMAIN queue' : queue'[i] = queue'[j] => i = j
  BY <1>t, <1>g, AppendIsIn, QueueStaysDistinct, Queued, Zenon DEF Inv, QueueInv
<1>w. word.held /\ word.parked
  BY Zenon DEF Inv, WordInv
<1>o. \A u \in Threads : Owns(u)' <=> Owns(u)
  BY <1>t, <1>p, <1>g, Zenon DEF Owns
<1>n. \A u \in Threads : Waits(u)' <=> Waits(u)
  BY <1>t, <1>p, <1>g, <1>o, Zenon DEF Waits, Owns
<1>1. TypeOK'
  BY <1>t, <1>p, <1>g, <1>e, <1>w, <1>o, <1>n, Zenon DEF Inv, TypeOK, Labels, Tokens
<1>2. Mutual'
  BY <1>t, <1>p, <1>g, <1>e, <1>w, <1>o, <1>n, Zenon DEF Inv, TypeOK, Mutual, HeldIsOwned
<1>3. HeldIsOwned'
  BY <1>t, <1>p, <1>g, <1>e, <1>w, <1>o, <1>n, Zenon DEF Inv, TypeOK, HeldIsOwned, Mutual
<1>4. QueueInv'
  BY <1>t, <1>p, <1>g, <1>e, <1>w, <1>o, <1>n DEF Inv, TypeOK, QueueInv
<1>5. SignalInv'
  <2>1. \A u \in Threads : pc'[u] = "signal" => pc[u] = "signal"
    BY <1>p, Zenon
  <2>q. QED
    BY <2>1, <1>t, <1>g, <1>e DEF Inv, SignalInv, AddressInv
<1>6. AddressInv'
  <2>1. \A u \in Threads : pc[u] = "signal" => pc'[u] = "signal"
    BY <1>p, Zenon
  <2>2. ASSUME NEW u \in address'
        PROVE  pc'[u] = "parked"
    BY <1>t, <1>p, <1>e DEF Inv, AddressInv
  <2>q. QED
    BY <2>1, <2>2, <1>g, <1>e DEF Inv, AddressInv
<1>7. WordInv'
  BY <1>t, <1>p, <1>g, <1>e, <1>w, <1>o, <1>n, Zenon DEF Inv, TypeOK, WordInv
<1>8. WatchInv'
  BY <1>t, <1>p, <1>g, <1>e, <1>w, <1>o, <1>n, Zenon DEF Inv, TypeOK, WatchInv, QueueInv
<1>9. [M!Next]_M!vars
  BY <1>2, <1>o, <1>n, Invisible, Zenon DEF Inv
<1>q. QED
  BY <1>1, <1>2, <1>3, <1>4, <1>5, <1>6, <1>7, <1>8, <1>9, Zenon DEF Inv

(* compareAndPark() that finds another word preserves the invariant. *)
LEMMA InvalidStep ==
    ASSUME Inv, NEW t \in Threads, pc[t] = "park", Goto(t, "lockSlow"), Parks(t), UNCHANGED <<queue, address>>
    PROVE  Inv' /\ [M!Next]_M!vars
<1> USE LockAssumption
<1>t. /\ word \in Words /\ queue \in Seq(Threads) /\ pc \in [Threads -> Labels]
      /\ address \in SUBSET Threads /\ token \in [Threads -> Tokens]
         /\ unparked \in [Threads -> Threads \cup {NoThread}]
  BY Zenon DEF Inv, TypeOK, Labels
<1>p. /\ pc'[t] = "lockSlow" /\ \A u \in Threads : u # t => pc'[u] = pc[u]
      /\ pc' \in [Threads -> Labels]
  BY <1>t, Zenon DEF Goto, Labels
<1>g. /\ ~IsIn(queue, t) /\ t \notin address
      /\ token' \in [Threads -> Tokens] /\ token'[t] = "BargingOpportunity"
      /\ \A u \in Threads : u # t => token'[u] = token[u]
      /\ expected' \in [Threads -> Words] /\ \A u \in Threads : u # t => expected'[u] = expected[u]
      /\ UNCHANGED <<word, fairTime, spinCount, fairness, relock, unparked>>
  <2>1. expected \in [Threads -> Words] /\ Zero \in Words
    BY DEF Inv, TypeOK, Zero, Words
  <2>q. QED
    BY <2>1, <1>t DEF Parks, Inv, QueueInv, AddressInv, Tokens
<1>o. \A u \in Threads : Owns(u)' <=> Owns(u)
  BY <1>t, <1>p, <1>g, Zenon DEF Owns
<1>n. \A u \in Threads : Waits(u)' <=> Waits(u)
  BY <1>t, <1>p, <1>g, <1>o, Zenon DEF Waits, Owns
<1>1. TypeOK'
  BY <1>t, <1>p, <1>g, <1>o, <1>n, Zenon DEF Inv, TypeOK, Labels, Tokens
<1>2. Mutual'
  BY <1>t, <1>p, <1>g, <1>o, <1>n, Zenon DEF Inv, TypeOK, Mutual, HeldIsOwned
<1>3. HeldIsOwned'
  BY <1>t, <1>p, <1>g, <1>o, <1>n, Zenon DEF Inv, TypeOK, HeldIsOwned, Mutual
<1>4. QueueInv'
  BY <1>t, <1>p, <1>g, <1>o, <1>n, Zenon DEF Inv, TypeOK, QueueInv
<1>5. SignalInv'
  <2>1. \A u \in Threads : pc'[u] = "signal" => pc[u] = "signal"
    BY <1>p, Zenon
  <2>q. QED
    BY <2>1, <1>t, <1>g DEF Inv, SignalInv, AddressInv
<1>6. AddressInv'
  <2>1. \A u \in Threads : pc[u] = "signal" => pc'[u] = "signal"
    BY <1>p, Zenon
  <2>2. ASSUME NEW u \in address'
        PROVE  pc'[u] = "parked"
    BY <1>t, <1>p DEF Inv, AddressInv
  <2>q. QED
    BY <2>1, <2>2, <1>g DEF Inv, AddressInv
<1>7. WordInv'
  <2>1. ASSUME NEW u \in Threads
        PROVE  /\ pc'[u] = "park" => pc[u] = "park" /\ expected'[u] = expected[u]
               /\ pc'[u] = "unpark" => pc[u] = "unpark"
               /\ pc'[u] = "unlockSlow" => pc[u] = "unlockSlow"
    <3>1. CASE u = t
      BY <1>p, <3>1, Zenon
    <3>2. CASE u # t
      BY <1>p, <1>g, <3>2, Zenon
    <3>3. QED
      BY <3>1, <3>2, Zenon
  <2>2. word' = word
    BY <1>g, Zenon
  <2>3. QED
    BY <2>1, <2>2, Zenon DEF Inv, WordInv
<1>8. WatchInv'
  BY <1>t, <1>p, <1>g, <1>o, <1>n, Zenon DEF Inv, TypeOK, WatchInv, QueueInv
<1>9. [M!Next]_M!vars
  BY <1>2, <1>o, <1>n, Invisible, Zenon DEF Inv
<1>q. QED
  BY <1>1, <1>2, <1>3, <1>4, <1>5, <1>6, <1>7, <1>8, <1>9, Zenon DEF Inv

(* Waking up preserves the invariant. *)
LEMMA WakeUpStep ==
    ASSUME Inv, NEW t \in Threads, wakeUp(t)
    PROVE  Inv' /\ [M!Next]_M!vars
<1> USE LockAssumption
<1>t. /\ word \in Words /\ queue \in Seq(Threads) /\ pc \in [Threads -> Labels]
      /\ address \in SUBSET Threads /\ token \in [Threads -> Tokens]
         /\ unparked \in [Threads -> Threads \cup {NoThread}]
  BY Zenon DEF Inv, TypeOK, Labels
<1>p. /\ pc[t] = "parked" /\ pc'[t] = IF token[t] = "DirectHandoff" THEN "held" ELSE "lockSlow"
      /\ \A u \in Threads : u # t => pc'[u] = pc[u]
      /\ pc' \in [Threads -> Labels]
      /\ t \notin address
      /\ UNCHANGED <<word, queue, fairTime, address, token, spinCount, expected, fairness, relock, unparked>>
  BY <1>t, Zenon DEF Goto, Labels, wakeUp
<1>o. \A u \in Threads : Owns(u)' <=> Owns(u)
  BY <1>t, <1>p, Zenon DEF Owns
<1>n. \A u \in Threads : Waits(u)' <=> Waits(u)
  BY <1>t, <1>p, <1>o, Zenon DEF Waits, Owns
<1>1. TypeOK'
  BY <1>t, <1>p, <1>o, <1>n, Zenon DEF Inv, TypeOK, Labels, Tokens
<1>2. Mutual'
  BY <1>t, <1>p, <1>o, <1>n, Zenon DEF Inv, TypeOK, Mutual, HeldIsOwned
<1>3. HeldIsOwned'
  BY <1>t, <1>p, <1>o, <1>n, Zenon DEF Inv, TypeOK, HeldIsOwned, Mutual
<1>4. QueueInv'
  BY <1>t, <1>p, <1>o, <1>n, Zenon DEF Inv, TypeOK, QueueInv
<1>5. SignalInv'
  <2>1. \A u \in Threads : pc'[u] = "signal" => pc[u] = "signal"
    BY <1>p, Zenon
  <2>q. QED
    BY <2>1, <1>t, <1>p DEF Inv, SignalInv, AddressInv
<1>6. AddressInv'
  <2>1. \A u \in Threads : pc[u] = "signal" => pc'[u] = "signal"
    BY <1>p, Zenon
  <2>2. ASSUME NEW u \in address'
        PROVE  pc'[u] = "parked"
    BY <1>t, <1>p DEF Inv, AddressInv
  <2>q. QED
    BY <2>1, <2>2, <1>p DEF Inv, AddressInv
<1>7. WordInv'
  BY <1>t, <1>p, <1>o, <1>n, Zenon DEF Inv, TypeOK, WordInv
<1>8. WatchInv'
  BY <1>t, <1>p, <1>o, <1>n, Zenon DEF Inv, TypeOK, WatchInv, QueueInv
<1>9. [M!Next]_M!vars
  BY <1>2, <1>o, <1>n, Invisible, Zenon DEF Inv
<1>q. QED
  BY <1>1, <1>2, <1>3, <1>4, <1>5, <1>6, <1>7, <1>8, <1>9, Zenon DEF Inv

(* A release of a word without the parked bit preserves the invariant. *)
LEMMA ReleaseStep ==
    ASSUME Inv, NEW t \in Threads, pc[t] \in {"held", "unlockSlow"}, ~word.parked, NEW again \in BOOLEAN,
           word' = [word EXCEPT !.held = FALSE], AfterUnlock(t, again),
           UNCHANGED <<queue, fairTime, address, token, spinCount, expected, unparked>>
    PROVE  Inv' /\ [M!Next]_M!vars
<1> USE LockAssumption
<1>t. /\ word \in Words /\ queue \in Seq(Threads) /\ pc \in [Threads -> Labels]
      /\ address \in SUBSET Threads /\ token \in [Threads -> Tokens]
         /\ unparked \in [Threads -> Threads \cup {NoThread}]
  BY Zenon DEF Inv, TypeOK, Labels
<1>p. /\ pc'[t] = (IF again THEN "relock" ELSE "idle") /\ \A u \in Threads : u # t => pc'[u] = pc[u]
      /\ pc' \in [Threads -> Labels]
  BY <1>t, Zenon DEF Goto, Labels, AfterUnlock
<1>w. word' \in Words /\ ~word'.held /\ ~word'.parked
  BY <1>t, Zenon DEF Words
<1>m. Owns(t)
  BY Zenon DEF Owns
<1>o. \A u \in Threads : Owns(u)' <=> FALSE
  BY <1>t, <1>p, <1>m, Zenon DEF Owns, Inv, Mutual
<1>n. \A u \in Threads : Waits(u)' <=> Waits(u)
  BY <1>t, <1>p, <1>m, <1>o, Zenon DEF Waits, Inv, Mutual, Owns
<1>1. TypeOK'
  <2>1. fairness' \in [Threads -> {"Fair", "Unfair"}] /\ relock' \in [Threads -> BOOLEAN]
    BY Zenon DEF Inv, TypeOK, AfterUnlock
  <2>q. QED
    BY <2>1, <1>t, <1>p, <1>w, Zenon DEF Inv, TypeOK, Labels
<1>2. Mutual'
  BY <1>t, <1>p, <1>w, <1>m, <1>o, <1>n, Zenon DEF Inv, TypeOK, Mutual, HeldIsOwned
<1>3. HeldIsOwned'
  BY <1>t, <1>p, <1>w, <1>m, <1>o, <1>n, Zenon DEF Inv, TypeOK, HeldIsOwned, Mutual
<1>4. QueueInv'
  BY <1>t, <1>p, <1>w, <1>m, <1>o, <1>n, Zenon DEF Inv, TypeOK, QueueInv
<1>5. SignalInv'
  <2>1. \A u \in Threads : pc'[u] = "signal" => pc[u] = "signal"
    BY <1>p, Zenon
  <2>q. QED
    BY <2>1, <1>t DEF Inv, SignalInv, AddressInv
<1>6. AddressInv'
  <2>1. \A u \in Threads : pc[u] = "signal" => pc'[u] = "signal"
    BY <1>p, Zenon
  <2>2. ASSUME NEW u \in address'
        PROVE  pc'[u] = "parked"
    BY <1>t, <1>p DEF Inv, AddressInv
  <2>q. QED
    BY <2>1, <2>2 DEF Inv, AddressInv
<1>7. WordInv'
  BY <1>t, <1>p, <1>w, <1>m, <1>o, <1>n, Zenon DEF Inv, TypeOK, WordInv
<1>8. WatchInv'
  BY <1>t, <1>p, <1>w, <1>m, <1>o, <1>n, Zenon DEF Inv, TypeOK, WatchInv, QueueInv
<1>9. [M!Next]_M!vars
  BY <1>2, <1>m, <1>o, <1>n, Releases, Zenon DEF Inv, M!Next
<1>q. QED
  BY <1>1, <1>2, <1>3, <1>4, <1>5, <1>6, <1>7, <1>8, <1>9, Zenon DEF Inv

(* The failure of unlock()'s fast path preserves the invariant. *)
LEMMA GoSlowStep ==
    ASSUME Inv, NEW t \in Threads, pc[t] = "held", AssumingZero \/ word.parked, Goto(t, "unlockSlow"),
           fairness' \in [Threads -> {"Fair", "Unfair"}], relock' \in [Threads -> BOOLEAN],
           UNCHANGED <<word, queue, fairTime, address, token, spinCount, expected, unparked>>
    PROVE  Inv' /\ [M!Next]_M!vars
<1> USE LockAssumption
<1>t. /\ word \in Words /\ queue \in Seq(Threads) /\ pc \in [Threads -> Labels]
      /\ address \in SUBSET Threads /\ token \in [Threads -> Tokens]
         /\ unparked \in [Threads -> Threads \cup {NoThread}]
  BY Zenon DEF Inv, TypeOK, Labels
<1>p. /\ pc'[t] = "unlockSlow" /\ \A u \in Threads : u # t => pc'[u] = pc[u]
      /\ pc' \in [Threads -> Labels]
  BY <1>t, Zenon DEF Goto, Labels
<1>o. \A u \in Threads : Owns(u)' <=> Owns(u)
  BY <1>t, <1>p, Zenon DEF Owns
<1>n. \A u \in Threads : Waits(u)' <=> Waits(u)
  BY <1>t, <1>p, <1>o, Zenon DEF Waits, Owns
<1>1. TypeOK'
  BY <1>t, <1>p, <1>o, <1>n, Zenon DEF Inv, TypeOK, Labels, Tokens
<1>2. Mutual'
  BY <1>t, <1>p, <1>o, <1>n, Zenon DEF Inv, TypeOK, Mutual, HeldIsOwned
<1>3. HeldIsOwned'
  BY <1>t, <1>p, <1>o, <1>n, Zenon DEF Inv, TypeOK, HeldIsOwned, Mutual
<1>4. QueueInv'
  BY <1>t, <1>p, <1>o, <1>n, Zenon DEF Inv, TypeOK, QueueInv
<1>5. SignalInv'
  <2>1. \A u \in Threads : pc'[u] = "signal" => pc[u] = "signal"
    BY <1>p, Zenon
  <2>q. QED
    BY <2>1, <1>t DEF Inv, SignalInv, AddressInv
<1>6. AddressInv'
  <2>1. \A u \in Threads : pc[u] = "signal" => pc'[u] = "signal"
    BY <1>p, Zenon
  <2>2. ASSUME NEW u \in address'
        PROVE  pc'[u] = "parked"
    BY <1>t, <1>p DEF Inv, AddressInv
  <2>q. QED
    BY <2>1, <2>2 DEF Inv, AddressInv
<1>7. WordInv'
  BY <1>t, <1>p, <1>o, <1>n, Zenon DEF Inv, TypeOK, WordInv
<1>8. WatchInv'
  BY <1>t, <1>p, <1>o, <1>n, Zenon DEF Inv, TypeOK, WatchInv, QueueInv
<1>9. [M!Next]_M!vars
  BY <1>2, <1>o, <1>n, Invisible, Zenon DEF Inv
<1>q. QED
  BY <1>1, <1>2, <1>3, <1>4, <1>5, <1>6, <1>7, <1>8, <1>9, Zenon DEF Inv

(* A turn of unlockSlow() that sees the parked bit preserves the invariant. *)
LEMMA GoUnparkStep ==
    ASSUME Inv, NEW t \in Threads, pc[t] = "unlockSlow", word.parked, Goto(t, "unpark"),
           UNCHANGED <<word, queue, fairTime, address, token, spinCount, expected, fairness, relock, unparked>>
    PROVE  Inv' /\ [M!Next]_M!vars
<1> USE LockAssumption
<1>t. /\ word \in Words /\ queue \in Seq(Threads) /\ pc \in [Threads -> Labels]
      /\ address \in SUBSET Threads /\ token \in [Threads -> Tokens]
         /\ unparked \in [Threads -> Threads \cup {NoThread}]
  BY Zenon DEF Inv, TypeOK, Labels
<1>p. /\ pc'[t] = "unpark" /\ \A u \in Threads : u # t => pc'[u] = pc[u]
      /\ pc' \in [Threads -> Labels]
  BY <1>t, Zenon DEF Goto, Labels
<1>o. \A u \in Threads : Owns(u)' <=> Owns(u)
  BY <1>t, <1>p, Zenon DEF Owns
<1>n. \A u \in Threads : Waits(u)' <=> Waits(u)
  BY <1>t, <1>p, <1>o, Zenon DEF Waits, Owns
<1>1. TypeOK'
  BY <1>t, <1>p, <1>o, <1>n, Zenon DEF Inv, TypeOK, Labels, Tokens
<1>2. Mutual'
  BY <1>t, <1>p, <1>o, <1>n, Zenon DEF Inv, TypeOK, Mutual, HeldIsOwned
<1>3. HeldIsOwned'
  BY <1>t, <1>p, <1>o, <1>n, Zenon DEF Inv, TypeOK, HeldIsOwned, Mutual
<1>4. QueueInv'
  BY <1>t, <1>p, <1>o, <1>n DEF Inv, TypeOK, QueueInv
<1>5. SignalInv'
  <2>1. \A u \in Threads : pc'[u] = "signal" => pc[u] = "signal"
    BY <1>p, Zenon
  <2>q. QED
    BY <2>1, <1>t DEF Inv, SignalInv, AddressInv
<1>6. AddressInv'
  <2>1. \A u \in Threads : pc[u] = "signal" => pc'[u] = "signal"
    BY <1>p, Zenon
  <2>2. ASSUME NEW u \in address'
        PROVE  pc'[u] = "parked"
    BY <1>t, <1>p DEF Inv, AddressInv
  <2>q. QED
    BY <2>1, <2>2 DEF Inv, AddressInv
<1>7. WordInv'
  BY <1>t, <1>p, <1>o, <1>n, Zenon DEF Inv, TypeOK, WordInv
<1>8. WatchInv'
  BY <1>t, <1>p, <1>o, <1>n, Zenon DEF Inv, TypeOK, WatchInv, QueueInv
<1>9. [M!Next]_M!vars
  BY <1>2, <1>o, <1>n, Invisible, Zenon DEF Inv
<1>q. QED
  BY <1>1, <1>2, <1>3, <1>4, <1>5, <1>6, <1>7, <1>8, <1>9, Zenon DEF Inv

(* unparkOne() on an empty queue preserves the invariant. *)
LEMMA UnparkNoneStep ==
    ASSUME Inv, NEW t \in Threads, pc[t] = "unpark", queue = <<>>,
           word' = [word EXCEPT !.held = FALSE, !.parked = FALSE], AfterUnlock(t, relock[t]),
           UNCHANGED <<queue, fairTime, address, token, spinCount, expected, unparked>>
    PROVE  Inv' /\ [M!Next]_M!vars
<1> USE LockAssumption
<1>t. /\ word \in Words /\ queue \in Seq(Threads) /\ pc \in [Threads -> Labels]
      /\ address \in SUBSET Threads /\ token \in [Threads -> Tokens]
         /\ unparked \in [Threads -> Threads \cup {NoThread}]
  BY Zenon DEF Inv, TypeOK, Labels
<1>p. /\ pc'[t] = (IF relock[t] THEN "relock" ELSE "idle") /\ \A u \in Threads : u # t => pc'[u] = pc[u]
      /\ pc' \in [Threads -> Labels]
  BY <1>t, Zenon DEF Goto, Labels, AfterUnlock
<1>w. word' \in Words /\ ~word'.held /\ ~word'.parked
  BY <1>t, Zenon DEF Words
<1>m. Owns(t)
  BY Zenon DEF Owns
<1>o. \A u \in Threads : Owns(u)' <=> FALSE
  BY <1>t, <1>p, <1>m, Zenon DEF Owns, Inv, Mutual
<1>n. \A u \in Threads : Waits(u)' <=> Waits(u)
  BY <1>t, <1>p, <1>m, <1>o, Zenon DEF Waits, Inv, Mutual, Owns
<1>1. TypeOK'
  <2>1. fairness' \in [Threads -> {"Fair", "Unfair"}] /\ relock' \in [Threads -> BOOLEAN]
    BY Zenon DEF Inv, TypeOK, AfterUnlock
  <2>q. QED
    BY <2>1, <1>t, <1>p, <1>w, Zenon DEF Inv, TypeOK, Labels
<1>2. Mutual'
  BY <1>t, <1>p, <1>w, <1>m, <1>o, <1>n, Zenon DEF Inv, TypeOK, Mutual, HeldIsOwned
<1>3. HeldIsOwned'
  BY <1>t, <1>p, <1>w, <1>m, <1>o, <1>n, Zenon DEF Inv, TypeOK, HeldIsOwned, Mutual
<1>4. QueueInv'
  BY <1>t, <1>p, <1>w, <1>m, <1>o, <1>n DEF Inv, TypeOK, QueueInv
<1>5. SignalInv'
  <2>1. \A u \in Threads : pc'[u] = "signal" => pc[u] = "signal"
    BY <1>p, Zenon
  <2>q. QED
    BY <2>1, <1>t DEF Inv, SignalInv, AddressInv
<1>6. AddressInv'
  <2>1. \A u \in Threads : pc[u] = "signal" => pc'[u] = "signal"
    BY <1>p, Zenon
  <2>2. ASSUME NEW u \in address'
        PROVE  pc'[u] = "parked"
    BY <1>t, <1>p DEF Inv, AddressInv
  <2>q. QED
    BY <2>1, <2>2 DEF Inv, AddressInv
<1>7. WordInv'
  <2>1. \A u \in Threads : pc'[u] \notin {"unpark", "unlockSlow"}
    BY <1>o, Zenon DEF Owns
  <2>q. QED
    BY <2>1, <1>p, Zenon DEF Inv, WordInv
<1>8. WatchInv'
  BY <1>t, <1>p, <1>w, <1>m, <1>o, <1>n, Zenon DEF Inv, TypeOK, WatchInv, QueueInv
<1>9. [M!Next]_M!vars
  BY <1>2, <1>m, <1>o, <1>n, Releases, Zenon DEF Inv, M!Next
<1>q. QED
  BY <1>1, <1>2, <1>3, <1>4, <1>5, <1>6, <1>7, <1>8, <1>9, Zenon DEF Inv

(* unparkOne() with a direct hand-over preserves the invariant. *)
LEMMA HandOverStep ==
    ASSUME Inv, NEW t \in Threads, pc[t] = "unpark", queue # <<>>, UNCHANGED word,
           token' = [token EXCEPT ![Head(queue)] = "DirectHandoff"],
           Dequeues(t)
    PROVE  Inv' /\ [M!Next]_M!vars
<1> USE LockAssumption
<1>t. /\ word \in Words /\ queue \in Seq(Threads) /\ pc \in [Threads -> Labels]
      /\ address \in SUBSET Threads /\ token \in [Threads -> Tokens]
         /\ unparked \in [Threads -> Threads \cup {NoThread}]
  BY Zenon DEF Inv, TypeOK, Labels
<1>h. /\ Head(queue) \in Threads /\ Head(queue) # t /\ queue' \in Seq(Threads)
      /\ pc[Head(queue)] = "parked" /\ Head(queue) \in address
         /\ token[Head(queue)] = "BargingOpportunity"
      /\ \A u : IsIn(queue', u) <=> u # Head(queue) /\ IsIn(queue, u)
      /\ IsIn(queue, Head(queue))
  BY <1>t, TailIsIn, Dequeued, Zenon DEF Inv, QueueInv, Dequeues
<1>m. Owns(t) /\ \A u \in Threads : Owns(u) => u = t
  BY Zenon DEF Owns, Inv, Mutual
<1>p. /\ pc'[t] = "signal" /\ \A u \in Threads : u # t => pc'[u] = pc[u]
      /\ pc' \in [Threads -> Labels]
      /\ unparked'[t] = Head(queue) /\ \A u \in Threads : u # t => unparked'[u] = unparked[u]
      /\ unparked' \in [Threads -> Threads \cup {NoThread}]
      /\ token' \in [Threads -> Tokens] /\ \A u \in Threads : u # Head(queue) => token'[u] = token[u]
      /\ UNCHANGED <<address, spinCount, expected, fairness, relock>> /\ fairTime' = FALSE
  BY <1>t, <1>h, Zenon DEF Goto, Labels, Dequeues, Tokens
<1>k. token'[Head(queue)] = "DirectHandoff"
  BY <1>t, <1>h, Zenon
<1>o. \A u \in Threads : Owns(u)' <=> u = Head(queue)
  BY <1>t, <1>p, <1>h, <1>m, <1>k DEF Owns
<1>n. \A u \in Threads : Waits(u)' <=> (Waits(u) /\ u # Head(queue))
  BY <1>t, <1>p, <1>h, <1>m, <1>k, <1>o, Zenon DEF Waits, Owns
<1>1. TypeOK'
  BY <1>t, <1>h, <1>m, <1>p, <1>k, <1>o, <1>n, Zenon DEF Inv, TypeOK, Labels, Tokens
<1>2. Mutual'
  BY <1>t, <1>h, <1>m, <1>p, <1>k, <1>o, <1>n, Zenon DEF Inv, TypeOK, Mutual, HeldIsOwned
<1>3. HeldIsOwned'
  BY <1>t, <1>h, <1>m, <1>p, <1>k, <1>o, <1>n, Zenon DEF Inv, TypeOK, HeldIsOwned, Mutual
<1>4. QueueInv'
  <2>1. \A i, j \in DOMAIN queue' : queue'[i] = queue'[j] => i = j
    BY <1>t, QueueStaysDistinct, Zenon DEF Inv, QueueInv, Dequeues
  <2>2. ASSUME NEW u \in Threads, IsIn(queue', u)
        PROVE  pc'[u] = "parked" /\ u \in address' /\ token'[u] = "BargingOpportunity"
    BY <2>2, <1>h, <1>p, Zenon DEF Inv, QueueInv
  <2>3. queue' # <<>> => word'.parked
    BY Zenon DEF Inv, WordInv, Dequeues
  <2>q. QED
    BY <2>1, <2>2, <2>3, Zenon DEF QueueInv
<1>5. SignalInv'
  <2>1. ASSUME NEW u \in Threads, pc'[u] = "signal"
        PROVE  unparked'[u] \in address' /\ ~IsIn(queue', unparked'[u])
    BY <2>1, <1>h, <1>p, Zenon DEF Inv, SignalInv
  <2>2. ASSUME NEW u \in Threads, pc'[u] = "signal", u # t
        PROVE  pc[u] = "signal" /\ unparked'[u] = unparked[u] /\ unparked'[u] # Head(queue)
    BY <2>2, <1>h, <1>p DEF Inv, SignalInv
  <2>3. unparked'[t] = Head(queue)
    BY <1>p, Zenon
  <2>q. QED
    BY <2>1, <2>2, <2>3, Zenon DEF Inv, SignalInv
<1>6. AddressInv'
  <2>1. \A u \in Threads : pc[u] = "signal" => pc'[u] = "signal" /\ unparked'[u] = unparked[u]
    BY <1>p, Zenon
  <2>2. ASSUME NEW u \in address'
        PROVE  pc'[u] = "parked"
    BY <1>t, <1>p DEF Inv, AddressInv
  <2>3. ASSUME NEW u \in address'
        PROVE  IsIn(queue', u) \/ \E w \in Threads : pc'[w] = "signal" /\ unparked'[w] = u
    <3>1. CASE u = Head(queue)
      BY <3>1, <1>p, Zenon
    <3>2. CASE u # Head(queue)
      <4>1. IsIn(queue, u) \/ \E w \in Threads : pc[w] = "signal" /\ unparked[w] = u
        BY <1>p, Zenon DEF Inv, AddressInv
      <4>q. QED
        BY <3>2, <4>1, <2>1, <1>h, Zenon
    <3>q. QED
      BY <3>1, <3>2, Zenon
  <2>q. QED
    BY <2>2, <2>3, Zenon DEF AddressInv
<1>7. WordInv'
  BY <1>t, <1>h, <1>m, <1>p, <1>k, <1>o, <1>n, Zenon DEF Inv, TypeOK, WordInv
<1>8. WatchInv'
  <2>1. word.held
    BY <1>m, Zenon DEF Inv, HeldIsOwned
  <2>q. QED
    BY <2>1, Zenon DEF WatchInv
<1>9. [M!Next]_M!vars
  <2>1. owner = t /\ owner' = Head(queue)
    BY <1>2, <1>h, <1>m, <1>o, OwnerIs, OwnerIsNext, Zenon DEF Inv
  <2>2. {u \in Threads : Waits(u)}' = {u \in Threads : Waits(u)} \ {Head(queue)}
    BY <1>n, Zenon
  <2>3. Waits(Head(queue))
    BY <1>h, Zenon DEF Waits, Owns
  <2>4. M!HandOver(t, Head(queue))
    BY <2>1, <2>2, <2>3, <1>h, Zenon DEF M!HandOver
  <2>q. QED
    BY <2>4, <1>h, Zenon DEF M!Next
<1>q. QED
  BY <1>1, <1>2, <1>3, <1>4, <1>5, <1>6, <1>7, <1>8, <1>9, Zenon DEF Inv

(* unparkOne() that releases the lock preserves the invariant. *)
LEMMA BargeStep ==
    ASSUME Inv, NEW t \in Threads, pc[t] = "unpark", queue # <<>>, NEW more \in BOOLEAN, Tail(queue) # <<>> => more,
           word' = [word EXCEPT !.held = FALSE, !.parked = more],
           token' = [token EXCEPT ![Head(queue)] = "BargingOpportunity"],
           Dequeues(t)
    PROVE  Inv' /\ [M!Next]_M!vars
<1> USE LockAssumption
<1>t. /\ word \in Words /\ queue \in Seq(Threads) /\ pc \in [Threads -> Labels]
      /\ address \in SUBSET Threads /\ token \in [Threads -> Tokens]
         /\ unparked \in [Threads -> Threads \cup {NoThread}]
  BY Zenon DEF Inv, TypeOK, Labels
<1>h. /\ Head(queue) \in Threads /\ Head(queue) # t /\ queue' \in Seq(Threads)
      /\ pc[Head(queue)] = "parked" /\ Head(queue) \in address
         /\ token[Head(queue)] = "BargingOpportunity"
      /\ \A u : IsIn(queue', u) <=> u # Head(queue) /\ IsIn(queue, u)
      /\ IsIn(queue, Head(queue))
  BY <1>t, TailIsIn, Dequeued, Zenon DEF Inv, QueueInv, Dequeues
<1>m. Owns(t) /\ \A u \in Threads : Owns(u) => u = t
  BY Zenon DEF Owns, Inv, Mutual
<1>p. /\ pc'[t] = "signal" /\ \A u \in Threads : u # t => pc'[u] = pc[u]
      /\ pc' \in [Threads -> Labels]
      /\ unparked'[t] = Head(queue) /\ \A u \in Threads : u # t => unparked'[u] = unparked[u]
      /\ unparked' \in [Threads -> Threads \cup {NoThread}]
      /\ token' \in [Threads -> Tokens] /\ \A u \in Threads : u # Head(queue) => token'[u] = token[u]
      /\ UNCHANGED <<address, spinCount, expected, fairness, relock>> /\ fairTime' = FALSE
  BY <1>t, <1>h, Zenon DEF Goto, Labels, Dequeues, Tokens
<1>k. token'[Head(queue)] = "BargingOpportunity"
  BY <1>t, <1>h, Zenon
<1>w. word' \in Words /\ ~word'.held /\ (word'.parked <=> more)
  BY <1>t, Zenon DEF Words
<1>o. \A u \in Threads : Owns(u)' <=> FALSE
  BY <1>t, <1>p, <1>h, <1>m, <1>k, Zenon DEF Owns
<1>n. \A u \in Threads : Waits(u)' <=> Waits(u)
  BY <1>t, <1>p, <1>h, <1>m, <1>k, <1>o, Zenon DEF Waits, Owns
<1>1. TypeOK'
  BY <1>t, <1>h, <1>m, <1>p, <1>k, <1>w, <1>o, <1>n, Zenon DEF Inv, TypeOK, Labels, Tokens
<1>2. Mutual'
  BY <1>t, <1>h, <1>m, <1>p, <1>k, <1>w, <1>o, <1>n, Zenon DEF Inv, TypeOK, Mutual, HeldIsOwned
<1>3. HeldIsOwned'
  BY <1>t, <1>h, <1>m, <1>p, <1>k, <1>w, <1>o, <1>n, Zenon DEF Inv, TypeOK, HeldIsOwned, Mutual
<1>4. QueueInv'
  <2>1. \A i, j \in DOMAIN queue' : queue'[i] = queue'[j] => i = j
    BY <1>t, QueueStaysDistinct, Zenon DEF Inv, QueueInv, Dequeues
  <2>2. ASSUME NEW u \in Threads, IsIn(queue', u)
        PROVE  pc'[u] = "parked" /\ u \in address' /\ token'[u] = "BargingOpportunity"
    BY <2>2, <1>h, <1>p, Zenon DEF Inv, QueueInv
  <2>3. queue' # <<>> => word'.parked
    BY <1>w, Zenon DEF Inv, WordInv, Dequeues
  <2>q. QED
    BY <2>1, <2>2, <2>3, Zenon DEF QueueInv
<1>5. SignalInv'
  <2>1. ASSUME NEW u \in Threads, pc'[u] = "signal"
        PROVE  unparked'[u] \in address' /\ ~IsIn(queue', unparked'[u])
    BY <2>1, <1>h, <1>p, Zenon DEF Inv, SignalInv
  <2>2. ASSUME NEW u \in Threads, pc'[u] = "signal", u # t
        PROVE  pc[u] = "signal" /\ unparked'[u] = unparked[u] /\ unparked'[u] # Head(queue)
    BY <2>2, <1>h, <1>p DEF Inv, SignalInv
  <2>3. unparked'[t] = Head(queue)
    BY <1>p, Zenon
  <2>q. QED
    BY <2>1, <2>2, <2>3, Zenon DEF Inv, SignalInv
<1>6. AddressInv'
  <2>1. \A u \in Threads : pc[u] = "signal" => pc'[u] = "signal" /\ unparked'[u] = unparked[u]
    BY <1>p, Zenon
  <2>2. ASSUME NEW u \in address'
        PROVE  pc'[u] = "parked"
    BY <1>t, <1>p DEF Inv, AddressInv
  <2>3. ASSUME NEW u \in address'
        PROVE  IsIn(queue', u) \/ \E w \in Threads : pc'[w] = "signal" /\ unparked'[w] = u
    <3>1. CASE u = Head(queue)
      BY <3>1, <1>p, Zenon
    <3>2. CASE u # Head(queue)
      <4>1. IsIn(queue, u) \/ \E w \in Threads : pc[w] = "signal" /\ unparked[w] = u
        BY <1>p, Zenon DEF Inv, AddressInv
      <4>q. QED
        BY <3>2, <4>1, <2>1, <1>h, Zenon
    <3>q. QED
      BY <3>1, <3>2, Zenon
  <2>q. QED
    BY <2>2, <2>3, Zenon DEF AddressInv
<1>7. WordInv'
  <2>1. \A u \in Threads : pc'[u] \notin {"unpark", "unlockSlow"}
    BY <1>o, Zenon DEF Owns
  <2>q. QED
    BY <2>1, <1>p, Zenon DEF Inv, WordInv
<1>8. WatchInv'
  <2>1. Waits(Head(queue))
    BY <1>h, Zenon DEF Waits, Owns
  <2>q. QED
    BY <2>1, <1>n, <1>h, Zenon DEF WatchInv
<1>9. [M!Next]_M!vars
  BY <1>2, <1>m, <1>o, <1>n, Releases, Zenon DEF Inv, M!Next
<1>q. QED
  BY <1>1, <1>2, <1>3, <1>4, <1>5, <1>6, <1>7, <1>8, <1>9, Zenon DEF Inv

(* The signal at the end of unparkOne() preserves the invariant. *)
LEMMA SignalStep ==
    ASSUME Inv, NEW t \in Threads, signal(t)
    PROVE  Inv' /\ [M!Next]_M!vars
<1> USE LockAssumption
<1>t. /\ word \in Words /\ queue \in Seq(Threads) /\ pc \in [Threads -> Labels]
      /\ address \in SUBSET Threads /\ token \in [Threads -> Tokens]
         /\ unparked \in [Threads -> Threads \cup {NoThread}]
  BY Zenon DEF Inv, TypeOK, Labels
<1>p. /\ pc[t] = "signal" /\ pc'[t] = (IF relock[t] THEN "relock" ELSE "idle")
      /\ \A u \in Threads : u # t => pc'[u] = pc[u] /\ unparked'[u] = unparked[u]
      /\ pc' \in [Threads -> Labels] /\ unparked' \in [Threads -> Threads \cup {NoThread}]
      /\ unparked[t] \in address /\ address' = address \ {unparked[t]}
      /\ UNCHANGED <<word, queue, fairTime, token, spinCount, expected>>
  BY <1>t, Zenon DEF Goto, Labels, signal, AfterUnlock, Inv, SignalInv
<1>o. \A u \in Threads : Owns(u)' <=> Owns(u)
  BY <1>t, <1>p, Zenon DEF Owns
<1>n. \A u \in Threads : Waits(u)' <=> Waits(u)
  BY <1>t, <1>p, <1>o, Zenon DEF Waits, Owns
<1>1. TypeOK'
  <2>1. fairness' \in [Threads -> {"Fair", "Unfair"}] /\ relock' \in [Threads -> BOOLEAN]
    BY Zenon DEF Inv, TypeOK, AfterUnlock, signal
  <2>q. QED
    BY <2>1, <1>t, <1>p, Zenon DEF Inv, TypeOK, Labels
<1>2. Mutual'
  BY <1>t, <1>p, <1>o, <1>n, Zenon DEF Inv, TypeOK, Mutual, HeldIsOwned
<1>3. HeldIsOwned'
  BY <1>t, <1>p, <1>o, <1>n, Zenon DEF Inv, TypeOK, HeldIsOwned, Mutual
<1>4. QueueInv'
  <2>1. ~IsIn(queue, unparked[t])
    BY <1>p, Zenon DEF Inv, SignalInv
  <2>q. QED
    BY <2>1, <1>p, Zenon DEF Inv, QueueInv
<1>5. SignalInv'
  <2>1. ASSUME NEW u \in Threads, pc'[u] = "signal"
        PROVE  u # t /\ pc[u] = "signal" /\ unparked'[u] = unparked[u] /\ unparked[u] # unparked[t]
    BY <2>1, <1>p, Zenon DEF Inv, SignalInv
  <2>q. QED
    BY <2>1, <1>p, Zenon DEF Inv, SignalInv
<1>6. AddressInv'
  <2>1. ASSUME NEW u \in address'
        PROVE  pc'[u] = "parked"
    BY <1>t, <1>p, Zenon DEF Inv, AddressInv
  <2>2. \A u \in Threads : pc[u] = "signal" /\ unparked[u] # unparked[t] => pc'[u] = "signal" /\ unparked'[u] = unparked[u]
    BY <1>p, Zenon
  <2>q. QED
    BY <2>1, <2>2, <1>p DEF Inv, AddressInv
<1>7. WordInv'
  BY <1>t, <1>p, <1>o, <1>n, Zenon DEF Inv, TypeOK, WordInv
<1>8. WatchInv'
  BY <1>t, <1>p, <1>o, <1>n, Zenon DEF Inv, TypeOK, WatchInv, QueueInv
<1>9. [M!Next]_M!vars
  BY <1>2, <1>o, <1>n, Invisible, Zenon DEF Inv
<1>q. QED
  BY <1>1, <1>2, <1>3, <1>4, <1>5, <1>6, <1>7, <1>8, <1>9, Zenon DEF Inv

-----------------------------------------------------------------------------
(* The lock *)

(* A free lock that nobody waits for satisfies the invariant. *)
LEMMA InitInv == Init => Inv
<1> SUFFICES ASSUME Init PROVE Inv
  BY Zenon
<1> USE LockAssumption DEF Init, Zero
<1>1. word \in Words /\ ~word.held
  BY DEF Words
<1>2. \A t \in Threads : ~Owns(t)
  BY Zenon DEF Owns
<1>3. TypeOK
  BY <1>1 DEF TypeOK, Tokens, Words
<1>4. Mutual /\ HeldIsOwned
  BY <1>1, <1>2, Zenon DEF Mutual, HeldIsOwned
<1>5. QueueInv /\ SignalInv /\ AddressInv /\ WordInv /\ WatchInv
  BY DEF QueueInv, SignalInv, AddressInv, WordInv, WatchInv, IsIn
<1>q. QED
  BY <1>3, <1>4, <1>5, Zenon DEF Inv

(* Every step a thread takes inside the lock preserves the invariant. *)
LEMMA ThreadStep ==
    ASSUME Inv, NEW t \in Threads,
           \/ lockFast(t) \/ tryLock(t) \/ Unlock(t) \/ lockSlow(t) \/ park(t) \/ wakeUp(t)
           \/ unlockSlow(t) \/ unparkOne(t) \/ signal(t)
    PROVE  Inv' /\ [M!Next]_M!vars
<1> USE LockAssumption
<1>t. /\ spinCount \in [Threads -> 0 .. SpinLimit] /\ fairness \in [Threads -> {"Fair", "Unfair"}]
      /\ relock \in [Threads -> BOOLEAN]
  BY Zenon DEF Inv, TypeOK
<1>1. CASE lockFast(t)
  <2>1. spinCount' \in [Threads -> 0 .. SpinLimit]
    BY <1>1, <1>t DEF lockFast
  <2>2. CASE word' = lockHook(word) /\ ~word.held /\ Goto(t, "held")
    BY <1>1, <2>1, <2>2, AcquireStep, Zenon DEF lockFast
  <2>3. CASE Goto(t, "lockSlow") /\ UNCHANGED word
    BY <1>1, <2>1, <2>3, MoveStep, Zenon DEF lockFast
  <2>q. QED
    BY <1>1, <2>2, <2>3 DEF lockFast, Zero
<1>2. CASE tryLock(t)
  BY <1>2, <1>t, AcquireStep, Zenon DEF tryLock
<1>3. ASSUME NEW fair \in {"Fair", "Unfair"}, NEW again \in BOOLEAN, unlockFast(t, fair, again)
      PROVE  Inv' /\ [M!Next]_M!vars
  <2>1. CASE ~word.parked /\ word' = [word EXCEPT !.held = FALSE] /\ AfterUnlock(t, again)
    BY <1>3, <2>1, ReleaseStep, Zenon DEF unlockFast
  <2>2. CASE /\ AssumingZero \/ word.parked
             /\ fairness' = [fairness EXCEPT ![t] = fair]
             /\ relock' = [relock EXCEPT ![t] = again]
             /\ Goto(t, "unlockSlow") /\ UNCHANGED word
    <3>1. fairness' \in [Threads -> {"Fair", "Unfair"}] /\ relock' \in [Threads -> BOOLEAN]
      BY <2>2, <1>t, Zenon
    <3>q. QED
      BY <1>3, <2>2, <3>1, GoSlowStep, Zenon DEF unlockFast
  <2>q. QED
    BY <1>3, <2>1, <2>2, Zenon DEF unlockFast
<1>4. CASE Unlock(t)
  BY <1>3, <1>4, Zenon DEF Unlock, unlock, unlockFairly, safepoint
<1>5. CASE lockSlow(t)
  <2>1. CASE ~word.held /\ word' = lockHook(word) /\ spinCount' = [spinCount EXCEPT ![t] = 0]
             /\ Goto(t, "held") /\ UNCHANGED expected
    <3>1. spinCount' \in [Threads -> 0 .. SpinLimit]
      BY <2>1, <1>t
    <3>q. QED
      BY <1>5, <2>1, <3>1, AcquireStep, Zenon DEF lockSlow
  <2>2. CASE spinCount[t] < SpinLimit /\ spinCount' = [spinCount EXCEPT ![t] = @ + 1]
             /\ UNCHANGED <<word, pc, expected>>
    <3>1. spinCount' \in [Threads -> 0 .. SpinLimit]
      BY <2>2, <1>t
    <3>q. QED
      BY <1>5, <2>2, <3>1, SpinStep, Zenon DEF lockSlow
  <2>3. CASE /\ word.held /\ word' = [word EXCEPT !.parked = TRUE]
             /\ expected' = [expected EXCEPT ![t] = word'] /\ Goto(t, "park") /\ UNCHANGED spinCount
    BY <1>5, <2>3, SetParkedStep, Zenon DEF lockSlow
  <2>q. QED
    BY <1>5, <2>1, <2>2, <2>3, Zenon DEF lockSlow
<1>6. CASE park(t)
  <2>1. CASE word = expected[t]
    BY <1>6, <2>1, ParkStep, Zenon DEF park, Parks
  <2>2. CASE word # expected[t]
    BY <1>6, <2>2, InvalidStep, Zenon DEF park, Parks
  <2>q. QED
    BY <2>1, <2>2, Zenon
<1>7. CASE wakeUp(t)
  BY <1>7, WakeUpStep, Zenon
<1>8. CASE unlockSlow(t)
  <2>1. relock[t] \in BOOLEAN
    BY <1>t, Zenon
  <2>2. CASE ~word.parked /\ word' = [word EXCEPT !.held = FALSE] /\ AfterUnlock(t, relock[t])
    BY <1>8, <2>1, <2>2, ReleaseStep, Zenon DEF unlockSlow
  <2>3. CASE word.parked /\ Goto(t, "unpark") /\ UNCHANGED <<word, fairness, relock>>
    BY <1>8, <2>3, GoUnparkStep, Zenon DEF unlockSlow
  <2>q. QED
    BY <1>8, <2>2, <2>3, Zenon DEF unlockSlow
<1>9. CASE unparkOne(t)
  <2>1. CASE queue = <<>>
    BY <1>9, <2>1, UnparkNoneStep, Zenon DEF unparkOne
  <2>2. CASE queue # <<>> /\ directHandoff(t)
    BY <1>9, <2>2, HandOverStep, Zenon DEF unparkOne, wordAfterDequeue, Dequeues
  <2>3. CASE queue # <<>> /\ ~directHandoff(t)
    <3>1. PICK others \in BOOLEAN : word' = [word EXCEPT !.held = FALSE, !.parked = Tail(queue) # <<>> \/ others]
      BY <1>9, <2>3, Zenon DEF unparkOne, wordAfterDequeue
    <3>2. /\ pc[t] = "unpark" /\ Dequeues(t)
          /\ token' = [token EXCEPT ![Head(queue)] = "BargingOpportunity"]
      BY <1>9, <2>3, Zenon DEF unparkOne, Dequeues
    <3>3. (Tail(queue) # <<>> \/ others) \in BOOLEAN
      BY Zenon
    <3>q. QED
      BY <2>3, <3>1, <3>2, <3>3, BargeStep, Zenon
  <2>q. QED
    BY <2>1, <2>2, <2>3, Zenon
<1>10. CASE signal(t)
  BY <1>10, SignalStep, Zenon
<1>q. QED
  BY <1>1, <1>2, <1>4, <1>5, <1>6, <1>7, <1>8, <1>9, <1>10, Zenon

(* So does every step of the lock. *)
LEMMA InvStep == Inv /\ [Next]_vars => Inv' /\ [M!Next]_M!vars
<1> SUFFICES ASSUME Inv, [Next]_vars PROVE Inv' /\ [M!Next]_M!vars
  BY Zenon
<1>1. CASE tick
  BY <1>1, TickStep, Zenon
<1>2. CASE UNCHANGED vars
  BY <1>2 DEF vars, Inv, TypeOK, Mutual, Owns, HeldIsOwned, QueueInv, SignalInv, AddressInv,
     WordInv,
     WatchInv, Waits, M!vars, owner
<1>q. QED
  BY <1>1, <1>2, ThreadStep, Zenon DEF Next

(* The invariant holds in every state of the lock. *)
THEOREM LockInvariant == Spec => []Inv
<1>q. QED
  BY InitInv, InvStep, PTL DEF Spec

(* The invariant implies that lockSlow() and unlockSlow() lose no wake-up. *)
LEMMA InvWakesUp == Inv => NoLostWakeUp
<1> SUFFICES ASSUME Inv PROVE NoLostWakeUp
  BY Zenon
<1>1. queue # <<>> => word.parked
  BY Zenon DEF Inv, QueueInv
<1>2. ASSUME queue # <<>>, ~word.held
      PROVE  \E t \in Threads : Waits(t) /\ \A i \in DOMAIN queue : queue[i] # t
  BY <1>2, Zenon DEF Inv, WatchInv, IsIn
<1>3. \A t \in address :
         \/ \E i \in DOMAIN queue : queue[i] = t
         \/ \E u \in Threads : pc[u] = "signal" /\ unparked[u] = t
  BY Zenon DEF Inv, AddressInv, IsIn
<1>q. QED
  BY <1>1, <1>2, <1>3, Zenon DEF NoLostWakeUp

(* No thread that parks in lockSlow() is forgotten: while it is queued the *)
(* owner will see the parked bit or another thread is up, and once it is   *)
(* dequeued somebody is about to wake it.                                  *)
THEOREM NoWakeUpIsLost == Spec => []NoLostWakeUp
<1>q. QED
  BY InvWakesUp, LockInvariant, PTL

(* The assertions of lockSlow() and unlockSlow() hold. *)
THEOREM LockAsserts == Spec => []AssertsHold
<1>1. Inv => AssertsHold
  BY Zenon DEF Inv, HeldIsOwned, WordInv, AssertsHold
<1>q. QED
  BY <1>1, LockInvariant, PTL

(* lock(), unlock() and safepoint() implement a mutex: every step of the *)
(* word, the queue and the sleepers is a step of Mutex or invisible.     *)
THEOREM LockIsMutex == Spec => ImplementsMutex
<1>1. Init => M!Init
  BY Zenon DEF Init, M!Init, owner, Owns, Waits
<1>2. Inv /\ [Next]_vars => [M!Next]_M!vars
  BY InvStep, Zenon
<1>q. QED
  BY <1>1, <1>2, LockInvariant, PTL DEF Spec, ImplementsMutex, M!Spec

-----------------------------------------------------------------------------
(* Optimistic reads *)

\* The steps of LockAlgorithm in LockStep: a thread that reads does not lock.
Steps ==
    tick \/ \E t \in Threads :
         \/ reading[t] = "no" /\ (lockFast(t) \/ tryLock(t))
         \/ Unlock(t) \/ lockSlow(t) \/ park(t) \/ wakeUp(t)
         \/ unlockSlow(t) \/ unparkOne(t) \/ signal(t)

\* While func() runs, the count in the word tells how often the lock has been
\* acquired, up to the modulus; as long as it has not been, it is free and the
\* data is as it was.
ReadInv ==
    \A t \in Threads :
        /\ reading[t] # "no" => pc[t] = "idle"
        /\ reading[t] = "no" => acquisitions[t] = 0 /\ t \notin modified
        /\ reading[t] = "func" /\ acquisitions[t] < CountModulus =>
             /\ \/ word.count = count[t] + acquisitions[t]
                \/ word.count = count[t] + acquisitions[t] - CountModulus
             /\ acquisitions[t] = 0 => ~word.held /\ t \notin modified

CountInv == Inv /\ CountTypeOK /\ ReadInv /\ ValidatedReadIsClean

(* lockHook() counts an acquisition of a free word, and nothing else changes *)
(* the count; a reading thread takes no step in the lock.                    *)
LEMMA CountChange ==
    ASSUME Inv, ReadInv, Steps
    PROVE  /\ \/ ~word.held /\ word'.held /\ word'.count = (word.count + 1) % CountModulus
              \/ (word'.held => word.held) /\ word'.count = word.count
           /\ \A r \in Threads : reading[r] # "no" => pc'[r] = pc[r]
<1>t. word \in Words /\ pc \in [Threads -> Labels]
  BY Zenon DEF Inv, TypeOK, Labels
<1>w. /\ lockHook(word).held /\ lockHook(word).count = (word.count + 1) % CountModulus
      /\ [word EXCEPT !.parked = TRUE].held = word.held
         /\ [word EXCEPT !.parked = TRUE].count = word.count
      /\ ~[word EXCEPT !.held = FALSE].held /\ [word EXCEPT !.held = FALSE].count = word.count
      /\ \A b \in BOOLEAN : /\ ~[word EXCEPT !.held = FALSE, !.parked = b].held
                            /\ [word EXCEPT !.held = FALSE, !.parked = b].count = word.count
  BY <1>t, Zenon DEF lockHook, Words
<1>1. CASE tick
  BY <1>1, Zenon DEF tick
<1>2. ASSUME NEW t \in Threads, reading[t] = "no", lockFast(t) \/ tryLock(t)
      PROVE  /\ \/ ~word.held /\ word'.held /\ word'.count = (word.count + 1) % CountModulus
                \/ (word'.held => word.held) /\ word'.count = word.count
             /\ \A r \in Threads : reading[r] # "no" => pc'[r] = pc[r]
  <2>1. \A r \in Threads : reading[r] # "no" => pc'[r] = pc[r]
    BY <1>2, <1>t, Zenon DEF lockFast, tryLock, Goto
  <2>2. word' = word \/ (~word.held /\ word' = lockHook(word))
    BY <1>2 DEF lockFast, tryLock, Zero
  <2>q. QED
    BY <1>w, <2>1, <2>2, Zenon
<1>3. ASSUME NEW t \in Threads, Unlock(t) \/ lockSlow(t) \/ park(t) \/ wakeUp(t)
                                \/ unlockSlow(t) \/ unparkOne(t) \/ signal(t)
      PROVE  /\ \/ ~word.held /\ word'.held /\ word'.count = (word.count + 1) % CountModulus
                \/ (word'.held => word.held) /\ word'.count = word.count
             /\ \A r \in Threads : reading[r] # "no" => pc'[r] = pc[r]
  <2>1. pc[t] # "idle" /\ \A u \in Threads : u # t => pc'[u] = pc[u]
    BY <1>3, <1>t, Zenon DEF Unlock, unlock, unlockFairly, safepoint, unlockFast, lockSlow, park,
       wakeUp, unlockSlow,
       unparkOne, signal, AfterUnlock, Goto
  <2>2. \A r \in Threads : reading[r] # "no" => pc'[r] = pc[r]
    BY <2>1, Zenon DEF ReadInv
  <2>3. \/ word' = word
        \/ ~word.held /\ word' = lockHook(word)
        \/ word' = [word EXCEPT !.parked = TRUE]
        \/ word' = [word EXCEPT !.held = FALSE]
        \/ \E b \in BOOLEAN : word' = [word EXCEPT !.held = FALSE, !.parked = b]
    <3>1. CASE unparkOne(t)
      <4>1. CASE queue = <<>>
        BY <3>1, <4>1, Zenon DEF unparkOne
      <4>2. CASE queue # <<>>
        <5>1. PICK others \in BOOLEAN : word' = wordAfterDequeue(directHandoff(t), others)
          BY <3>1, <4>2, Zenon DEF unparkOne
        <5>2. (Tail(queue) # <<>> \/ others) \in BOOLEAN
          BY Zenon
        <5>q. QED
          BY <5>1, <5>2, Zenon DEF wordAfterDequeue
      <4>q. QED
        BY <4>1, <4>2, Zenon
    <3>2. CASE ~unparkOne(t)
      BY <1>3, <3>2, Zenon DEF Unlock, unlock, unlockFairly, safepoint, unlockFast, lockSlow, park,
         wakeUp,
         unlockSlow, signal
    <3>q. QED
      BY <3>1, <3>2, Zenon
  <2>q. QED
    BY <1>w, <2>2, <2>3, Zenon
<1>q. QED
  BY <1>1, <1>2, <1>3, Zenon DEF Steps

(* A step of the lock keeps what the readers rely on. *)
LEMMA LockStepReads ==
    ASSUME CountInv, LockStep
    PROVE  CountInv'
<1> USE LockAssumption
<1>1. Inv'
  BY TickStep, ThreadStep, Zenon DEF LockStep, CountInv
<1>t. /\ word.count \in 0 .. CountModulus - 1 /\ reading \in [Threads -> {"no", "func", "validated"}]
      /\ count \in [Threads -> 0 .. CountModulus - 1] /\ acquisitions \in [Threads -> 0 .. CountModulus]
      /\ modified \in SUBSET Threads
  BY Zenon DEF CountInv, Inv, TypeOK, CountTypeOK, Words
<1>2. /\ \/ ~word.held /\ word'.held /\ word'.count = (word.count + 1) % CountModulus
         \/ (word'.held => word.held) /\ word'.count = word.count
      /\ \A r \in Threads : reading[r] # "no" => pc'[r] = pc[r]
  BY CountChange, Zenon DEF CountInv, LockStep, Steps
<1>3. /\ UNCHANGED <<reading, count, modified>>
      /\ \A r \in Threads : acquisitions'[r] =
           IF reading[r] = "func" /\ word'.held /\ ~word.held /\ acquisitions[r] < CountModulus
           THEN acquisitions[r] + 1 ELSE acquisitions[r]
      /\ acquisitions' \in [Threads -> 0 .. CountModulus]
  BY <1>t DEF LockStep, Counted
<1>4. CountTypeOK'
  BY <1>3, <1>t, Zenon DEF CountTypeOK
<1>5. ValidatedReadIsClean'
  BY <1>3, Zenon DEF CountInv, ValidatedReadIsClean
<1>6. ASSUME NEW r \in Threads, reading[r] = "func", acquisitions'[r] < CountModulus
      PROVE  /\ \/ word'.count = count[r] + acquisitions'[r]
                \/ word'.count = count[r] + acquisitions'[r] - CountModulus
             /\ acquisitions'[r] = 0 => ~word'.held /\ r \notin modified
  <2>1. CASE ~word.held /\ word'.held /\ word'.count = (word.count + 1) % CountModulus
    <3>1. acquisitions'[r] = acquisitions[r] + 1 /\ acquisitions[r] < CountModulus
      BY <1>3, <1>6, <1>t, <2>1, Zenon
    <3>2. word'.count = IF word.count + 1 = CountModulus THEN 0 ELSE word.count + 1
      BY <2>1, <1>t, ModSucc, Zenon
    <3>3. /\ count[r] \in 0 .. CountModulus - 1 /\ acquisitions[r] \in 0 .. CountModulus
          /\ \/ word.count = count[r] + acquisitions[r]
             \/ word.count = count[r] + acquisitions[r] - CountModulus
      BY <1>6, <3>1, <1>t, Zenon DEF CountInv, ReadInv
    <3>q. QED
      BY <1>t, <3>1, <3>2, <3>3
  <2>2. CASE (word'.held => word.held) /\ word'.count = word.count
    <3>1. acquisitions'[r] = acquisitions[r]
      BY <1>3, <2>2, Zenon
    <3>q. QED
      BY <3>1, <2>2, <1>6, Zenon DEF CountInv, ReadInv
  <2>q. QED
    BY <1>2, <2>1, <2>2, Zenon
<1>7. ReadInv'
  <2>1. ASSUME NEW r \in Threads, reading[r] = "no"
        PROVE  acquisitions'[r] = 0 /\ r \notin modified'
    BY <2>1, <1>3, Zenon DEF CountInv, ReadInv
  <2>2. ASSUME NEW r \in Threads, reading[r] # "no"
        PROVE  pc'[r] = "idle"
    BY <2>2, <1>2, Zenon DEF CountInv, ReadInv
  <2>q. QED
    BY <1>3, <1>6, <2>1, <2>2, Zenon DEF ReadInv
<1>q. QED
  BY <1>1, <1>4, <1>5, <1>7, Zenon DEF CountInv

(* A failed read calls lock(). *)
LEMMA RelockStep ==
    ASSUME Inv, NEW t \in Threads, pc[t] = "idle", Goto(t, "relock"),
           UNCHANGED <<word, queue, fairTime, address, token, spinCount, expected, fairness, relock, unparked>>
    PROVE  Inv'
<1>1. spinCount' \in [Threads -> 0 .. SpinLimit]
  BY Zenon DEF Inv, TypeOK
<1>q. QED
  BY <1>1, MoveStep, Zenon

(* The reader's own steps, and the owner's changes of the data, keep what the *)
(* readers rely on.                                                           *)
LEMMA ReadStep ==
    ASSUME CountInv, NEW t \in Threads,
           tryOptimisticRead(t) \/ validate(t) \/ returnResult(t) \/ modify(t)
    PROVE  CountInv'
<1> USE LockAssumption
<1>t. /\ word.count \in 0 .. CountModulus - 1 /\ reading \in [Threads -> {"no", "func", "validated"}]
      /\ count \in [Threads -> 0 .. CountModulus - 1] /\ acquisitions \in [Threads -> 0 .. CountModulus]
      /\ modified \in SUBSET Threads /\ pc \in [Threads -> Labels]
  BY Zenon DEF CountInv, Inv, TypeOK, CountTypeOK, Words, Labels
<1>1. CASE tryOptimisticRead(t) /\ word.held
  <2>1. Inv'
    BY <1>1, RelockStep, Zenon DEF tryOptimisticRead, CountInv
  <2>2. /\ UNCHANGED <<reading, count, modified, acquisitions, word>> /\ reading[t] = "no"
        /\ \A u \in Threads : u # t => pc'[u] = pc[u]
    BY <1>1, <1>t, Zenon DEF tryOptimisticRead, readVars, Goto
  <2>3. CountTypeOK' /\ ValidatedReadIsClean'
    BY <2>2, Zenon DEF CountInv, CountTypeOK, ValidatedReadIsClean
  <2>4. ReadInv'
    BY <2>2, Zenon DEF CountInv, ReadInv
  <2>q. QED
    BY <2>1, <2>3, <2>4, Zenon DEF CountInv
<1>2. CASE tryOptimisticRead(t) /\ ~word.held
  <2>1. /\ UNCHANGED vars /\ UNCHANGED <<modified, acquisitions>>
        /\ pc[t] = "idle" /\ reading[t] = "no"
        /\ reading'[t] = "func" /\ count'[t] = word.count
        /\ \A u \in Threads : u # t => reading'[u] = reading[u] /\ count'[u] = count[u]
        /\ reading' \in [Threads -> {"no", "func", "validated"}]
           /\ count' \in [Threads -> 0 .. CountModulus - 1]
    BY <1>2, <1>t, Zenon DEF tryOptimisticRead, vars
  <2>2. Inv'
    BY <2>1, InvStep, Zenon DEF CountInv
  <2>3. UNCHANGED <<word, pc>>
    BY <2>1, Zenon DEF vars
  <2>4. CountTypeOK' /\ ValidatedReadIsClean'
    BY <2>1, <1>t, Zenon DEF CountInv, CountTypeOK, ValidatedReadIsClean
  <2>5. acquisitions[t] = 0 /\ t \notin modified
    BY <2>1, Zenon DEF CountInv, ReadInv
  <2>6. ReadInv'
    BY <1>2, <1>t, <2>1, <2>3, <2>5 DEF CountInv, ReadInv
  <2>q. QED
    BY <2>2, <2>4, <2>6, Zenon DEF CountInv
<1>3. CASE validate(t) /\ word.count = count[t]
  <2>1. /\ UNCHANGED vars /\ UNCHANGED <<count, modified, acquisitions>> /\ reading[t] = "func"
        /\ reading'[t] = "validated" /\ \A u \in Threads : u # t => reading'[u] = reading[u]
        /\ reading' \in [Threads -> {"no", "func", "validated"}]
    BY <1>3, <1>t, Zenon DEF validate, vars
  <2>2. Inv'
    BY <2>1, InvStep, Zenon DEF CountInv
  <2>3. UNCHANGED <<word, pc>>
    BY <2>1, Zenon DEF vars
  <2>4. acquisitions[t] < CountModulus => t \notin modified
    <3>1. /\ count[t] \in 0 .. CountModulus - 1 /\ acquisitions[t] \in 0 .. CountModulus
      BY <1>t, Zenon
    <3>2. acquisitions[t] < CountModulus =>
            /\ \/ word.count = count[t] + acquisitions[t]
               \/ word.count = count[t] + acquisitions[t] - CountModulus
            /\ acquisitions[t] = 0 => t \notin modified
      BY <2>1, Zenon DEF CountInv, ReadInv
    <3>3. CountModulus \in Nat /\ word.count = count[t]
      BY <1>3, Zenon
    <3>4. acquisitions[t] < CountModulus => acquisitions[t] = 0
      BY <3>1, <3>2, <3>3
    <3>q. QED
      BY <3>2, <3>4, Zenon
  <2>5. CountTypeOK' /\ ValidatedReadIsClean'
    BY <2>1, <2>4, <1>t, Zenon DEF CountInv, CountTypeOK, ValidatedReadIsClean
  <2>6. ReadInv'
    BY <2>1, <2>3, Zenon DEF CountInv, ReadInv
  <2>q. QED
    BY <2>2, <2>5, <2>6, Zenon DEF CountInv
<1>4. ASSUME ReadEnds(t), UNCHANGED word, Inv', \A u \in Threads : u # t => pc'[u] = pc[u]
      PROVE  CountInv'
  <2>1. /\ reading'[t] = "no" /\ acquisitions'[t] = 0 /\ t \notin modified'
        /\ \A u \in Threads : u # t => /\ reading'[u] = reading[u] /\ count'[u] = count[u]
                                       /\ acquisitions'[u] = acquisitions[u]
                                       /\ u \in modified' <=> u \in modified
        /\ CountTypeOK'
    BY <1>4, <1>t DEF ReadEnds, CountTypeOK
  <2>2. ValidatedReadIsClean'
    BY <2>1, Zenon DEF CountInv, ValidatedReadIsClean
  <2>3. ReadInv'
    BY <2>1, <1>4, Zenon DEF CountInv, ReadInv
  <2>q. QED
    BY <1>4, <2>1, <2>2, <2>3, Zenon DEF CountInv
<1>5. CASE validate(t) /\ word.count # count[t]
  <2>1. pc[t] = "idle"
    BY <1>5, Zenon DEF validate, CountInv, ReadInv
  <2>2. Inv'
    BY <1>5, <2>1, RelockStep, Zenon DEF validate, CountInv
  <2>3. \A u \in Threads : u # t => pc'[u] = pc[u]
    BY <1>5, <1>t, Zenon DEF validate, Goto
  <2>q. QED
    BY <1>4, <1>5, <2>2, <2>3, Zenon DEF validate
<1>6. CASE returnResult(t)
  <2>1. Inv'
    BY <1>6, InvStep, Zenon DEF returnResult, CountInv
  <2>q. QED
    BY <1>4, <1>6, <2>1, Zenon DEF returnResult, vars
<1>7. CASE modify(t)
  <2>1. /\ UNCHANGED vars /\ UNCHANGED <<reading, count, acquisitions>>
        /\ \A u \in Threads : u \in modified' <=> u \in modified \/ reading[u] = "func"
        /\ modified' \in SUBSET Threads
    BY <1>7, <1>t, Zenon DEF modify
  <2>2. Inv'
    BY <2>1, InvStep, Zenon DEF CountInv
  <2>3. word.held
    BY <1>7, Zenon DEF modify, CountInv, Inv, HeldIsOwned, Owns
  <2>4. CountTypeOK' /\ ValidatedReadIsClean'
    BY <2>1, Zenon DEF CountInv, CountTypeOK, ValidatedReadIsClean
  <2>5. ReadInv'
    BY <2>1, <2>3, Zenon DEF CountInv, ReadInv, vars
  <2>q. QED
    BY <2>2, <2>4, <2>5, Zenon DEF CountInv
<1>q. QED
  BY <1>1, <1>2, <1>3, <1>5, <1>6, <1>7, Zenon

(* The invariant of the lock and of its optimistic readers. *)
THEOREM CountInvariant == CountSpec => []CountInv
<1>1. CountInit => CountInv
  <2> SUFFICES ASSUME CountInit PROVE CountInv
    BY Zenon
  <2>1. Inv
    BY InitInv, Zenon DEF CountInit
  <2>2. CountTypeOK /\ ReadInv /\ ValidatedReadIsClean
    BY LockAssumption DEF CountInit, Init, CountTypeOK, ReadInv, ValidatedReadIsClean
  <2>q. QED
    BY <2>1, <2>2, Zenon DEF CountInv
<1>2. CountInv /\ [CountNext]_allVars => CountInv'
  <2> SUFFICES ASSUME CountInv, [CountNext]_allVars PROVE CountInv'
    BY Zenon
  <2>1. CASE UNCHANGED allVars
    <3>1. UNCHANGED vars /\ UNCHANGED <<reading, count, modified, acquisitions>>
      BY <2>1, Zenon DEF allVars, readVars
    <3>2. Inv'
      BY <3>1, InvStep, Zenon DEF CountInv
    <3>3. UNCHANGED <<word, pc>>
      BY <3>1, Zenon DEF vars
    <3>q. QED
      BY <3>1, <3>2, <3>3, Zenon DEF CountInv, CountTypeOK, ReadInv, ValidatedReadIsClean
  <2>q. QED
    BY <2>1, LockStepReads, ReadStep, Zenon DEF CountNext
<1>q. QED
  BY <1>1, <1>2, PTL DEF CountSpec

(* doOptimizedRead() never returns what func() read while the data changed,  *)
(* unless the lock was acquired a whole round of the count during the read.  *)
THEOREM ValidatedReads == CountSpec => []ValidatedReadIsClean
<1>q. QED
  BY CountInvariant, PTL DEF CountInv

(* Optimistic readers do not disturb the lock: no wake-up is lost. *)
THEOREM ReadersLoseNoWakeUp == CountSpec => []NoLostWakeUp
<1>q. QED
  BY CountInvariant, InvWakesUp, PTL DEF CountInv

(* The assertions of lockSlow() and unlockSlow() hold for both locks, readers  *)
(* included, and with CountingLock's fast paths, which never assume the count  *)
(* zero, the word fits the byte that unlockSlow() exchanges it by.             *)
THEOREM LockAssertions == CountSpec => []AssertionsHold
<1>1. Inv => AssertsHold
  BY Zenon DEF Inv, HeldIsOwned, WordInv, AssertsHold
<1>2. CountInv /\ ~AssumingZero => SlowReleaseFitsByte
  BY Zenon DEF CountInv, Inv, WordInv, SlowReleaseFitsByte
<1>3. CountInv => AssertionsHold
  BY <1>1, <1>2, Zenon DEF CountInv, AssertionsHold
<1>q. QED
  BY <1>3, CountInvariant, PTL

=============================================================================

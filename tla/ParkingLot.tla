----------------------------- MODULE ParkingLot -----------------------------
(***************************************************************************)
(* ParkingLot.cpp: threads park on addresses in hashed buckets, the table  *)
(* of buckets grows while threads are parked, and parks may time out.  A   *)
(* critical section of one bucket lock is one step; locking the whole      *)
(* table takes one step for each bucket.                                   *)
(***************************************************************************)
EXTENDS Naturals, Sequences, FiniteSets, SequencesExt

CONSTANTS
    Threads, NoThread, Addresses,
    Parkers, Unparkers, Walkers,   \* the threads that park, unpark and call forEach
    Timeouts,                      \* the threads that park with a finite timeout
    Hash,                          \* hashAddress
    MaxLoadFactor, GrowthFactor,   \* 3 and 2 in the code
    MaxBuckets                     \* bound on the buckets that exist

ASSUME ParkingLotAssumption ==
    /\ NoThread \notin Threads
    /\ UNION {Parkers, Unparkers, Walkers, Timeouts} \subseteq Threads
    /\ Hash \in [Addresses -> Nat]
    /\ MaxLoadFactor \in Nat \ {0} /\ GrowthFactor \in Nat \ {0}
    /\ MaxBuckets \in Nat

VARIABLES
    tables,       \* every Hashtable ever installed; the last one is current
    bucketQueue,  \* the queue of each Bucket, by bucket (its address)
    lockedBy,     \* which lockHashtable() holds the bucket's lock
    buckets,      \* how many buckets have been allocated
    numThreads,
    registered,   \* threads with a ThreadData
    address,      \* ThreadData::address
    pc,
    op,           \* the call: what and on which address
    table, bucket, \* locals myHashtable (an index of tables) and bucket
    wanted,       \* local currentNumThreads of the ThreadData constructor
    targets,      \* threads dequeued and still to be signalled
    owed          \* threads parked on the address when an unpark began, still queued

vars == <<tables, bucketQueue, lockedBy, buckets, numThreads, registered, address,
          pc, op, table, bucket, wanted, targets, owed>>

NoAddress == "null"
NoOp == [kind |-> "none", address |-> NoAddress]
Buckets == 1 .. MaxBuckets
Unparks == {"unparkOne", "unparkAll"}

TypeOK ==
    /\ \A i \in DOMAIN tables :
         tables[i].data \in [0 .. tables[i].size - 1 -> 0 .. MaxBuckets]
    /\ bucketQueue \in [Buckets -> Seq(Threads)]
    /\ lockedBy \in [Buckets -> Threads \cup {NoThread}]
    /\ buckets \in 0 .. MaxBuckets
    /\ numThreads = Cardinality(registered)
    /\ address \in [Threads -> Addresses \cup {NoAddress}]
    /\ op \in [Threads -> [kind : {"none", "park", "self", "forEach"} \cup Unparks,
                           address : Addresses \cup {NoAddress}]]
    /\ table \in [Threads -> 0 .. Len(tables)]
    /\ bucket \in [Threads -> 0 .. MaxBuckets]
    /\ targets \in [Threads -> Seq(Threads)]
    /\ owed \in [Threads -> SUBSET Threads]

Init ==
    /\ tables = <<>>
    /\ bucketQueue = [b \in Buckets |-> <<>>]
    /\ lockedBy = [b \in Buckets |-> NoThread]
    /\ buckets = 0
    /\ numThreads = 0
    /\ registered = {}
    /\ address = [t \in Threads |-> NoAddress]
    /\ pc = [t \in Threads |-> "idle"]
    /\ op = [t \in Threads |-> NoOp]
    /\ table = [t \in Threads |-> 0]
    /\ bucket = [t \in Threads |-> 0]
    /\ wanted = [t \in Threads |-> 0]
    /\ targets = [t \in Threads |-> <<>>]
    /\ owed = [t \in Threads |-> {}]

Goto(t, label) == pc' = [pc EXCEPT ![t] = label]

Current == tables[Len(tables)]
IndexOf(h, a) == Hash[a] % h.size
Members(q) == {q[i] : i \in DOMAIN q}

\* The abstract queue of an address: its threads in the bucket it hashes to.
QueueOf(a) ==
    LET b == IF tables = <<>> THEN 0 ELSE Current.data[IndexOf(Current, a)]
    IN  IF b = 0 THEN <<>> ELSE SelectSeq(bucketQueue[b], LAMBDA t : address[t] = a)

----------------------------------------------------------------------------
(* Calls *)

\* parkConditionally: the first one of a thread constructs its ThreadData.
park(t, a) ==
    /\ t \in Parkers /\ pc[t] = "idle" /\ address[t] = NoAddress
    /\ op' = [op EXCEPT ![t] = [kind |-> "park", address |-> a]]
    /\ IF t \in registered
         THEN Goto(t, "load") /\ UNCHANGED <<numThreads, registered, wanted>>
         ELSE /\ numThreads' = numThreads + 1
              /\ registered' = registered \cup {t}
              /\ wanted' = [wanted EXCEPT ![t] = numThreads + 1]
              /\ Goto(t, "ensureSize")
    /\ UNCHANGED <<tables, bucketQueue, lockedBy, buckets, address, table, bucket,
                   targets, owed>>

unpark(t, kind, a) ==
    /\ t \in Unparkers /\ pc[t] = "idle"
    /\ op' = [op EXCEPT ![t] = [kind |-> kind, address |-> a]]
    /\ owed' = [owed EXCEPT ![t] = Members(QueueOf(a))]
    /\ Goto(t, "load")
    /\ UNCHANGED <<tables, bucketQueue, lockedBy, buckets, numThreads, registered,
                   address, table, bucket, wanted, targets>>

forEach(t) ==
    /\ t \in Walkers /\ pc[t] = "idle"
    /\ op' = [op EXCEPT ![t] = [kind |-> "forEach", address |-> NoAddress]]
    /\ Goto(t, "lockHashtable")
    /\ UNCHANGED <<tables, bucketQueue, lockedBy, buckets, numThreads, registered,
                   address, table, bucket, wanted, targets, owed>>

\* ~ThreadData, when a thread ends.
destroyThreadData(t) ==
    /\ pc[t] = "idle" /\ t \in registered
    /\ registered' = registered \ {t}
    /\ numThreads' = numThreads - 1
    /\ UNCHANGED <<tables, bucketQueue, lockedBy, buckets, address, pc, op, table,
                   bucket, wanted, targets, owed>>

----------------------------------------------------------------------------
(* The hashtable *)

\* ensureHashtable: the current table, or a first one of maxLoadFactor slots.
Ensured == IF tables = <<>>
           THEN <<[size |-> MaxLoadFactor, data |-> [i \in 0 .. MaxLoadFactor - 1 |-> 0]]>>
           ELSE tables

BigEnough(h, n) == h.size >= n * MaxLoadFactor

\* The first check of ensureHashtableSize.
ensureHashtableSize(t) ==
    /\ pc[t] = "ensureSize"
    /\ Goto(t, IF tables # <<>> /\ BigEnough(Current, wanted[t])
               THEN "load" ELSE "lockHashtable")
    /\ UNCHANGED <<tables, bucketQueue, lockedBy, buckets, numThreads, registered,
                   address, op, table, bucket, wanted, targets, owed>>

\* lockHashtable: fill every empty slot, from the last one down, with a new
\* bucket.
lockHashtable(t) ==
    /\ pc[t] = "lockHashtable"
    /\ LET k == Len(Ensured)
           h == Ensured[k]
           empty == {i \in DOMAIN h.data : h.data[i] = 0}
       IN  /\ buckets + Cardinality(empty) <= MaxBuckets
           /\ buckets' = buckets + Cardinality(empty)
           /\ tables' = [Ensured EXCEPT ![k].data = [i \in DOMAIN h.data |->
                IF i \in empty THEN buckets + Cardinality({j \in empty : j >= i})
                ELSE h.data[i]]]
           /\ table' = [table EXCEPT ![t] = k]
    /\ Goto(t, "lockBuckets")
    /\ UNCHANGED <<bucketQueue, lockedBy, numThreads, registered, address, op,
                   bucket, wanted, targets, owed>>

BucketsOf(k) == {tables[k].data[i] : i \in DOMAIN tables[k].data} \ {0}
Locked(t) == {b \in Buckets : lockedBy[b] = t}

(* Mutant: the buckets are locked in the order of their slots. *)
NextToLockUnsorted(t) ==
    CHOOSE b \in BucketsOf(table[t]) \ Locked(t) :
        \E i \in DOMAIN tables[table[t]].data :
            /\ tables[table[t]].data[i] = b
            /\ \A j \in 0 .. i - 1 : tables[table[t]].data[j] \in Locked(t)

\* The next bucket to lock: they are sorted by address.
NextToLock(t) ==
    CHOOSE b \in BucketsOf(table[t]) \ Locked(t) :
        \A c \in BucketsOf(table[t]) \ Locked(t) : b <= c

lockBucket(t) ==
    /\ pc[t] = "lockBuckets"
    /\ lockedBy[NextToLock(t)] = NoThread
    /\ lockedBy' = [lockedBy EXCEPT ![NextToLock(t)] = t]
    /\ Goto(t, IF Cardinality(BucketsOf(table[t]) \ Locked(t)) = 1
               THEN "locked" ELSE "lockBuckets")
    /\ UNCHANGED <<tables, bucketQueue, buckets, numThreads, registered, address, op,
                   table, bucket, wanted, targets, owed>>

unlockHashtable(t) ==
    lockedBy' = [b \in Buckets |-> IF lockedBy[b] = t THEN NoThread ELSE lockedBy[b]]

\* One thread is put into the new table: into the bucket of its slot, which is
\* taken from the reusable ones or is new.
Place(new, t) ==
    LET i == Hash[address[t]] % new.size
        b == IF new.data[i] # 0 THEN new.data[i]
             ELSE IF new.reusable # <<>> THEN Last(new.reusable)
             ELSE new.buckets + 1
    IN  [new EXCEPT !.data[i] = b,
                    !.queue[b] = Append(@, t),
                    !.reusable = IF new.data[i] = 0 /\ @ # <<>> THEN Front(@) ELSE @,
                    !.buckets = IF b > @ THEN b ELSE @]

\* A slot that is still empty takes one of the buckets left over.
Fill(new, i) ==
    IF new.data[i] = 0 /\ new.reusable # <<>>
    THEN [new EXCEPT !.data[i] = Last(new.reusable), !.reusable = Front(@)]
    ELSE new

\* The resize in ensureHashtableSize: gather the threads bucket by bucket in
\* queue order, place them, then place the buckets left over.
Rehashed(t) ==
    LET size == wanted[t] * GrowthFactor * MaxLoadFactor
        reusable == SetToSortSeq(BucketsOf(table[t]), <)
        threadDatas == FlattenSeq([i \in DOMAIN reusable |-> bucketQueue[reusable[i]]])
        empty == [size |-> size, data |-> [i \in 0 .. size - 1 |-> 0],
                  queue |-> [b \in Buckets |-> IF b \in BucketsOf(table[t]) THEN <<>>
                                               ELSE bucketQueue[b]],
                  reusable |-> reusable, buckets |-> buckets]
        placed == FoldLeft(Place, empty, threadDatas)
    IN  FoldLeft(Fill, placed, [i \in 1 .. size |-> i - 1])

\* All buckets are locked: start again if the table is not the current one,
\* stop if it is big enough by now, or resize it.
finishLocked(t) ==
    /\ pc[t] = "locked"
    /\ LET stale == table[t] # Len(tables)
           resize == ~stale /\ op[t].kind = "park" /\ ~BigEnough(Current, wanted[t])
           new == Rehashed(t)
       IN  /\ IF resize
                THEN /\ tables' = Append(tables, [size |-> new.size, data |-> new.data])
                     /\ bucketQueue' = new.queue
                     /\ buckets' = new.buckets
                ELSE UNCHANGED <<tables, bucketQueue, buckets>>
           /\ Goto(t, CASE stale -> "lockHashtable"
                        [] op[t].kind = "forEach" -> "idle"
                        [] OTHER -> "load")
           /\ op' = [op EXCEPT ![t] = IF @.kind = "forEach" /\ ~stale THEN NoOp ELSE @]
    /\ unlockHashtable(t)
    /\ table' = [table EXCEPT ![t] = 0]
    /\ UNCHANGED <<numThreads, registered, address, bucket, wanted, targets, owed>>

----------------------------------------------------------------------------
(* enqueue and dequeue *)

load(t) ==
    /\ pc[t] = "load"
    /\ tables' = Ensured
    /\ table' = [table EXCEPT ![t] = Len(Ensured)]
    /\ wanted' = [wanted EXCEPT ![t] = 0]
    /\ Goto(t, "slot")
    /\ UNCHANGED <<bucketQueue, lockedBy, buckets, numThreads, registered, address, op,
                   bucket, targets, owed>>

\* A call is over.
CallEnds(t) ==
    /\ Goto(t, "idle")
    /\ op' = [op EXCEPT ![t] = NoOp]
    /\ owed' = [owed EXCEPT ![t] = {}]

\* The slot's bucket.  With IgnoreEmpty an empty slot ends the call; otherwise
\* the slot gets a new bucket.
slot(t) ==
    /\ pc[t] = "slot"
    /\ LET i == IndexOf(tables[table[t]], op[t].address)
           b == tables[table[t]].data[i]
       IN  CASE b # 0 ->
                  /\ bucket' = [bucket EXCEPT ![t] = b]
                  /\ Goto(t, "bucket")
                  /\ UNCHANGED <<tables, buckets, table>>
             [] b = 0 /\ op[t].kind \in {"unparkAll", "self"} ->
                  /\ Goto(t, IF op[t].kind = "self" THEN "awaitNull" ELSE "signal")
                  /\ table' = [table EXCEPT ![t] = 0]
                  /\ UNCHANGED <<tables, buckets, bucket>>
             [] OTHER ->
                  /\ buckets < MaxBuckets
                  /\ buckets' = buckets + 1
                  /\ tables' = [tables EXCEPT ![table[t]].data[i] = buckets + 1]
                  /\ bucket' = [bucket EXCEPT ![t] = buckets + 1]
                  /\ Goto(t, "bucket")
                  /\ UNCHANGED table
    /\ UNCHANGED <<bucketQueue, lockedBy, numThreads, registered, address, op, wanted,
                   targets, owed>>

\* The table this call loaded is not the current one.
isStale(t) == table[t] # Len(tables)

\* Take the bucket lock; if the table has been rehashed, let go and start over.
rehashed(t) ==
    /\ pc[t] = "bucket" /\ lockedBy[bucket[t]] = NoThread
    /\ isStale(t)
    /\ bucket' = [bucket EXCEPT ![t] = 0]
    /\ table' = [table EXCEPT ![t] = 0]
    /\ Goto(t, "load")
    /\ UNCHANGED <<tables, bucketQueue, lockedBy, buckets, numThreads, registered,
                   address, op, wanted, targets, owed>>

InBucket(t, kinds) ==
    /\ pc[t] = "bucket" /\ lockedBy[bucket[t]] = NoThread
    /\ ~isStale(t)
    /\ op[t].kind \in kinds
    /\ bucket' = [bucket EXCEPT ![t] = 0]
    /\ table' = [table EXCEPT ![t] = 0]
    /\ UNCHANGED <<tables, lockedBy, buckets, numThreads, registered, wanted>>

(* Mutant: the thread goes to the front. *)
enqueueFirst(t) ==
    /\ InBucket(t, {"park"})
    /\ \/ /\ address' = [address EXCEPT ![t] = op[t].address]
          /\ bucketQueue' = [bucketQueue EXCEPT ![bucket[t]] = <<t>> \o @]
          /\ Goto(t, "parked")
          /\ UNCHANGED <<op, owed>>
       \/ CallEnds(t) /\ UNCHANGED <<address, bucketQueue>>
    /\ UNCHANGED <<targets>>

\* enqueue: if the validation says so.
enqueue(t) ==
    /\ InBucket(t, {"park"})
    /\ \/ /\ address' = [address EXCEPT ![t] = op[t].address]
          /\ bucketQueue' = [bucketQueue EXCEPT ![bucket[t]] = Append(@, t)]
          /\ Goto(t, "parked")
          /\ UNCHANGED <<op, owed>>
       \/ CallEnds(t) /\ UNCHANGED <<address, bucketQueue>>
    /\ UNCHANGED <<targets>>

\* dequeue for unparkOne, unparkCount and unparkAll: the first thread of this
\* address, or all of them.
dequeue(t) ==
    /\ InBucket(t, Unparks)
    /\ LET mine == SelectSeq(bucketQueue[bucket[t]], LAMBDA u : address[u] = op[t].address)
           taken == IF op[t].kind = "unparkOne" /\ mine # <<>> THEN <<Head(mine)>> ELSE mine
       IN  /\ bucketQueue' = [bucketQueue EXCEPT ![bucket[t]] =
                 SelectSeq(@, LAMBDA u : u \notin Members(taken))]
           /\ targets' = [targets EXCEPT ![t] = taken]
           /\ owed' = [u \in Threads |->
                 IF u = t /\ op[t].kind = "unparkOne" /\ taken # <<>> THEN {}
                 ELSE owed[u] \ Members(taken)]
    /\ Goto(t, "signal")
    /\ UNCHANGED <<address, op>>

\* The unparker clears the address of each thread it has dequeued.
signal(t) ==
    /\ pc[t] = "signal"
    /\ IF targets[t] = <<>>
         THEN CallEnds(t) /\ UNCHANGED <<address, targets>>
         ELSE /\ address' = [address EXCEPT ![Head(targets[t])] = NoAddress]
              /\ targets' = [targets EXCEPT ![t] = Tail(@)]
              /\ UNCHANGED <<pc, op, owed>>
    /\ UNCHANGED <<tables, bucketQueue, lockedBy, buckets, numThreads, registered,
                   table, bucket, wanted>>

----------------------------------------------------------------------------
(* The sleeping thread *)

\* It was dequeued and its address has been cleared: wasUnparked is true.
wake(t) ==
    /\ pc[t] \in {"parked", "awaitNull"} /\ address[t] = NoAddress
    /\ CallEnds(t)
    /\ UNCHANGED <<tables, bucketQueue, lockedBy, buckets, numThreads, registered,
                   address, table, bucket, wanted, targets>>

\* The timeout comes first: the thread goes to dequeue itself.
timeout(t) ==
    /\ t \in Timeouts /\ pc[t] = "parked" /\ address[t] # NoAddress
    /\ op' = [op EXCEPT ![t].kind = "self"]
    /\ Goto(t, "load")
    /\ UNCHANGED <<tables, bucketQueue, lockedBy, buckets, numThreads, registered,
                   address, table, bucket, wanted, targets, owed>>

(* Mutant: a thread that somebody else has dequeued does not wait. *)
dequeueSelfAnyway(t) ==
    /\ InBucket(t, {"self"})
    /\ IF t \in Members(bucketQueue[bucket[t]])
         THEN /\ bucketQueue' = [bucketQueue EXCEPT ![bucket[t]] =
                    SelectSeq(@, LAMBDA u : u # t)]
              /\ address' = [address EXCEPT ![t] = NoAddress]
              /\ owed' = [u \in Threads |-> owed[u] \ {t}]
              /\ Goto(t, "timedOut")
         ELSE /\ Goto(t, "timedOut")
              /\ UNCHANGED <<bucketQueue, address, owed>>
    /\ UNCHANGED <<op, targets>>

\* It dequeues itself, or finds that somebody else has, and then waits for its
\* address to be cleared.
dequeueSelf(t) ==
    /\ InBucket(t, {"self"})
    /\ IF t \in Members(bucketQueue[bucket[t]])
         THEN /\ bucketQueue' = [bucketQueue EXCEPT ![bucket[t]] =
                    SelectSeq(@, LAMBDA u : u # t)]
              /\ address' = [address EXCEPT ![t] = NoAddress]
              /\ owed' = [u \in Threads |-> owed[u] \ {t}]
              /\ Goto(t, "timedOut")
         ELSE /\ Goto(t, "awaitNull")
              /\ UNCHANGED <<bucketQueue, address, owed>>
    /\ UNCHANGED <<op, targets>>

\* It dequeued itself: wasUnparked is false.
timedOut(t) ==
    /\ pc[t] = "timedOut"
    /\ CallEnds(t)
    /\ UNCHANGED <<tables, bucketQueue, lockedBy, buckets, numThreads, registered,
                   address, table, bucket, wanted, targets>>

----------------------------------------------------------------------------
Next == \E t \in Threads :
    \/ \E a \in Addresses :
         park(t, a) \/ unpark(t, "unparkOne", a) \/ unpark(t, "unparkAll", a)
    \/ forEach(t) \/ destroyThreadData(t)
    \/ ensureHashtableSize(t) \/ lockHashtable(t) \/ lockBucket(t) \/ finishLocked(t)
    \/ load(t) \/ slot(t) \/ rehashed(t)
    \/ enqueue(t) \/ dequeue(t) \/ signal(t)
    \/ wake(t) \/ timeout(t) \/ dequeueSelf(t) \/ timedOut(t)

Spec == Init /\ [][Next]_vars

----------------------------------------------------------------------------
(* Properties *)

Queued(t) == \E b \in Buckets : t \in Members(bucketQueue[b])

\* The thread has been enqueued and its call has no result yet.
Sleeping(t) ==
    /\ pc[t] \in {"parked", "awaitNull"} \/ op[t].kind = "self"
    /\ pc[t] # "timedOut"

status == [t \in Threads |->
    CASE pc[t] = "timedOut" -> "timedOut"
      [] Sleeping(t) -> IF Queued(t) THEN "parked" ELSE "unparked"
      [] OTHER -> "running"]

Q == INSTANCE ParkingQueues WITH queue <- [a \in Addresses |-> QueueOf(a)]

\* Buckets, collisions, rehashing and timeouts are invisible: each address has
\* one FIFO queue, rehashing neither loses a thread nor changes the order of
\* the threads of an address, and wasUnparked says who took the thread off.
ImplementsQueues == Q!Spec

\* An unpark reaches every thread that was parked on the address when it was
\* called: unparkAll leaves none of them, unparkOne finds one unless none is
\* left, although it may return early on an empty slot of an old table.  And it
\* reaches nobody else: a thread that has been dequeued stays in its call until
\* its address has been cleared, so that this cannot hit a later park, and nobody
\* clears an address twice.
UnparkIsExact ==
    /\ \A t \in Threads : pc[t] = "signal" => owed[t] = {}
    /\ \A u \in Threads : \A i \in DOMAIN targets[u] :
         LET t == targets[u][i] IN
         /\ Sleeping(t)
         /\ address[t] # NoAddress
         /\ \A v \in Threads \ {u} : t \notin Members(targets[v])

\* Rehashing: locking the whole table cannot deadlock (of the threads that hold
\* buckets, one does not wait for a bucket that another one holds), and the
\* asserts of ensureHashtableSize hold: the table grows, every old bucket finds a
\* place in it, and no thread is left in a bucket that is not in the table.
ResizeIsSafe ==
    /\ TypeOK
    /\ (\E t \in Threads : Locked(t) # {}) =>
         \E t \in Threads :
            /\ Locked(t) # {}
            /\ pc[t] = "lockBuckets" => lockedBy[NextToLock(t)] = NoThread
    /\ \A i \in 1 .. Len(tables) - 1 :
         tables[i].size < tables[i + 1].size /\ BucketsOf(i) \subseteq BucketsOf(i + 1)
    /\ \A t \in Threads : Queued(t) =>
         \E b \in BucketsOf(Len(tables)) : t \in Members(bucketQueue[b])
=============================================================================

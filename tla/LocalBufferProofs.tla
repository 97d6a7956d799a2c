-------------------------- MODULE LocalBufferProofs --------------------------
(***************************************************************************)
(* Proofs about module LocalBuffer, for any sets of records and tasks and  *)
(* any resolution of the clock.                                            *)
(***************************************************************************)
EXTENDS LocalBuffer, SequenceTheorems, TLAPS

USE BufferAssumption

LockRequest == [task : Tasks, exclusive : BOOLEAN]

\* A queue in which no task waits twice.
Unrepeated(q) == \A i, j \in DOMAIN q : q[i].task = q[j].task => i = j

(***************************************************************************)
(* Sequences.                                                              *)
(***************************************************************************)

\* Removing one element.
LEMMA RemoveAtElements ==
    ASSUME NEW S, NEW s \in Seq(S), NEW i \in 1..Len(s)
    PROVE  /\ RemoveAt(s, i) \in Seq(S)
           /\ DOMAIN RemoveAt(s, i) = 1..(Len(s) - 1)
           /\ \A j \in 1..(Len(s) - 1) : RemoveAt(s, i)[j] = IF j < i THEN s[j] ELSE s[j + 1]
  <1> DEFINE a == SubSeq(s, 1, i - 1)
             b == SubSeq(s, i + 1, Len(s))
  <1>1. /\ a \in Seq(S) /\ Len(a) = i - 1
        /\ \A j \in 1..(i - 1) : a[j] = s[j]
    OBVIOUS
  <1>2. /\ b \in Seq(S) /\ Len(b) = Len(s) - i
        /\ \A j \in 1..(Len(s) - i) : b[j] = s[i + j]
    OBVIOUS
  <1>3. RemoveAt(s, i) = a \o b
    BY DEF RemoveAt
  <1> HIDE DEF a, b
  <1>4. /\ a \o b \in Seq(S) /\ Len(a \o b) = Len(a) + Len(b)
        /\ \A j \in 1..(Len(a) + Len(b)) :
              (a \o b)[j] = IF j <= Len(a) THEN a[j] ELSE b[j - Len(a)]
    BY <1>1, <1>2, ConcatProperties
  <1>5. Len(s) \in Nat /\ Len(a) + Len(b) = Len(s) - 1
    BY <1>1, <1>2
  <1>6. DOMAIN (a \o b) = 1..(Len(s) - 1)
    BY <1>4, <1>5
  <1>7. ASSUME NEW j \in 1..(Len(s) - 1)
        PROVE  (a \o b)[j] = IF j < i THEN s[j] ELSE s[j + 1]
    <2>1. CASE j < i
      BY <1>1, <1>4, <1>5, <2>1
    <2>2. CASE j >= i
      <3>1. PICK k \in 1..(Len(s) - i) : k = j - Len(a) /\ i + k = j + 1
        BY <1>1, <1>5, <2>2
      <3>2. (a \o b)[j] = b[k] /\ b[k] = s[i + k]
        BY <1>1, <1>2, <1>4, <1>5, <2>2, <3>1
      <3> QED  BY <1>5, <2>2, <3>1, <3>2
    <2> QED  BY <1>5, <2>1, <2>2
  <1> QED  BY <1>3, <1>4, <1>6, <1>7

\* Giving a lock back keeps the queue in order and takes nobody else out of it.
LEMMA WithoutType ==
    ASSUME NEW q \in Seq(LockRequest), Unrepeated(q), NEW t \in Tasks
    PROVE  /\ Without(q, t) \in Seq(LockRequest) /\ Unrepeated(Without(q, t))
           /\ \A i \in DOMAIN Without(q, t) :
                 Without(q, t)[i].task # t /\ \E j \in DOMAIN q : Without(q, t)[i] = q[j]
  <1>1. CASE \E i \in DOMAIN q : q[i].task = t
    <2> DEFINE k == CHOOSE i \in DOMAIN q : q[i].task = t
    <2>1. k \in 1..Len(q) /\ q[k].task = t
      BY <1>1
    <2>2. Without(q, t) = RemoveAt(q, k)
      BY <1>1 DEF Without
    <2> HIDE DEF k
    <2> DEFINE w == RemoveAt(q, k)
    <2>3. /\ w \in Seq(LockRequest) /\ DOMAIN w = 1..(Len(q) - 1)
          /\ \A j \in 1..(Len(q) - 1) : w[j] = IF j < k THEN q[j] ELSE q[j + 1]
      BY <2>1, RemoveAtElements
    <2> HIDE DEF w
    <2>4. DOMAIN q = 1..Len(q) /\ Len(q) \in Nat
      OBVIOUS
    <2>5. ASSUME NEW i \in DOMAIN w
          PROVE  w[i].task # t /\ \E j \in DOMAIN q : w[i] = q[j]
      <3>1. CASE i < k   BY <2>1, <2>3, <2>4, <3>1 DEF Unrepeated
      <3>2. CASE i >= k
        <4>1. i + 1 \in DOMAIN q /\ w[i] = q[i + 1] /\ i + 1 # k
          BY <2>1, <2>3, <2>4, <3>2
        <4> QED  BY <2>1, <2>4, <4>1 DEF Unrepeated
      <3> QED  BY <2>1, <2>3, <3>1, <3>2
    <2>6. Unrepeated(w)
      <3> SUFFICES ASSUME NEW i \in DOMAIN w, NEW j \in DOMAIN w, w[i].task = w[j].task
                   PROVE  i = j
        BY DEF Unrepeated
      <3> DEFINE o(n) == IF n < k THEN n ELSE n + 1
      <3>1. /\ o(i) \in DOMAIN q /\ o(j) \in DOMAIN q
            /\ w[i] = q[o(i)] /\ w[j] = q[o(j)]
        BY <2>1, <2>3, <2>4
      <3>2. o(i) = o(j)
        BY <3>1 DEF Unrepeated
      <3> QED  BY <2>1, <2>3, <3>2
    <2> QED  BY <2>2, <2>3, <2>5, <2>6 DEF w
  <1>2. CASE ~\E i \in DOMAIN q : q[i].task = t
    BY <1>2 DEF Without
  <1> QED  BY <1>1, <1>2

\* A task that does not wait in a queue may be put at its end.
LEMMA EnqueueType ==
    ASSUME NEW q \in Seq(LockRequest), Unrepeated(q), NEW e \in LockRequest,
           \A i \in DOMAIN q : q[i].task # e.task
    PROVE  /\ Append(q, e) \in Seq(LockRequest) /\ Unrepeated(Append(q, e))
           /\ \A i \in DOMAIN Append(q, e) :
                 Append(q, e)[i] = e \/ \E j \in DOMAIN q : Append(q, e)[i] = q[j]
  <1>1. /\ Append(q, e) \in Seq(LockRequest) /\ Len(q) \in Nat
        /\ DOMAIN q = 1..Len(q) /\ DOMAIN Append(q, e) = 1..(Len(q) + 1)
        /\ \A i \in 1..Len(q) : Append(q, e)[i] = q[i]
        /\ Append(q, e)[Len(q) + 1] = e
    OBVIOUS
  <1>2. \A i \in DOMAIN Append(q, e) : i = Len(q) + 1 \/ i \in DOMAIN q
    BY <1>1
  <1> HIDE DEF LockRequest
  <1> QED  BY <1>1, <1>2 DEF Unrepeated

(***************************************************************************)
(* Type correctness and the discipline of the locks.                       *)
(***************************************************************************)

\* What a task has got, as far as its calls depend on it.
ResultShape ==
    /\ result = [t \in Tasks |-> [ids |-> result[t].ids, stats |-> result[t].stats]]
    /\ \A t \in Tasks : result[t].ids \subseteq Records

BufferInv == TypeOK /\ ResultShape

\* The part of TypeOK about locks.
QueuesOK ==
    /\ queue \in [Table -> Seq(LockRequest)]
    /\ \A tab \in Table :
           Unrepeated(queue[tab]) /\ \A i \in DOMAIN queue[tab] : op[queue[tab][i].task] # Idle

LEMMA TypeParts ==
    TypeOK <=> /\ backend \in {"memory", "sqlite"} /\ rows \in Tables
               /\ now \in 0 .. MaxTime /\ marked \in [Records -> 0 .. MaxTime]
               /\ op \in [Tasks -> Operations] /\ QueuesOK
  BY DEF TypeOK, QueuesOK, Unrepeated, LockRequest

\* The fields of an operation under way.
LEMMA OperationFields ==
    ASSUME NEW o \in Operations
    PROVE  /\ o = Idle <=> o.kind = "idle"
           /\ o.kind \in {"store_batch", "mark_uploaded"} => o.tab \in Table /\ o.ids \subseteq Records
           /\ o.kind = "fetch_pending" => o.tab \in Table
           /\ o.kind = "cleanup_uploaded" => o.age \in Ages
           /\ o.kind \in {"idle", "store_batch", "fetch_pending", "mark_uploaded", "get_stats",
                          "cleanup_uploaded"}
  BY DEF Operations, Idle

\* The locks of an operation.
LEMMA LockOrderType ==
    ASSUME NEW o \in Operations, o # Idle
    PROVE  /\ LockOrder(o)[1] \in Table
           /\ Len(LockOrder(o)) = 2 => LockOrder(o)[2] \in Table
  <1>1. o.kind \in {"get_stats", "cleanup_uploaded"} => LockOrder(o) = <<"readings", "statuses">>
    BY DEF LockOrder
  <1>2. o.kind \notin {"get_stats", "cleanup_uploaded"} => LockOrder(o) = <<o.tab>> /\ o.tab \in Table
    BY OperationFields DEF LockOrder
  <1> QED  BY <1>1, <1>2 DEF Table

\* A task asks for one more lock.
LEMMA EnqueueQueues ==
    ASSUME QueuesOK, NEW t \in Tasks, NEW tab \in Table, NEW o, Enqueue(t, tab, o),
           ~Waits(t, tab), op' \in [Tasks -> Operations],
           op'[t] # Idle, \A u \in Tasks : op[u] # Idle => op'[u] # Idle
    PROVE  QueuesOK'
  <1> DEFINE e == [task |-> t, exclusive |-> Exclusive(o)]
  <1>1. e \in LockRequest /\ e.task = t
    BY DEF LockRequest, Exclusive
  <1>2. queue' = [queue EXCEPT ![tab] = Append(queue[tab], e)]
    BY DEF Enqueue
  <1> HIDE DEF e
  <1>3. /\ queue[tab] \in Seq(LockRequest) /\ Unrepeated(queue[tab])
        /\ \A i \in DOMAIN queue[tab] : queue[tab][i].task # e.task
    BY <1>1 DEF QueuesOK, Waits
  <1>4. /\ Append(queue[tab], e) \in Seq(LockRequest) /\ Unrepeated(Append(queue[tab], e))
        /\ \A i \in DOMAIN Append(queue[tab], e) :
              Append(queue[tab], e)[i] = e
              \/ \E j \in DOMAIN queue[tab] : Append(queue[tab], e)[i] = queue[tab][j]
    BY <1>1, <1>3, EnqueueType
  <1>5. queue' \in [Table -> Seq(LockRequest)] /\ queue'[tab] = Append(queue[tab], e)
        /\ \A x \in Table \ {tab} : queue'[x] = queue[x]
    BY <1>2, <1>4 DEF QueuesOK
  <1>6. ASSUME NEW x \in Table
        PROVE  Unrepeated(queue[x])' /\ \A i \in DOMAIN queue'[x] : op'[queue'[x][i].task] # Idle
    <2>1. \A y \in Table : \A i \in DOMAIN queue[y] :
             queue[y][i].task \in Tasks /\ op'[queue[y][i].task] # Idle
      <3> SUFFICES ASSUME NEW y \in Table, NEW i \in DOMAIN queue[y]
                   PROVE  queue[y][i].task \in Tasks /\ op'[queue[y][i].task] # Idle
        OBVIOUS
      <3>1. queue[y][i] \in LockRequest
        BY DEF QueuesOK
      <3> QED  BY <3>1 DEF QueuesOK, LockRequest
    <2>2. CASE x = tab
      <3>1. Unrepeated(queue[x])'
        BY <1>4, <1>5, <2>2 DEF Unrepeated
      <3>2. ASSUME NEW i \in DOMAIN queue'[x]
            PROVE  op'[queue'[x][i].task] # Idle
        <4>1. queue'[x][i] = e \/ \E j \in DOMAIN queue[tab] : queue'[x][i] = queue[tab][j]
          BY <1>4, <1>5, <2>2, <3>2
        <4> QED  BY <1>1, <2>1, <4>1
      <3> QED  BY <3>1, <3>2
    <2>3. CASE x # tab   BY <1>5, <2>1, <2>3 DEF QueuesOK, Unrepeated
    <2> QED  BY <2>2, <2>3
  <1> QED  BY <1>5, <1>6 DEF QueuesOK, Unrepeated

\* A task gives back all of its locks and is idle.
LEMMA ReleaseQueues ==
    ASSUME QueuesOK, NEW t \in Tasks, op \in [Tasks -> Operations],
           Release(t), op' = [op EXCEPT ![t] = Idle]
    PROVE  QueuesOK'
  <1>1. ASSUME NEW x \in Table
        PROVE  /\ Without(queue[x], t) \in Seq(LockRequest) /\ Unrepeated(Without(queue[x], t))
               /\ \A i \in DOMAIN Without(queue[x], t) :
                     op'[Without(queue[x], t)[i].task] # Idle
    <2>1. queue[x] \in Seq(LockRequest) /\ Unrepeated(queue[x])
      BY DEF QueuesOK
    <2>2. /\ Without(queue[x], t) \in Seq(LockRequest) /\ Unrepeated(Without(queue[x], t))
          /\ \A i \in DOMAIN Without(queue[x], t) :
                /\ Without(queue[x], t)[i].task # t
                /\ \E j \in DOMAIN queue[x] : Without(queue[x], t)[i] = queue[x][j]
      BY <2>1, WithoutType
    <2>3. \A j \in DOMAIN queue[x] : queue[x][j].task \in Tasks /\ op[queue[x][j].task] # Idle
      <3> TAKE j \in DOMAIN queue[x]
      <3>1. queue[x][j] \in LockRequest
        BY <2>1
      <3> QED  BY <3>1 DEF QueuesOK, LockRequest
    <2> QED  BY <2>2, <2>3
  <1>2. queue' = [x \in Table |-> Without(queue[x], t)]
    BY DEF Release
  <1> QED  BY <1>1, <1>2 DEF QueuesOK, Unrepeated

\* An operation ends: the parts of the invariant that do not depend on what it did.
LEMMA ReturnsType ==
    ASSUME BufferInv, NEW t \in Tasks, NEW r \in Tables, Returns(t, r)
    PROVE  rows' \in Tables /\ op' \in [Tasks -> Operations] /\ QueuesOK'
  <1>1. QueuesOK /\ op \in [Tasks -> Operations]
    BY TypeParts DEF BufferInv
  <1>2. Release(t) /\ op' = [op EXCEPT ![t] = Idle] /\ rows' = r
    BY DEF Returns
  <1>3. Idle \in Operations
    BY DEF Operations
  <1> QED  BY <1>1, <1>2, <1>3, ReleaseQueues

\* A task gets a new result.
LEMMA ResultType ==
    ASSUME ResultShape, NEW t \in Tasks, NEW ids \in SUBSET Records, NEW stats,
           \/ result' = [result EXCEPT ![t] = [ids |-> ids, stats |-> stats]]
           \/ result' = [result EXCEPT ![t].ids = ids]
           \/ result' = [result EXCEPT ![t].stats = stats]
    PROVE  ResultShape'
  BY DEF ResultShape

\* A call is made.
LEMMA CallType ==
    ASSUME BufferInv, NEW t \in Tasks, NEW o \in Operations, o # Idle, Call(t, o)
    PROVE  BufferInv'
  <1>1. QueuesOK /\ op \in [Tasks -> Operations]
    BY TypeParts DEF BufferInv
  <1>2. /\ op[t] = Idle /\ op' = [op EXCEPT ![t] = o] /\ UNCHANGED <<backend, rows, marked, now>>
        /\ result' = [result EXCEPT ![t] = Nothing]
    BY DEF Call
  <1>3. op' \in [Tasks -> Operations] /\ op'[t] # Idle /\ \A u \in Tasks : op[u] # Idle => op'[u] # Idle
    BY <1>1, <1>2
  <1>4. QueuesOK'
    <2>1. CASE backend = "memory"
      <3>1. Enqueue(t, LockOrder(o)[1], o) /\ LockOrder(o)[1] \in Table
        BY <2>1, LockOrderType DEF Call
      <3>2. ~Waits(t, LockOrder(o)[1])
        BY <1>1, <1>2, <3>1 DEF QueuesOK, Waits
      <3> QED  BY <1>1, <1>3, <3>1, <3>2, EnqueueQueues
    <2>2. CASE backend # "memory"
      <3>1. queue' = queue
        BY <2>2 DEF Call
      <3>2. \A x \in Table : \A i \in DOMAIN queue[x] : queue[x][i].task \in Tasks
        <4> TAKE x \in Table
        <4> TAKE i \in DOMAIN queue[x]
        <4>1. queue[x][i] \in LockRequest
          BY <1>1 DEF QueuesOK
        <4> QED  BY <4>1 DEF LockRequest
      <3> QED  BY <1>1, <1>3, <3>1, <3>2 DEF QueuesOK, Unrepeated
    <2> QED  BY <2>1, <2>2
  <1>5. ResultShape'
    BY <1>2, ResultType DEF BufferInv, Nothing
  <1>6. TypeOK'
    <2>1. /\ backend' \in {"memory", "sqlite"} /\ rows' \in Tables
          /\ now' \in 0 .. MaxTime /\ marked' \in [Records -> 0 .. MaxTime]
      BY <1>2, TypeParts DEF BufferInv
    <2> QED  BY <1>3, <1>4, <2>1 DEF TypeOK, QueuesOK, Unrepeated, LockRequest
  <1> QED  BY <1>5, <1>6 DEF BufferInv

\* Every step keeps the invariant.
LEMMA BufferStep == BufferInv /\ [Next]_vars => BufferInv'
  <1> SUFFICES ASSUME BufferInv, [Next]_vars PROVE BufferInv'
    OBVIOUS
  <1>0. /\ backend \in {"memory", "sqlite"} /\ rows \in Tables
        /\ now \in 0 .. MaxTime /\ marked \in [Records -> 0 .. MaxTime]
        /\ op \in [Tasks -> Operations] /\ QueuesOK /\ ResultShape
    BY TypeParts DEF BufferInv
  <1> DEFINE Parts == /\ backend' \in {"memory", "sqlite"} /\ rows' \in Tables
                      /\ now' \in 0 .. MaxTime /\ marked' \in [Records -> 0 .. MaxTime]
                      /\ op' \in [Tasks -> Operations] /\ QueuesOK'
  <1>1. ASSUME Parts, ResultShape'
        PROVE  BufferInv'
    BY <1>1 DEF BufferInv, TypeOK, QueuesOK, Unrepeated, LockRequest
  <1>2. CASE Tick
    BY <1>0, <1>1, <1>2 DEF Tick, QueuesOK, Unrepeated, ResultShape
  <1>3. ASSUME NEW t \in Tasks, Begin(t)
        PROVE  BufferInv'
    <2>1. PICK tab \in Table :
              \/ \E ids \in SUBSET Keys(tab) :
                     Call(t, [kind |-> "store_batch", tab |-> tab, ids |-> ids])
              \/ Call(t, [kind |-> "fetch_pending", tab |-> tab])
              \/ Call(t, [kind |-> "mark_uploaded", tab |-> tab, ids |-> result[t].ids])
      BY <1>3 DEF Begin
    <2>2. Keys(tab) \subseteq Records
      BY DEF Keys, Records
    <2>3. ASSUME NEW ids \in SUBSET Records
          PROVE  /\ [kind |-> "store_batch", tab |-> tab, ids |-> ids] \in Operations \ {Idle}
                 /\ [kind |-> "mark_uploaded", tab |-> tab, ids |-> ids] \in Operations \ {Idle}
      BY DEF Operations, Idle
    <2>4. [kind |-> "fetch_pending", tab |-> tab] \in Operations \ {Idle}
      BY DEF Operations, Idle
    <2>5. result[t].ids \subseteq Records
      BY <1>0 DEF ResultShape
    <2> QED  BY <2>1, <2>2, <2>3, <2>4, <2>5, CallType
  <1>4. ASSUME NEW t \in Tasks, BeginMaintenance(t)
        PROVE  BufferInv'
    <2>1. [kind |-> "get_stats"] \in Operations \ {Idle}
      BY DEF Operations, Idle
    <2>2. ASSUME NEW age \in Ages
          PROVE  [kind |-> "cleanup_uploaded", age |-> age] \in Operations \ {Idle}
      BY DEF Operations, Idle
    <2> QED  BY <1>4, <2>1, <2>2, CallType DEF BeginMaintenance
  <1>5. ASSUME NEW t \in Tasks, NextLock(t)
        PROVE  BufferInv'
    <2>1. /\ Enqueue(t, LockOrder(op[t])[2], op[t]) /\ ~Waits(t, LockOrder(op[t])[2])
          /\ op[t] # Idle /\ Len(LockOrder(op[t])) = 2
          /\ UNCHANGED <<backend, rows, marked, now, op, result>>
      BY <1>5 DEF NextLock, HalfWay
    <2>2. LockOrder(op[t])[2] \in Table
      BY <1>0, <2>1, LockOrderType
    <2>3. QueuesOK'
      BY <1>0, <2>1, <2>2, EnqueueQueues
    <2> QED  BY <1>0, <1>1, <2>1, <2>3 DEF ResultShape
  <1>6. ASSUME NEW t \in Tasks, StoreBatch(t)
        PROVE  BufferInv'
    <2> DEFINE r == [k \in Records |-> IF k \in op[t].ids THEN "pending" ELSE rows[k]]
    <2>1. r \in Tables
      BY <1>0 DEF Tables, RowState
    <2>2. Returns(t, r) /\ UNCHANGED <<backend, marked, now, result>>
      BY <1>6 DEF StoreBatch
    <2> HIDE DEF r
    <2> QED  BY <1>0, <1>1, <2>1, <2>2, ReturnsType DEF ResultShape
  <1>7. ASSUME NEW t \in Tasks, Fetch(t)
        PROVE  BufferInv'
    <2>1. FetchPending(rows, Keys(op[t].tab)) \in SUBSET Records
      BY DEF FetchPending, Keys, Records
    <2>2. ResultShape'
      BY <1>0, <1>7, <2>1, ResultType DEF Fetch
    <2> QED  BY <1>0, <1>1, <1>7, <2>2, ReturnsType DEF Fetch
  <1>8. ASSUME NEW t \in Tasks, Mark(t)
        PROVE  BufferInv'
    <2>1. MarkUploaded(rows, op[t].ids) \in Tables
      BY <1>0 DEF MarkUploaded, Tables, RowState
    <2>2. marked' \in [Records -> 0 .. MaxTime]
      BY <1>0, <1>8 DEF Mark
    <2> QED  BY <1>0, <1>1, <1>8, <2>1, <2>2, ReturnsType DEF Mark, ResultShape
  <1>9. ASSUME NEW t \in Tasks, Cleanup(t)
        PROVE  BufferInv'
    <2> DEFINE gone == {r \in Records : rows[r] = "uploaded" /\ Expired(r, op[t].age)}
               left == [r \in Records |-> IF r \in gone THEN "none" ELSE rows[r]]
               figures == <<Cardinality(gone \cap Readings), Cardinality(gone \cap Statuses)>>
    <2>1. left \in Tables
      BY <1>0 DEF Tables, RowState
    <2>2. marked' \in [Records -> 0 .. MaxTime]
      BY <1>0, <1>9 DEF Cleanup
    <2>3. Returns(t, left) /\ result' = [result EXCEPT ![t].stats = figures]
          /\ UNCHANGED <<backend, now>>
      BY <1>9 DEF Cleanup
    <2> HIDE DEF gone, left, figures
    <2>4. ResultShape'
      BY <1>0, <2>3, ResultType
    <2> QED  BY <1>0, <1>1, <2>1, <2>2, <2>3, <2>4, ReturnsType
  <1>10. ASSUME NEW t \in Tasks, MemoryStats(t) \/ SqliteStats(t)
         PROVE  BufferInv'
    <2>1. PICK stats : result' = [result EXCEPT ![t].stats = stats]
      BY <1>10 DEF MemoryStats, SqliteStats
    <2>2. ResultShape'
      BY <1>0, <2>1, ResultType
    <2>3. CASE UNCHANGED <<rows, op, queue>>
      BY <1>0, <1>1, <1>10, <2>2, <2>3 DEF QueuesOK, Unrepeated, MemoryStats, SqliteStats
    <2>4. CASE Returns(t, rows)
      BY <1>0, <1>1, <1>10, <2>2, <2>4, ReturnsType DEF MemoryStats, SqliteStats
    <2> QED  BY <1>10, <2>3, <2>4 DEF MemoryStats, SqliteStats
  <1>12. ASSUME NEW t \in Tasks, Fails(t)
         PROVE  BufferInv'
    <2>1. ResultShape'
      BY <1>0, <1>12, ResultType DEF Fails, Nothing
    <2> QED  BY <1>0, <1>1, <1>12, <2>1, ReturnsType DEF Fails
  <1>13. CASE UNCHANGED vars
    BY <1>0, <1>1, <1>13 DEF vars, QueuesOK, Unrepeated, ResultShape
  <1> QED
    BY <1>2, <1>3, <1>4, <1>5, <1>6, <1>7, <1>8, <1>9, <1>10, <1>12, <1>13 DEF Next, Step

\* Initially both tables and both queues are empty.
LEMMA BufferInit == Init => BufferInv
  <1> SUFFICES ASSUME Init PROVE BufferInv
    OBVIOUS
  <1>1. Idle \in Operations /\ 0 \in 0 .. MaxTime
    BY DEF Operations
  <1>2. QueuesOK
    <2>1. <<>> \in Seq(LockRequest) /\ DOMAIN <<>> = {}
      OBVIOUS
    <2> QED  BY <2>1 DEF Init, QueuesOK, Unrepeated
  <1>3. TypeOK
    BY <1>1, <1>2 DEF Init, TypeOK, QueuesOK, Unrepeated, LockRequest, EmptyTables, Tables, RowState
  <1>4. ResultShape
    BY DEF Init, ResultShape, Nothing
  <1> QED  BY <1>3, <1>4 DEF BufferInv

\* The type invariant, for any number of tasks: an idle task holds and awaits no lock,
\* and no task waits twice for the same one, whichever operations overlap (memory.rs).
THEOREM BufferTypeCorrect == Spec => []TypeOK
  <1>1. BufferInv => TypeOK
    BY DEF BufferInv
  <1> QED  BY <1>1, BufferInit, BufferStep, PTL DEF Spec

(***************************************************************************)
(* What a step does to the rows.                                           *)
(***************************************************************************)

\* Only three operations change rows, each at its end.
LEMMA RowsChange ==
    ASSUME BufferInv, Next, rows' # rows
    PROVE  \E t \in Tasks : StoreBatch(t) \/ Mark(t) \/ Cleanup(t)
  <1>1. ASSUME NEW t \in Tasks, Begin(t) \/ BeginMaintenance(t)
        PROVE  rows' = rows
    BY <1>1 DEF Begin, BeginMaintenance, Call
  <1>2. ASSUME NEW t \in Tasks,
               NextLock(t) \/ Fetch(t) \/ MemoryStats(t) \/ SqliteStats(t) \/ Fails(t)
        PROVE  rows' = rows
    BY <1>2 DEF NextLock, Fetch, MemoryStats, SqliteStats, Fails, Returns
  <1>3. Tick => rows' = rows
    BY DEF Tick
  <1> QED  BY <1>1, <1>2, <1>3 DEF Next, Step

PendingStep ==
    \A r \in Records :
        rows[r] = "pending" /\ rows'[r] # "pending" =>
            /\ rows'[r] = "uploaded"
            /\ \E t \in Tasks : op[t].kind = "mark_uploaded" /\ r \in op[t].ids

\* However cleanup, statistics, stores and marks of any number of tasks overlap, a
\* pending row becomes uploaded by mark_uploaded of a task that fetched it, and by
\* nothing else.
THEOREM BufferPendingKept == Spec => PendingKept
  <1>1. BufferInv /\ [Next]_vars => [PendingStep]_vars
    <2> SUFFICES ASSUME BufferInv, Next, NEW r \in Records,
                        rows[r] = "pending", rows'[r] # "pending"
                 PROVE  /\ rows'[r] = "uploaded"
                        /\ \E t \in Tasks : op[t].kind = "mark_uploaded" /\ r \in op[t].ids
      BY DEF PendingStep
    <2>1. PICK t \in Tasks : StoreBatch(t) \/ Mark(t) \/ Cleanup(t)
      BY RowsChange
    <2>2. CASE StoreBatch(t)  BY <2>2 DEF StoreBatch, Returns
    <2>3. CASE Mark(t)        BY <2>3 DEF Mark, Returns, MarkUploaded
    <2>4. CASE Cleanup(t)     BY <2>4 DEF Cleanup, Returns
    <2> QED  BY <2>1, <2>2, <2>3, <2>4
  <1> QED  BY <1>1, BufferInit, BufferStep, PTL DEF Spec, PendingKept, PendingStep

\* A stamp of whole seconds is less than a second behind.
LEMMA WholeSeconds ==
    ASSUME NEW m \in Nat
    PROVE  /\ (m \div TicksPerSecond) * TicksPerSecond \in Nat
           /\ (m \div TicksPerSecond) * TicksPerSecond <= m
           /\ m < (m \div TicksPerSecond) * TicksPerSecond + TicksPerSecond
  OBVIOUS

\* No row was marked in the future.
MarksPast == \A r \in Records : marked[r] <= now

LEMMA MarksPastStep == BufferInv /\ MarksPast /\ [Next]_vars => MarksPast'
  <1> SUFFICES ASSUME BufferInv, MarksPast, [Next]_vars, NEW r \in Records
               PROVE  marked'[r] <= now'
    BY DEF MarksPast
  <1>0. now \in Nat /\ marked[r] \in Nat /\ marked[r] <= now
    BY DEF BufferInv, TypeOK, MarksPast
  <1>1. ASSUME UNCHANGED <<marked, now>>
        PROVE  marked'[r] <= now'
    BY <1>0, <1>1
  <1>2. ASSUME NEW t \in Tasks, Begin(t) \/ BeginMaintenance(t)
        PROVE  UNCHANGED <<marked, now>>
    BY <1>2 DEF Begin, BeginMaintenance, Call
  <1>3. ASSUME NEW t \in Tasks,
               \/ NextLock(t) \/ StoreBatch(t) \/ Fetch(t) \/ MemoryStats(t) \/ SqliteStats(t)
               \/ Fails(t)
        PROVE  UNCHANGED <<marked, now>>
    BY <1>3 DEF NextLock, StoreBatch, Fetch, MemoryStats, SqliteStats, Fails
  <1>4. ASSUME NEW t \in Tasks, Mark(t) \/ Cleanup(t)
        PROVE  marked'[r] <= now'
    BY <1>0, <1>4 DEF Mark, Cleanup
  <1>5. Tick => marked'[r] <= now'
    BY <1>0 DEF Tick
  <1> QED  BY <1>1, <1>2, <1>3, <1>4, <1>5 DEF Next, Step, vars

\* How an operation under way can end in a step.
LEMMA Ending ==
    ASSUME BufferInv, Next, NEW t \in Tasks, op[t] # Idle, op'[t] = Idle
    PROVE  \/ StoreBatch(t) \/ Fetch(t) \/ Mark(t) \/ Cleanup(t) \/ MemoryStats(t)
           \/ SqliteStats(t) \/ Fails(t)
  <1>0. op \in [Tasks -> Operations]
    BY DEF BufferInv, TypeOK
  <1>1. ~Tick
    BY DEF Tick
  <1>2. ASSUME NEW u \in Tasks, NEW o, Call(u, o)
        PROVE  FALSE
    BY <1>0, <1>2 DEF Call
  <1>3. ASSUME NEW u \in Tasks, Begin(u) \/ BeginMaintenance(u)
        PROVE  FALSE
    BY <1>2, <1>3 DEF Begin, BeginMaintenance
  <1>4. ASSUME NEW u \in Tasks, NextLock(u)
        PROVE  FALSE
    BY <1>4 DEF NextLock
  <1>5. ASSUME NEW u \in Tasks, Step(u), u # t
        PROVE  FALSE
    BY <1>0, <1>4, <1>5
       DEF Step, StoreBatch, Fetch, Mark, Cleanup, MemoryStats, SqliteStats, Fails, Returns
  <1> QED  BY <1>1, <1>3, <1>4, <1>5 DEF Next, Step

CleanupStep ==
    \A t \in Tasks :
        /\ backend = "sqlite"
        /\ op[t].kind = "cleanup_uploaded" /\ op'[t] = Idle
        /\ result'[t] # Nothing
        => \A r \in Records : rows[r] = "uploaded" =>
              LET uploadedFor == now - marked[r]
              IN /\ uploadedFor >= op[t].age * TicksPerSecond => rows'[r] = "none"
                 /\ rows'[r] = "none" =>
                      uploadedFor + TicksPerSecond > op[t].age * TicksPerSecond

\* For any resolution of the clock, cleanup_uploaded of SQLite deletes every row that
\* has been uploaded for its argument, and none more than a second too early.
THEOREM BufferCleanupByAge == Spec => CleanupByAge
  <1>1. BufferInv /\ MarksPast /\ [Next]_vars => [CleanupStep]_vars
    <2> SUFFICES ASSUME BufferInv, MarksPast, Next, NEW t \in Tasks, backend = "sqlite",
                        op[t].kind = "cleanup_uploaded", op'[t] = Idle, result'[t] # Nothing,
                        NEW r \in Records, rows[r] = "uploaded"
                 PROVE  /\ now - marked[r] >= op[t].age * TicksPerSecond => rows'[r] = "none"
                        /\ rows'[r] = "none" =>
                             now - marked[r] + TicksPerSecond > op[t].age * TicksPerSecond
      BY DEF CleanupStep
    <2>0. /\ now \in Nat /\ marked[r] \in Nat /\ marked[r] <= now
          /\ op[t] \in Operations /\ op[t] # Idle
      BY DEF BufferInv, TypeOK, MarksPast, Idle
    <2>7. op[t].age \in Nat
      BY <2>0, OperationFields
    <2>1. Cleanup(t)
      <3>1. Fails(t) => result'[t] = Nothing
        BY DEF Fails, BufferInv, ResultShape
      <3> QED  BY <2>0, <3>1, Ending DEF StoreBatch, Fetch, Mark, MemoryStats, SqliteStats
    <2>2. rows'[r] = "none" <=> Expired(r, op[t].age)
      BY <2>1 DEF Cleanup, Returns
    <2> DEFINE age == op[t].age * TicksPerSecond
               stamp == (marked[r] \div TicksPerSecond) * TicksPerSecond
    <2>3. Expired(r, op[t].age) <=> op[t].age = 0 \/ now - stamp >= age
      BY DEF Expired
    <2>4. stamp \in Nat /\ stamp <= marked[r] /\ marked[r] < stamp + TicksPerSecond
      BY <2>0, WholeSeconds
    <2>5. age \in Nat /\ (op[t].age = 0 => age = 0)
      BY <2>7
    <2> HIDE DEF age, stamp
    <2>6. /\ now - marked[r] >= age => rows'[r] = "none"
          /\ rows'[r] = "none" => now - marked[r] + TicksPerSecond > age
      BY <2>0, <2>2, <2>3, <2>4, <2>5
    <2> QED  BY <2>6 DEF age
  <1>2. Init => MarksPast
    BY DEF Init, MarksPast
  <1> QED  BY <1>1, <1>2, BufferInit, BufferStep, MarksPastStep, PTL DEF Spec, CleanupByAge, CleanupStep

(***************************************************************************)
(* The statistics of the in-memory buffer.                                 *)
(***************************************************************************)

\* What a step does to the locks.
LEMMA LockSteps ==
    ASSUME BufferInv, Next
    PROVE  \/ UNCHANGED <<queue, op>>
           \/ \E t \in Tasks, o \in Operations \ {Idle} : Call(t, o)
           \/ \E t \in Tasks : NextLock(t) \/ \E r : Returns(t, r)
  <1>1. ASSUME NEW t \in Tasks, Begin(t)
        PROVE  \E o \in Operations \ {Idle} : Call(t, o)
    <2>1. PICK tab \in Table :
              \/ \E ids \in SUBSET Keys(tab) :
                     Call(t, [kind |-> "store_batch", tab |-> tab, ids |-> ids])
              \/ Call(t, [kind |-> "fetch_pending", tab |-> tab])
              \/ Call(t, [kind |-> "mark_uploaded", tab |-> tab, ids |-> result[t].ids])
      BY <1>1 DEF Begin
    <2>2. Keys(tab) \subseteq Records /\ result[t].ids \subseteq Records
      BY DEF Keys, Records, BufferInv, ResultShape
    <2>3. ASSUME NEW ids \in SUBSET Records
          PROVE  /\ [kind |-> "store_batch", tab |-> tab, ids |-> ids] \in Operations \ {Idle}
                 /\ [kind |-> "mark_uploaded", tab |-> tab, ids |-> ids] \in Operations \ {Idle}
      BY DEF Operations, Idle
    <2>4. [kind |-> "fetch_pending", tab |-> tab] \in Operations \ {Idle}
      BY DEF Operations, Idle
    <2>5. CASE \E ids \in SUBSET Keys(tab) :
                  Call(t, [kind |-> "store_batch", tab |-> tab, ids |-> ids])
      BY <2>2, <2>3, <2>5
    <2> QED  BY <2>1, <2>2, <2>3, <2>4, <2>5
  <1>2. ASSUME NEW t \in Tasks, BeginMaintenance(t)
        PROVE  \E o \in Operations \ {Idle} : Call(t, o)
    <2>1. /\ [kind |-> "get_stats"] \in Operations \ {Idle}
          /\ \A age \in Ages : [kind |-> "cleanup_uploaded", age |-> age] \in Operations \ {Idle}
      BY DEF Operations, Idle
    <2> QED  BY <1>2, <2>1 DEF BeginMaintenance
  <1>3. ASSUME NEW t \in Tasks, Step(t)
        PROVE  UNCHANGED <<queue, op>> \/ NextLock(t) \/ \E r : Returns(t, r)
    BY <1>3 DEF Step, StoreBatch, Fetch, Mark, Cleanup, MemoryStats, SqliteStats, Fails
  <1>4. Tick => UNCHANGED <<queue, op>>
    BY DEF Tick
  <1> QED  BY <1>1, <1>2, <1>3, <1>4 DEF Next

\* A request for a lock is for the access its operation needs.
AccessInv ==
    \A tab \in Table : \A i \in DOMAIN queue[tab] :
        queue[tab][i].exclusive = Exclusive(op[queue[tab][i].task])

\* The task of a request is one of Tasks.
LEMMA RequestTask ==
    ASSUME QueuesOK, NEW tab \in Table, NEW i \in DOMAIN queue[tab]
    PROVE  queue[tab][i].task \in Tasks
  <1>1. queue[tab][i] \in LockRequest
    BY DEF QueuesOK
  <1> QED  BY <1>1 DEF LockRequest

\* One more request in a queue, with the access of its operation.
LEMMA EnqueueAccess ==
    ASSUME QueuesOK, AccessInv, NEW t \in Tasks, NEW tab \in Table, NEW o, Enqueue(t, tab, o),
           ~Waits(t, tab), op'[t] = o,
           \A x \in Table : \A i \in DOMAIN queue[x] :
               op'[queue[x][i].task] = op[queue[x][i].task]
    PROVE  AccessInv'
  <1> DEFINE e == [task |-> t, exclusive |-> Exclusive(o)]
  <1>1. e \in LockRequest /\ e.task = t /\ e.exclusive = Exclusive(o)
    BY DEF LockRequest, Exclusive
  <1>2. queue' = [queue EXCEPT ![tab] = Append(queue[tab], e)]
    BY DEF Enqueue
  <1> HIDE DEF e
  <1>3. /\ queue[tab] \in Seq(LockRequest) /\ Unrepeated(queue[tab])
        /\ \A i \in DOMAIN queue[tab] : queue[tab][i].task # e.task
    BY <1>1 DEF QueuesOK, Waits
  <1>4. \A i \in DOMAIN Append(queue[tab], e) :
           Append(queue[tab], e)[i] = e
           \/ \E j \in DOMAIN queue[tab] : Append(queue[tab], e)[i] = queue[tab][j]
    BY <1>1, <1>3, EnqueueType
  <1>5. queue'[tab] = Append(queue[tab], e) /\ \A x \in Table \ {tab} : queue'[x] = queue[x]
    BY <1>2 DEF QueuesOK
  <1> SUFFICES ASSUME NEW x \in Table, NEW i \in DOMAIN queue'[x]
               PROVE  queue'[x][i].exclusive = Exclusive(op'[queue'[x][i].task])
    BY DEF AccessInv, Exclusive
  <1>6. queue'[x][i] = e \/ \E j \in DOMAIN queue[x] : queue'[x][i] = queue[x][j]
    BY <1>4, <1>5
  <1>7. CASE queue'[x][i] = e
    BY <1>1, <1>7
  <1>8. CASE \E j \in DOMAIN queue[x] : queue'[x][i] = queue[x][j]
    BY <1>8 DEF AccessInv
  <1> QED  BY <1>6, <1>7, <1>8

\* Every step keeps the accesses right.
LEMMA AccessStep == BufferInv /\ AccessInv /\ [Next]_vars => AccessInv'
  <1> SUFFICES ASSUME BufferInv, AccessInv, [Next]_vars PROVE AccessInv'
    OBVIOUS
  <1>0. QueuesOK /\ op \in [Tasks -> Operations]
    BY TypeParts DEF BufferInv
  <1>1. CASE UNCHANGED <<queue, op>>
    BY <1>1 DEF AccessInv, Exclusive
  <1>2. ASSUME NEW t \in Tasks, NEW o \in Operations \ {Idle}, Call(t, o)
        PROVE  AccessInv'
    <2>1. op[t] = Idle /\ op' = [op EXCEPT ![t] = o]
      BY <1>2 DEF Call
    <2>2. \A x \in Table : \A i \in DOMAIN queue[x] :
             queue[x][i].task # t /\ op'[queue[x][i].task] = op[queue[x][i].task]
      BY <1>0, <2>1, RequestTask DEF QueuesOK
    <2>3. CASE backend = "memory"
      <3>1. Enqueue(t, LockOrder(o)[1], o) /\ LockOrder(o)[1] \in Table
        BY <1>2, <2>3, LockOrderType DEF Call
      <3>2. ~Waits(t, LockOrder(o)[1]) /\ op'[t] = o
        BY <1>0, <2>1, <2>2, <3>1 DEF Waits
      <3> QED  BY <1>0, <2>2, <3>1, <3>2, EnqueueAccess
    <2>4. CASE backend # "memory"
      <3>1. queue' = queue
        BY <1>2, <2>4 DEF Call
      <3> QED  BY <2>2, <3>1 DEF AccessInv, Exclusive
    <2> QED  BY <2>3, <2>4
  <1>3. ASSUME NEW t \in Tasks, NextLock(t)
        PROVE  AccessInv'
    <2>1. /\ Enqueue(t, LockOrder(op[t])[2], op[t]) /\ ~Waits(t, LockOrder(op[t])[2])
          /\ op[t] # Idle /\ Len(LockOrder(op[t])) = 2 /\ op' = op
      BY <1>3 DEF NextLock, HalfWay
    <2>2. LockOrder(op[t])[2] \in Table
      BY <1>0, <2>1, LockOrderType
    <2> QED  BY <1>0, <2>1, <2>2, EnqueueAccess
  <1>4. ASSUME NEW t \in Tasks, NEW r, Returns(t, r)
        PROVE  AccessInv'
    <2>1. /\ queue' = [x \in Table |-> Without(queue[x], t)]
          /\ op' = [op EXCEPT ![t] = Idle]
      BY <1>4 DEF Returns, Release
    <2> SUFFICES ASSUME NEW x \in Table, NEW i \in DOMAIN queue'[x]
                 PROVE  queue'[x][i].exclusive = Exclusive(op'[queue'[x][i].task])
      BY DEF AccessInv, Exclusive
    <2>2. queue'[x][i].task # t /\ \E j \in DOMAIN queue[x] : queue'[x][i] = queue[x][j]
      BY <1>0, <2>1, WithoutType DEF QueuesOK
    <2>3. PICK j \in DOMAIN queue[x] : queue'[x][i] = queue[x][j]
      BY <2>2
    <2>4. op'[queue[x][j].task] = op[queue[x][j].task]
      BY <1>0, <2>1, <2>2, <2>3, RequestTask
    <2> QED  BY <2>3, <2>4 DEF AccessInv
  <1> QED  BY <1>1, <1>2, <1>3, <1>4, LockSteps DEF vars

\* Who holds a lock exclusively holds it alone.
LEMMA HeldAlone ==
    ASSUME QueuesOK, AccessInv, NEW t \in Tasks, NEW u \in Tasks, t # u, NEW tab \in Table,
           Holds(t, tab), Exclusive(op[u])
    PROVE  ~Holds(u, tab)
  <1> SUFFICES ASSUME Holds(u, tab) PROVE FALSE
    OBVIOUS
  <1>0. DOMAIN queue[tab] = 1..Len(queue[tab]) /\ Len(queue[tab]) \in Nat
    BY DEF QueuesOK
  <1>1. PICK i \in DOMAIN queue[tab] :
            queue[tab][i].task = t /\ (i = 1 \/ \A k \in 1..i : ~queue[tab][k].exclusive)
    BY DEF Holds
  <1>2. PICK j \in DOMAIN queue[tab] :
            queue[tab][j].task = u /\ (j = 1 \/ \A k \in 1..j : ~queue[tab][k].exclusive)
    BY DEF Holds
  <1>3. queue[tab][j].exclusive = Exclusive(op[u])
    BY <1>2 DEF AccessInv
  <1>6. j \in 1..j
    BY <1>0, <1>2
  <1>4. j = 1
    BY <1>2, <1>3, <1>6, Zenon
  <1>5. 1 \in 1..i
    BY <1>0, <1>1
  <1> QED  BY <1>1, <1>2, <1>3, <1>4, <1>5

\* A task keeps a lock when others ask for it or give it back.
LEMMA HoldsEnqueue ==
    ASSUME QueuesOK, NEW t \in Tasks, NEW u \in Tasks, NEW tab \in Table, NEW x \in Table, NEW o,
           Holds(t, tab), Enqueue(u, x, o)
    PROVE  Holds(t, tab)'
  <1> DEFINE e == [task |-> u, exclusive |-> Exclusive(o)]
  <1>1. queue' = [queue EXCEPT ![x] = Append(queue[x], e)]
    BY DEF Enqueue
  <1>2. e \in LockRequest
    BY DEF LockRequest, Exclusive
  <1> HIDE DEF e
  <1>3. queue[tab] \in Seq(LockRequest) /\ Len(queue[tab]) \in Nat /\ DOMAIN queue[tab] = 1..Len(queue[tab])
    BY DEF QueuesOK
  <1>4. CASE tab = x
    <2>1. queue'[tab] = Append(queue[tab], e)
      BY <1>1, <1>4 DEF QueuesOK
    <2>2. /\ DOMAIN Append(queue[tab], e) = 1..(Len(queue[tab]) + 1)
          /\ \A k \in 1..Len(queue[tab]) : Append(queue[tab], e)[k] = queue[tab][k]
      BY <1>2, <1>3
    <2>3. PICK i \in DOMAIN queue[tab] :
              queue[tab][i].task = t /\ (i = 1 \/ \A k \in 1..i : ~queue[tab][k].exclusive)
      BY DEF Holds
    <2>4. i \in DOMAIN queue'[tab] /\ \A k \in 1..i : queue'[tab][k] = queue[tab][k]
      BY <1>3, <2>1, <2>2, <2>3
    <2>5. i \in 1..i
      BY <1>3, <2>3
    <2> QED  BY <2>3, <2>4, <2>5 DEF Holds
  <1>5. CASE tab # x
    <2>1. queue'[tab] = queue[tab]
      BY <1>1, <1>5 DEF QueuesOK
    <2> QED  BY <2>1 DEF Holds
  <1> QED  BY <1>4, <1>5

LEMMA HoldsRelease ==
    ASSUME QueuesOK, NEW t \in Tasks, NEW u \in Tasks, t # u, NEW tab \in Table,
           Holds(t, tab), Release(u)
    PROVE  Holds(t, tab)'
  <1>1. queue'[tab] = Without(queue[tab], u)
    BY DEF Release
  <1>2. queue[tab] \in Seq(LockRequest) /\ Len(queue[tab]) \in Nat /\ DOMAIN queue[tab] = 1..Len(queue[tab])
    BY DEF QueuesOK
  <1>3. CASE \E i \in DOMAIN queue[tab] : queue[tab][i].task = u
    <2> DEFINE q == queue[tab]
               k == CHOOSE i \in DOMAIN q : q[i].task = u
    <2>1. k \in 1..Len(q) /\ q[k].task = u
      BY <1>2, <1>3
    <2>2. queue'[tab] = RemoveAt(q, k)
      BY <1>1, <1>3 DEF Without
    <2> HIDE DEF k
    <2>3. /\ DOMAIN RemoveAt(q, k) = 1..(Len(q) - 1)
          /\ \A j \in 1..(Len(q) - 1) : RemoveAt(q, k)[j] = IF j < k THEN q[j] ELSE q[j + 1]
      BY <1>2, <2>1, RemoveAtElements
    <2>4. PICK i \in DOMAIN q : q[i].task = t /\ (i = 1 \/ \A j \in 1..i : ~q[j].exclusive)
      BY DEF Holds
    <2> DEFINE w == queue'[tab]
               n == IF i < k THEN i ELSE i - 1
    <2>5. i # k /\ i \in 1..Len(q) /\ n \in 1..(Len(q) - 1) /\ n <= i
      BY <1>2, <2>1, <2>4
    <2>6. /\ DOMAIN w = 1..(Len(q) - 1)
          /\ \A j \in 1..(Len(q) - 1) : w[j] = IF j < k THEN q[j] ELSE q[j + 1]
      BY <2>2, <2>3
    <2> HIDE DEF w, q
    <2>7. w[n] = q[i]
      BY <1>2, <2>1, <2>5, <2>6 DEF q
    <2>8. ASSUME i # 1, NEW j \in 1..n
          PROVE  ~w[j].exclusive
      <3>1. PICK m \in 1..i : w[j] = q[m]
        <4>1. CASE j < k
          BY <1>2, <2>1, <2>5, <2>6, <4>1 DEF q
        <4>2. CASE j >= k
          <5>1. j + 1 \in 1..i /\ w[j] = q[j + 1]
            BY <1>2, <2>1, <2>5, <2>6, <4>2 DEF q
          <5> QED  BY <5>1
        <4> QED  BY <1>2, <2>1, <2>5, <4>1, <4>2 DEF q
      <3> QED  BY <2>4, <2>8, <3>1
    <2>9. i = 1 => n = 1
      BY <2>1, <2>5
    <2>10. n \in DOMAIN w /\ w[n].task = t /\ (n = 1 \/ \A j \in 1..n : ~w[j].exclusive)
      BY <2>4, <2>5, <2>6, <2>7, <2>8, <2>9
    <2> HIDE DEF n
    <2> QED  BY <2>10 DEF Holds, w
  <1>4. CASE ~\E i \in DOMAIN queue[tab] : queue[tab][i].task = u
    <2>1. queue'[tab] = queue[tab]
      BY <1>1, <1>4 DEF Without
    <2> QED  BY <2>1 DEF Holds
  <1> QED  BY <1>3, <1>4

\* So a task that waits for nothing more keeps its locks as long as its operation lasts.
LEMMA HoldsKept ==
    ASSUME BufferInv, Next, NEW t \in Tasks, op[t] # Idle, op'[t] # Idle,
           NEW tab \in Table, Holds(t, tab)
    PROVE  Holds(t, tab)'
  <1>0. QueuesOK /\ op \in [Tasks -> Operations]
    BY TypeParts DEF BufferInv
  <1>1. CASE UNCHANGED <<queue, op>>
    BY <1>1 DEF Holds
  <1>2. ASSUME NEW u \in Tasks, NEW o \in Operations \ {Idle}, Call(u, o)
        PROVE  Holds(t, tab)'
    <2>1. CASE backend = "memory"
      <3>1. Enqueue(u, LockOrder(o)[1], o) /\ LockOrder(o)[1] \in Table
        BY <1>2, <2>1, LockOrderType DEF Call
      <3> QED  BY <1>0, <3>1, HoldsEnqueue
    <2>2. CASE backend # "memory"
      <3>1. queue' = queue
        BY <1>2, <2>2 DEF Call
      <3> QED  BY <3>1 DEF Holds
    <2> QED  BY <2>1, <2>2
  <1>3. ASSUME NEW u \in Tasks, NextLock(u)
        PROVE  Holds(t, tab)'
    <2>1. /\ Enqueue(u, LockOrder(op[u])[2], op[u])
          /\ op[u] # Idle /\ Len(LockOrder(op[u])) = 2
      BY <1>3 DEF NextLock, HalfWay
    <2>2. LockOrder(op[u])[2] \in Table
      BY <1>0, <2>1, LockOrderType
    <2> QED  BY <1>0, <2>1, <2>2, HoldsEnqueue
  <1>4. ASSUME NEW u \in Tasks, NEW r, Returns(u, r)
        PROVE  Holds(t, tab)'
    <2>1. u # t /\ Release(u)
      BY <1>0, <1>4 DEF Returns
    <2> QED  BY <1>0, <2>1, HoldsRelease
  <1> QED  BY <1>1, <1>2, <1>3, <1>4, LockSteps


\* The numbers a count can yield.
Numbers == {Cardinality(rs) : rs \in SUBSET Records}

\* Once get_stats has begun to count, it holds both locks, and every number it has got
\* so far is still the right one.
StatsInv ==
    backend = "memory" =>
        \A t \in Tasks :
            op[t].kind = "get_stats" =>
                LET stats == result[t].stats
                IN /\ stats \in Seq(Numbers) /\ Len(stats) < Len(Counters)
                   /\ stats # <<>> => Holds(t, "readings") /\ Holds(t, "statuses")
                   /\ \A i \in 1..Len(stats) : stats[i] = Count(i, rows)

LEMMA CountNumber ==
    ASSUME NEW i \in 1..4, NEW r
    PROVE  Count(i, r) \in Numbers
  <1>1. Keys(Counters[i].tab) \subseteq Records
    BY DEF Keys, Records
  <1> QED  BY <1>1 DEF Count, Numbers

LEMMA FourCounters == Len(Counters) = 4 /\ DOMAIN Counters = 1..4
  BY DEF Counters

\* The locks of an operation that is ready.
LEMMA ReadyHolds ==
    ASSUME NEW t \in Tasks, op[t] \in Operations, Ready(t), backend = "memory"
    PROVE  /\ op[t].kind = "get_stats" => Holds(t, "readings") /\ Holds(t, "statuses")
           /\ \E tab \in Table : Holds(t, tab)
  <1>0. op[t] # Idle /\ \A i \in DOMAIN LockOrder(op[t]) : Holds(t, LockOrder(op[t])[i])
    BY DEF Ready
  <1>1. CASE op[t].kind \in {"get_stats", "cleanup_uploaded"}
    <2>1. LockOrder(op[t]) = <<"readings", "statuses">>
      BY <1>1 DEF LockOrder
    <2>2. 1 \in DOMAIN LockOrder(op[t]) /\ 2 \in DOMAIN LockOrder(op[t])
      BY <2>1
    <2> QED  BY <1>0, <2>1, <2>2 DEF Table
  <1>2. CASE op[t].kind \notin {"get_stats", "cleanup_uploaded"}
    <2>1. LockOrder(op[t]) = <<op[t].tab>> /\ op[t].tab \in Table
      BY <1>0, <1>2, OperationFields DEF LockOrder
    <2>2. 1 \in DOMAIN LockOrder(op[t])
      BY <2>1
    <2> QED  BY <1>0, <1>2, <2>1, <2>2
  <1> QED  BY <1>1, <1>2

\* While a task counts, no row changes: whoever changes one holds a lock exclusively.
LEMMA CountingStable ==
    ASSUME BufferInv, AccessInv, Next, backend = "memory", NEW t \in Tasks,
           op[t].kind = "get_stats", Holds(t, "readings"), Holds(t, "statuses")
    PROVE  rows' = rows
  <1>0. QueuesOK /\ op \in [Tasks -> Operations]
    BY TypeParts DEF BufferInv
  <1> SUFFICES ASSUME rows' # rows PROVE FALSE
    OBVIOUS
  <1>1. PICK u \in Tasks : StoreBatch(u) \/ Mark(u) \/ Cleanup(u)
    BY RowsChange
  <1>2. /\ Ready(u) /\ u # t
        /\ op[u].kind \in {"store_batch", "mark_uploaded", "cleanup_uploaded"}
    BY <1>1 DEF StoreBatch, Mark, Cleanup
  <1>3. Exclusive(op[u])
    BY <1>2 DEF Exclusive
  <1>4. PICK tab \in Table : Holds(u, tab)
    BY <1>0, <1>2, ReadyHolds
  <1>5. Holds(t, tab)
    BY <1>4 DEF Table
  <1> QED  BY <1>0, <1>2, <1>3, <1>4, <1>5, HeldAlone

\* What a step does to the result of a task whose get_stats goes on.
LEMMA StatsGoOn ==
    ASSUME BufferInv, Next, backend = "memory", NEW t \in Tasks, op'[t].kind = "get_stats"
    PROVE  \/ op[t] = Idle /\ result'[t].stats = <<>>
           \/ op[t] = op'[t] /\ result'[t].stats = result[t].stats
           \/ /\ op[t] = op'[t] /\ MemoryStats(t) /\ UNCHANGED <<rows, queue>>
              /\ Len(result[t].stats) + 1 # Len(Counters)
              /\ result'[t].stats = Append(result[t].stats, Count(Len(result[t].stats) + 1, rows))
  <1>0. op \in [Tasks -> Operations] /\ ResultShape /\ op'[t] # Idle
    BY DEF BufferInv, TypeOK, Idle
  <1>1. ASSUME NEW u \in Tasks, NEW o, Call(u, o)
        PROVE  \/ op[t] = Idle /\ result'[t].stats = <<>>
               \/ op[t] = op'[t] /\ result'[t].stats = result[t].stats
    BY <1>0, <1>1 DEF Call, Nothing, ResultShape
  <1>2. ASSUME NEW u \in Tasks, Begin(u) \/ BeginMaintenance(u)
        PROVE  \E o : Call(u, o)
    BY <1>2 DEF Begin, BeginMaintenance
  <1>3. CASE Tick
    BY <1>3 DEF Tick
  <1>4. ASSUME NEW u \in Tasks, Step(u), u # t
        PROVE  op[t] = op'[t] /\ result'[t].stats = result[t].stats
    <2>1. op[t] = op'[t]
      BY <1>0, <1>4 DEF Step, NextLock, StoreBatch, Fetch, Mark, Cleanup, MemoryStats, SqliteStats, Fails, Returns
    <2>2. result'[t] = result[t]
      BY <1>0, <1>4 DEF Step, NextLock, StoreBatch, Fetch, Mark, Cleanup, MemoryStats, SqliteStats, Fails,
                        ResultShape
    <2> QED  BY <2>1, <2>2
  <1>5. CASE NextLock(t)
    BY <1>5 DEF NextLock
  <1>6. ~StoreBatch(t) /\ ~Fetch(t) /\ ~Mark(t) /\ ~Cleanup(t) /\ ~SqliteStats(t) /\ ~Fails(t)
    BY <1>0 DEF StoreBatch, Fetch, Mark, Cleanup, SqliteStats, Fails, Returns
  <1>7. CASE MemoryStats(t)
    <2> DEFINE n == Len(result[t].stats) + 1
    <2>1. /\ result' = [result EXCEPT ![t].stats = Append(result[t].stats, Count(n, rows))]
          /\ IF n = Len(Counters) THEN Returns(t, rows) ELSE UNCHANGED <<rows, op, queue>>
      BY <1>7 DEF MemoryStats
    <2>2. n # Len(Counters)
      BY <1>0, <2>1 DEF Returns
    <2>3. result'[t].stats = Append(result[t].stats, Count(n, rows))
      BY <1>0, <2>1 DEF ResultShape
    <2> QED  BY <1>7, <2>1, <2>2, <2>3
  <1> QED  BY <1>1, <1>2, <1>3, <1>4, <1>5, <1>6, <1>7 DEF Next, Step

\* One more number.
LEMMA AppendNumber ==
    ASSUME NEW s \in Seq(Numbers), NEW x \in Numbers
    PROVE  /\ Append(s, x) \in Seq(Numbers) /\ Len(Append(s, x)) = Len(s) + 1 /\ Len(s) \in Nat
           /\ Append(s, x) # <<>>
           /\ \A i \in 1..Len(s) : Append(s, x)[i] = s[i]
           /\ Append(s, x)[Len(s) + 1] = x
  <1> HIDE DEF Numbers
  <1> QED  OBVIOUS

LEMMA StatsInvStep == BufferInv /\ AccessInv /\ StatsInv /\ [Next]_vars => StatsInv'
  <1> SUFFICES ASSUME BufferInv, AccessInv, StatsInv, [Next]_vars, backend' = "memory",
                      NEW t \in Tasks, op'[t].kind = "get_stats"
               PROVE  /\ result'[t].stats \in Seq(Numbers) /\ Len(result'[t].stats) < Len(Counters)
                      /\ result'[t].stats # <<>> => Holds(t, "readings")' /\ Holds(t, "statuses")'
                      /\ \A i \in 1..Len(result'[t].stats) : result'[t].stats[i] = Count(i, rows')
    BY DEF StatsInv, Counters, Count
  <1> DEFINE stats == result[t].stats
  <1>1. CASE UNCHANGED vars
    BY <1>1 DEF vars, StatsInv, Holds
  <1>2. CASE Next
    <2>0. backend = "memory" /\ op'[t] # Idle
      <3>1. CASE Tick  BY <3>1 DEF Tick
      <3>2. ASSUME NEW u \in Tasks, NEW o, Call(u, o)
            PROVE  backend' = backend
        BY <3>2 DEF Call
      <3>3. ASSUME NEW u \in Tasks, Step(u)
            PROVE  backend' = backend
        BY <3>3 DEF Step, NextLock, StoreBatch, Fetch, Mark, Cleanup, MemoryStats, SqliteStats, Fails
      <3>4. backend' = backend
        BY <1>2, <3>1, <3>2, <3>3 DEF Next, Begin, BeginMaintenance
      <3>5. op'[t] # Idle
        BY DEF Idle
      <3> QED  BY <3>4, <3>5
    <2>1. CASE op[t] = Idle /\ result'[t].stats = <<>>
      BY <2>1, FourCounters
    <2>2. ASSUME op[t] = op'[t]
          PROVE  /\ stats \in Seq(Numbers) /\ Len(stats) < Len(Counters)
                 /\ stats # <<>> => Holds(t, "readings") /\ Holds(t, "statuses")
                 /\ \A i \in 1..Len(stats) : stats[i] = Count(i, rows)
      BY <2>0, <2>2 DEF StatsInv
    <2>3. ASSUME op[t] = op'[t], Holds(t, "readings"), Holds(t, "statuses")
          PROVE  Holds(t, "readings")' /\ Holds(t, "statuses")' /\ rows' = rows
      BY <1>2, <2>0, <2>3, HoldsKept, CountingStable DEF Table
    <2>4. CASE op[t] = op'[t] /\ result'[t].stats = stats
      <3>1. CASE stats = <<>>
        BY <2>4, <3>1, FourCounters
      <3>2. CASE stats # <<>>
        BY <2>2, <2>3, <2>4, <3>2
      <3> QED  BY <3>1, <3>2
    <2>5. CASE /\ op[t] = op'[t] /\ MemoryStats(t) /\ UNCHANGED <<rows, queue>>
               /\ Len(stats) + 1 # Len(Counters)
               /\ result'[t].stats = Append(stats, Count(Len(stats) + 1, rows))
      <3>1. stats \in Seq(Numbers) /\ Len(stats) < 4 /\ Len(stats) + 1 # 4
        BY <2>2, <2>5, FourCounters
      <3>2. Len(stats) \in Nat /\ Len(stats) + 1 \in 1..4
        BY <3>1
      <3>3. Count(Len(stats) + 1, rows) \in Numbers
        BY <3>2, CountNumber
      <3> DEFINE x == Count(Len(stats) + 1, rows)
      <3>4. result'[t].stats = Append(stats, x)
        BY <2>5
      <3>5. /\ Append(stats, x) \in Seq(Numbers) /\ Len(Append(stats, x)) = Len(stats) + 1
            /\ \A i \in 1..Len(stats) : Append(stats, x)[i] = stats[i]
            /\ Append(stats, x)[Len(stats) + 1] = x
        <4>1. x \in Numbers
          BY <3>3
        <4> HIDE DEF stats, x, Numbers
        <4> QED  BY <3>1, <4>1, AppendNumber, Zenon
      <3>6. Holds(t, "readings")' /\ Holds(t, "statuses")'
        <4>1. Ready(t) /\ op[t] \in Operations
          BY <2>5 DEF MemoryStats, BufferInv, TypeOK
        <4>2. Holds(t, "readings") /\ Holds(t, "statuses")
          BY <2>0, <2>5, <4>1, ReadyHolds DEF MemoryStats
        <4> QED  BY <2>3, <2>5, <4>2
      <3>7. ASSUME NEW i \in 1..(Len(stats) + 1)
            PROVE  Append(stats, x)[i] = Count(i, rows)
        <4>1. CASE i = Len(stats) + 1   BY <3>5, <4>1
        <4>2. CASE i \in 1..Len(stats)
          <5>1. stats[i] = Count(i, rows)
            BY <2>2, <2>5, <4>2
          <5> QED  BY <3>5, <4>2, <5>1
        <4> QED  BY <3>2, <4>1, <4>2
      <3>8. rows' = rows
        BY <2>5
      <3> HIDE DEF x
      <3> QED  BY <3>1, <3>2, <3>4, <3>5, <3>6, <3>7, <3>8, FourCounters
    <2> QED  BY <1>2, <2>0, <2>1, <2>4, <2>5, StatsGoOn
  <1> QED  BY <1>1, <1>2

StatsStep ==
    \A t \in Tasks :
        backend = "memory" /\ op[t].kind = "get_stats" /\ op'[t] = Idle =>
            /\ Len(result'[t].stats) = Len(Counters)
            /\ \A i \in DOMAIN Counters : result'[t].stats[i] = Count(i, rows')

\* Whatever any number of tasks store, mark and clean up meanwhile, the numbers that
\* get_stats of the in-memory buffer counts one after the other are those of one instant:
\* it holds both locks from the first count to the last, and nobody changes a row
\* without holding one of them exclusively (memory.rs).
THEOREM BufferStatsOfOneInstant == Spec => StatsOfOneInstant
  <1> DEFINE Inv == BufferInv /\ AccessInv /\ StatsInv
  <1>1. Inv /\ [Next]_vars => [StatsStep]_vars
    <2> SUFFICES ASSUME Inv, Next, NEW t \in Tasks, backend = "memory",
                        op[t].kind = "get_stats", op'[t] = Idle
                 PROVE  /\ Len(result'[t].stats) = Len(Counters)
                        /\ \A i \in DOMAIN Counters : result'[t].stats[i] = Count(i, rows')
      BY DEF StatsStep
    <2> DEFINE stats == result[t].stats
               x == Count(Len(stats) + 1, rows)
    <2>0. op[t] # Idle /\ ResultShape
      BY DEF Idle, BufferInv
    <2>1. MemoryStats(t)
      BY <2>0, Ending DEF StoreBatch, Fetch, Mark, Cleanup, SqliteStats, Fails
    <2>2. /\ stats \in Seq(Numbers) /\ Len(stats) < 4
          /\ \A i \in 1..Len(stats) : stats[i] = Count(i, rows)
      BY FourCounters DEF StatsInv
    <2>3. Len(stats) + 1 = 4 /\ rows' = rows
      BY <2>0, <2>1, FourCounters DEF MemoryStats, Returns
    <2>4. result'[t].stats = Append(stats, x)
      BY <2>0, <2>1 DEF MemoryStats, ResultShape
    <2>5. Len(stats) = 3 /\ x = Count(4, rows) /\ x \in Numbers
      <3>1. Len(stats) = 3
        <4> HIDE DEF Numbers, stats
        <4>1. Len(stats) \in Nat
          BY <2>2
        <4>2. \A n \in Nat : n + 1 = 4 => n = 3
          OBVIOUS
        <4> QED  BY <2>3, <4>1, <4>2, Zenon
      <3> QED  BY <3>1, CountNumber
    <2> HIDE DEF x
    <2>6. /\ Len(Append(stats, x)) = 4
          /\ \A i \in 1..3 : Append(stats, x)[i] = stats[i]
          /\ Append(stats, x)[4] = x
      <3> HIDE DEF stats, Numbers, Inv
      <3>1. /\ Len(Append(stats, x)) = Len(stats) + 1
            /\ \A i \in 1..Len(stats) : Append(stats, x)[i] = stats[i]
            /\ Append(stats, x)[Len(stats) + 1] = x
        BY <2>2, <2>5, AppendNumber, Zenon
      <3>2. 3 + 1 = 4
        OBVIOUS
      <3> QED  BY <2>5, <3>1, <3>2, Zenon
    <2>7. ASSUME NEW i \in 1..4
          PROVE  result'[t].stats[i] = Count(i, rows')
      <3>1. CASE i = 4        BY <2>3, <2>4, <2>5, <2>6, <3>1
      <3>2. CASE i \in 1..3   BY <2>2, <2>3, <2>4, <2>5, <2>6, <3>2
      <3> QED  BY <3>1, <3>2
    <2> QED  BY <2>4, <2>6, <2>7, FourCounters
  <1>2. Init => AccessInv /\ StatsInv
    <2>1. Init => AccessInv
      BY DEF Init, AccessInv
    <2>2. Init => StatsInv
      BY DEF Init, StatsInv, Idle
    <2> QED  BY <2>1, <2>2
  <1> QED
    BY <1>1, <1>2, BufferInit, BufferStep, AccessStep, StatsInvStep, PTL DEF Spec, StatsOfOneInstant, StatsStep

=============================================================================

------------------------ MODULE RecordRegistryProofs ------------------------
(***************************************************************************)
(* Proofs about module RecordRegistry, for any set of records and batches  *)
(* and any number of handlers and readers: what is acknowledged is stored  *)
(* and stays, memory and SQLite store it once, and what a reader gets      *)
(* while others store is whole and current.                                *)
(***************************************************************************)
EXTENDS RecordRegistry, QueryProofs

USE RecordAssumption, TicksAssumption

(***************************************************************************)
(* The inductive invariant.                                                *)
(***************************************************************************)

\* What a handler at work and a reader keep.
StoreOps ==
    {o \in [kind : {"store"}, pc : {"row", "errors", "sensors"}, batch : Batches, next : Nat \ {0}] :
        o.next <= Len(o.batch)}

Part == [id : Records, errs : Nat, parts : Nat]

IsReadOp(o) ==
    /\ DOMAIN o = {"kind", "pc", "about", "page", "got", "errs", "known"}
    /\ o.kind \in {"get", "get_latest", "list"} /\ o.pc \in {"errors", "sensors"}
    /\ o.page \in Seq(Records) /\ o.page # <<>>
    /\ o.got \in Seq(Part) /\ o.errs \in Nat

TypeInv ==
    /\ table \in {"readings", "statuses"} /\ backend \in Backends
    /\ rows \in [Records -> Nat] /\ errs \in [Records -> Nat] /\ parts \in [Records -> Nat]
    /\ acked \subseteq Records
    /\ op = [t \in Tasks |-> op[t]]
    /\ answer = [t \in Readers |-> answer[t]]
    /\ \A h \in Handlers : op[h] \in {Idle} \cup StoreOps
    /\ \A t \in Readers : op[t] # Idle => IsReadOp(op[t])

\* A record with all of its rows.
Whole(r) == rows[r] >= 1 /\ (table = "statuses" => errs[r] >= 1 /\ parts[r] >= 1)

\* The records of a batch before the next one are stored, the next one as far as the
\* handler has come with it ...
StoringInv ==
    \A h \in Handlers : op[h] # Idle =>
        /\ \A i \in 1 .. op[h].next - 1 : Whole(op[h].batch[i])
        /\ op[h].pc # "row" =>
              backend = "clickhouse" /\ table = "statuses" /\ rows[Current(h)] >= 1
        /\ op[h].pc = "sensors" => errs[Current(h)] >= 1

\* ... a reader works on statuses that are stored and has found whole ones so far ...
PartWhole(p, known) ==
    IF backend = "clickhouse" THEN p.id \in known => p.errs >= 1 /\ p.parts >= 1
    ELSE p.errs = 1 /\ p.parts = 1

ReadingInv ==
    \A t \in Readers : op[t] # Idle =>
        /\ table = "statuses" /\ backend # "memory" /\ op[t].known \subseteq acked
        /\ \A i \in DOMAIN op[t].page : op[t].page[i] \in Stored
        /\ \A i \in DOMAIN op[t].got : PartWhole(op[t].got[i], op[t].known)
        /\ op[t].pc = "sensors" =>
              IF backend = "clickhouse" THEN Head(op[t].page) \in op[t].known => op[t].errs >= 1
              ELSE op[t].errs = 1

\* ... and what it has found and is to find is as new and as much as it should be.
Newest(r, d, known) ==
    \A q \in known : Content[q].device = d => SortKey("timestamp", q) <= SortKey("timestamp", r)

FirstPage == [mode |-> "offset", at |-> 0]

CurrentInv ==
    \A t \in Readers : op[t] # Idle =>
        /\ op[t].kind = "get_latest" =>
              /\ op[t].got = <<>> /\ Len(op[t].page) = 1
              /\ Newest(Head(op[t].page), op[t].about, op[t].known)
        /\ op[t].kind = "list" /\ op[t].about = FirstPage =>
              Len(op[t].got) + Len(op[t].page) >= Min({2, Cardinality(op[t].known)})

RecordInv ==
    /\ TypeInv /\ AckedStored /\ StoredOnce /\ StoringInv
    /\ ReadingInv /\ CurrentInv
    /\ ReadsWhole /\ ReadsCurrent

(***************************************************************************)
(* Storing.                                                                *)
(***************************************************************************)

\* The record a handler is storing.
LEMMA CurrentType ==
    ASSUME TypeInv, NEW h \in Handlers, op[h].kind = "store"
    PROVE  /\ op[h] \in StoreOps /\ op[h] # Idle
           /\ op[h].batch \in Seq(Records) /\ op[h].batch # <<>>
           /\ op[h].next \in 1 .. Len(op[h].batch)
           /\ Current(h) \in Records /\ Range(op[h].batch) \subseteq Records
  <1>1. op[h] \in StoreOps /\ op[h] # Idle
    <2>1. Idle.kind = "idle"
      BY DEF Idle
    <2>2. op[h] # Idle
      BY <2>1
    <2>3. op[h] \in {Idle} \cup StoreOps
      BY DEF TypeInv
    <2> QED  BY <2>2, <2>3
  <1>2. op[h].batch \in Seq(Records) /\ op[h].batch # <<>> /\ op[h].next \in Nat \ {0}
        /\ op[h].next <= Len(op[h].batch)
    BY <1>1 DEF StoreOps
  <1>3. op[h].next \in 1 .. Len(op[h].batch)
    BY <1>2
  <1>4. Current(h) \in Records /\ Range(op[h].batch) \subseteq Records
    BY <1>2, <1>3 DEF Current, Range
  <1> QED  BY <1>1, <1>2, <1>3, <1>4

\* What the invariant says of the handler that takes a step.
HandlerFacts(h) ==
    op[h] # Idle =>
        /\ \A i \in 1 .. op[h].next - 1 : Whole(op[h].batch[i])
        /\ op[h].pc # "row" =>
              backend = "clickhouse" /\ table = "statuses" /\ rows[Current(h)] >= 1
        /\ op[h].pc = "sensors" => errs[Current(h)] >= 1

\* What a step of a handler does.
StoreEffect(h) ==
    /\ UNCHANGED <<table, backend, answer>>
    /\ rows' \in [Records -> Nat] /\ errs' \in [Records -> Nat] /\ parts' \in [Records -> Nat]
    /\ \A r \in Records : /\ rows[r] >= 1 => rows'[r] >= 1
                          /\ errs[r] >= 1 => errs'[r] >= 1
                          /\ parts[r] >= 1 => parts'[r] >= 1
    /\ op' = [op EXCEPT ![h] = op'[h]] /\ op'[h] \in {Idle} \cup StoreOps
    /\ acked \subseteq acked' /\ acked' \subseteq Records
    /\ \A r \in acked' : r \in acked \/ Whole(r)'
    /\ HandlerFacts(h)'
    /\ StoredOnce'

\* The rows that are there stay, and the batch goes on to its next record or is done.
LEMMA NextRecordEffect ==
    ASSUME TypeInv, NEW h \in Handlers, op[h].kind = "store", NextRecord(h),
           \A r \in {op[h].batch[i] : i \in 1 .. op[h].next} : Whole(r)'
    PROVE  /\ op' = [op EXCEPT ![h] = op'[h]] /\ op'[h] \in {Idle} \cup StoreOps
           /\ acked \subseteq acked' /\ acked' \subseteq Records
           /\ \A r \in acked' : r \in acked \/ Whole(r)'
           /\ HandlerFacts(h)'
  <1> DEFINE o == op[h]
  <1>0. /\ o \in StoreOps /\ o.batch \in Seq(Records) /\ o.next \in 1 .. Len(o.batch)
        /\ Range(o.batch) \subseteq Records /\ op = [t \in Tasks |-> op[t]] /\ h \in Tasks
        /\ acked \subseteq Records
    BY CurrentType DEF TypeInv, Tasks
  <1>1. CASE o.next = Len(o.batch)
    <2>1. op' = [op EXCEPT ![h] = Idle] /\ acked' = acked \cup Range(o.batch)
      BY <1>1 DEF NextRecord, Returns
    <2>2. op'[h] = Idle
      BY <1>0, <2>1
    <2>3. Range(o.batch) = {o.batch[i] : i \in 1 .. o.next}
      <3>1. DOMAIN o.batch = 1 .. o.next
        BY <1>0, <1>1
      <3> QED  BY <3>1 DEF Range
    <2> QED  BY <1>0, <2>1, <2>2, <2>3 DEF HandlerFacts
  <1>2. CASE o.next # Len(o.batch)
    <2>1. /\ op' = [op EXCEPT ![h] = [[o EXCEPT !.next = o.next + 1] EXCEPT !.pc = "row"]]
          /\ acked' = acked
      BY <1>0, <1>2 DEF NextRecord
    <2>2. op'[h] = [[o EXCEPT !.next = o.next + 1] EXCEPT !.pc = "row"]
      BY <1>0, <2>1
    <2>3. o.next + 1 \in Nat \ {0} /\ o.next + 1 <= Len(o.batch)
      BY <1>0, <1>2
    <2>4. /\ op'[h].kind = "store" /\ op'[h].pc = "row" /\ op'[h].batch = o.batch
          /\ op'[h].next = o.next + 1 /\ op'[h] \in StoreOps
      BY <1>0, <2>2, <2>3 DEF StoreOps
    <2>5. ASSUME NEW i \in 1 .. op'[h].next - 1, NEW r, r = op'[h].batch[i]
          PROVE  Whole(r)'
      <3>1. op'[h].next - 1 = o.next
        BY <1>0, <2>4
      <3>2. i \in 1 .. o.next /\ r = o.batch[i]
        BY <2>4, <2>5, <3>1
      <3> QED  BY <3>2
    <2>6. HandlerFacts(h)'
      BY <2>4, <2>5 DEF HandlerFacts, Whole, Idle
    <2> QED  BY <1>0, <2>1, <2>2, <2>4, <2>6
  <1> QED  BY <1>1, <1>2


\* batch_store returns without success, or before it has begun.
LEMMA ReturnsEffect ==
    ASSUME TypeInv, NEW h \in Handlers, op[h].kind = "store", NEW ok \in BOOLEAN, Returns(h, ok),
           ok => \A r \in Range(op[h].batch) : Whole(r)'
    PROVE  /\ op' = [op EXCEPT ![h] = op'[h]] /\ op'[h] \in {Idle} \cup StoreOps
           /\ acked \subseteq acked' /\ acked' \subseteq Records
           /\ \A r \in acked' : r \in acked \/ Whole(r)'
           /\ HandlerFacts(h)'
  <1>1. Range(op[h].batch) \subseteq Records /\ op = [t \in Tasks |-> op[t]] /\ h \in Tasks
        /\ acked \subseteq Records
    BY CurrentType DEF TypeInv, Tasks
  <1>2. op' = [op EXCEPT ![h] = Idle] /\ acked' = IF ok THEN acked \cup Range(op[h].batch) ELSE acked
    BY DEF Returns
  <1>3. op'[h] = Idle
    BY <1>1, <1>2
  <1> QED  BY <1>1, <1>2, <1>3 DEF HandlerFacts

\* A step within a status.
LEMMA GotoEffect ==
    ASSUME TypeInv, NEW h \in Handlers, op[h].kind = "store", NEW pc \in {"errors", "sensors"},
           Goto(h, pc), backend' = "clickhouse", table' = "statuses",
           \A r \in {op[h].batch[i] : i \in 1 .. op[h].next - 1} : Whole(r)',
           rows'[Current(h)] >= 1, pc = "sensors" => errs'[Current(h)] >= 1
    PROVE  /\ op' = [op EXCEPT ![h] = op'[h]] /\ op'[h] \in {Idle} \cup StoreOps
           /\ acked \subseteq acked' /\ acked' \subseteq Records
           /\ \A r \in acked' : r \in acked \/ Whole(r)'
           /\ HandlerFacts(h)'
  <1> DEFINE o == op[h]
  <1>1. o \in StoreOps /\ op = [t \in Tasks |-> op[t]] /\ h \in Tasks /\ acked \subseteq Records
    BY CurrentType DEF TypeInv, Tasks
  <1>2. op' = [op EXCEPT ![h] = [o EXCEPT !.pc = pc]] /\ acked' = acked
    BY DEF Goto
  <1>3. op'[h] = [o EXCEPT !.pc = pc]
    BY <1>1, <1>2
  <1>4. /\ op'[h] \in StoreOps /\ op'[h].pc = pc /\ op'[h].batch = o.batch /\ op'[h].next = o.next
    BY <1>1, <1>3 DEF StoreOps
  <1>5. Current(h)' = Current(h)
    BY <1>4 DEF Current
  <1>6. ASSUME NEW i \in 1 .. op'[h].next - 1, NEW r, r = op'[h].batch[i]
        PROVE  Whole(r)'
    <2>1. i \in 1 .. o.next - 1 /\ r = o.batch[i]
      BY <1>4, <1>6
    <2> QED  BY <2>1
  <1>7. HandlerFacts(h)'
    BY <1>4, <1>5, <1>6 DEF HandlerFacts, Whole
  <1> QED  BY <1>1, <1>2, <1>3, <1>4, <1>7

\* One step of one handler, in each back end.
LEMMA StoreStep ==
    ASSUME RecordInv, NEW h \in Handlers, Store(h)
    PROVE  StoreEffect(h)
  <1>0. /\ TypeInv /\ StoredOnce /\ HandlerFacts(h)
        /\ rows \in [Records -> Nat] /\ errs \in [Records -> Nat] /\ parts \in [Records -> Nat]
        /\ op = [t \in Tasks |-> op[t]] /\ h \in Tasks /\ acked \subseteq Records
        /\ table \in {"readings", "statuses"} /\ backend \in {"memory", "sqlite", "clickhouse"}
    BY DEF RecordInv, TypeInv, StoringInv, HandlerFacts, Tasks, Backends
  <1>1. CASE BatchStore(h)
    <2>1. PICK b \in Batches :
              op' = [op EXCEPT ![h] = [kind |-> "store", pc |-> "row", batch |-> b, next |-> 1]]
      BY <1>1 DEF BatchStore
    <2>2. op'[h] = [kind |-> "store", pc |-> "row", batch |-> b, next |-> 1]
      BY <1>0, <2>1
    <2>3. b \in Seq(Records) /\ b # <<>>
      OBVIOUS
    <2>4. 1 <= Len(b)
      BY <2>3
    <2>5. op'[h] \in StoreOps /\ op'[h].pc = "row" /\ op'[h].next = 1
      BY <2>2, <2>4 DEF StoreOps
    <2>6. HandlerFacts(h)'
      BY <2>5 DEF HandlerFacts
    <2>7. UNCHANGED <<table, backend, rows, errs, parts, acked, answer>>
      BY <1>1 DEF BatchStore
    <2>8. StoredOnce'
      BY <1>0, <2>7 DEF StoredOnce
    <2> QED  BY <1>0, <2>1, <2>2, <2>5, <2>6, <2>7, <2>8 DEF StoreEffect
  <1>2. CASE StoreFails(h)
    <2>1. /\ UNCHANGED <<table, backend, rows, errs, parts, answer>> /\ Returns(h, FALSE)
          /\ op[h].kind = "store"
      BY <1>2 DEF StoreFails
    <2>2. StoredOnce'
      BY <1>0, <2>1 DEF StoredOnce
    <2>3. /\ op' = [op EXCEPT ![h] = op'[h]] /\ op'[h] \in {Idle} \cup StoreOps
          /\ acked \subseteq acked' /\ acked' \subseteq Records
          /\ \A r \in acked' : r \in acked \/ Whole(r)'
          /\ HandlerFacts(h)'
      BY <1>0, <2>1, ReturnsEffect
    <2> QED  BY <1>0, <2>1, <2>2, <2>3 DEF StoreEffect
  <1> DEFINE RowsKept ==
             /\ UNCHANGED <<table, backend, answer>>
             /\ rows' \in [Records -> Nat] /\ errs' \in [Records -> Nat] /\ parts' \in [Records -> Nat]
             /\ \A r \in Records : /\ rows[r] >= 1 => rows'[r] >= 1
                                   /\ errs[r] >= 1 => errs'[r] >= 1
                                   /\ parts[r] >= 1 => parts'[r] >= 1
  <1>3. ASSUME op[h].kind = "store", RowsKept
        PROVE  \A r \in {op[h].batch[i] : i \in 1 .. op[h].next - 1} : Whole(r)'
    <2> SUFFICES ASSUME NEW i \in 1 .. op[h].next - 1, NEW r, r = op[h].batch[i]
                 PROVE  Whole(r)'
      OBVIOUS
    <2>1. op[h] # Idle /\ op[h].batch \in Seq(Records) /\ op[h].next \in 1 .. Len(op[h].batch)
      BY <1>0, <1>3, CurrentType
    <2>2. Whole(r)
      BY <1>0, <2>1 DEF HandlerFacts
    <2>3. r \in Records
      <3>1. i \in 1 .. Len(op[h].batch)
        BY <2>1
      <3> QED  BY <2>1, <3>1
    <2> QED  BY <1>3, <2>2, <2>3 DEF Whole
  <1>4. ASSUME op[h].kind = "store", RowsKept, StoredOnce', NextRecord(h),
               rows'[Current(h)] >= 1,
               table = "statuses" => errs'[Current(h)] >= 1 /\ parts'[Current(h)] >= 1
        PROVE  StoreEffect(h)
    <2>1. op[h].next \in 1 .. Len(op[h].batch)
      BY <1>0, <1>4, CurrentType
    <2>2. ASSUME NEW i \in 1 .. op[h].next, NEW r, r = op[h].batch[i]
          PROVE  Whole(r)'
      <3>1. CASE i = op[h].next
        BY <1>4, <2>2, <3>1 DEF Whole, Current
      <3>2. CASE i # op[h].next
        <4>1. i \in 1 .. op[h].next - 1
          BY <2>1, <3>2
        <4> QED  BY <1>3, <1>4, <2>2, <4>1
      <3> QED  BY <3>1, <3>2
    <2>3. \A r \in {op[h].batch[i] : i \in 1 .. op[h].next} : Whole(r)'
      BY <2>2
    <2>4. /\ op' = [op EXCEPT ![h] = op'[h]] /\ op'[h] \in {Idle} \cup StoreOps
          /\ acked \subseteq acked' /\ acked' \subseteq Records
          /\ \A r \in acked' : r \in acked \/ Whole(r)'
          /\ HandlerFacts(h)'
      BY <1>0, <1>4, <2>3, NextRecordEffect
    <2> QED  BY <1>4, <2>4 DEF StoreEffect
  <1>5. ASSUME op[h].kind = "store", RowsKept, StoredOnce', NEW ok \in BOOLEAN, Returns(h, ok),
               ok => \A r \in Range(op[h].batch) : Whole(r)'
        PROVE  StoreEffect(h)
    <2>1. /\ op' = [op EXCEPT ![h] = op'[h]] /\ op'[h] \in {Idle} \cup StoreOps
          /\ acked \subseteq acked' /\ acked' \subseteq Records
          /\ \A r \in acked' : r \in acked \/ Whole(r)'
          /\ HandlerFacts(h)'
      BY <1>0, <1>5, ReturnsEffect
    <2> QED  BY <1>5, <2>1 DEF StoreEffect
  <1>6. CASE MemoryStore(h) \/ SqliteStoreStatus(h)
    <2> DEFINE r == Current(h)
    <2>1. /\ op[h].kind = "store" /\ NextRecord(h) /\ UNCHANGED <<table, backend, answer>>
          /\ rows' = [rows EXCEPT ![r] = 1] /\ errs' = [errs EXCEPT ![r] = 1]
          /\ parts' = [parts EXCEPT ![r] = 1]
      BY <1>6 DEF MemoryStore, SqliteStoreStatus, Storing
    <2>2. r \in Records
      BY <1>0, <2>1, CurrentType
    <2> HIDE DEF r
    <2>3. RowsKept
      BY <1>0, <2>1, <2>2
    <2>4. StoredOnce'
      BY <1>0, <2>1, <2>2 DEF StoredOnce
    <2>5. rows'[r] = 1 /\ errs'[r] = 1 /\ parts'[r] = 1
      BY <1>0, <2>1, <2>2
    <2> QED  BY <1>4, <2>1, <2>3, <2>4, <2>5 DEF r
  <1>7. CASE SqliteStoreReadings(h)
    <2> DEFINE B == Range(op[h].batch)
    <2>1. /\ op[h].kind = "store" /\ Returns(h, TRUE) /\ table = "readings"
          /\ rows' = [r \in Records |-> IF r \in B THEN 1 ELSE rows[r]]
          /\ UNCHANGED <<table, backend, answer, errs, parts>>
      BY <1>7 DEF SqliteStoreReadings, Storing
    <2>2. B \subseteq Records
      BY <1>0, <2>1, CurrentType
    <2> HIDE DEF B
    <2>3. RowsKept
      BY <1>0, <2>1
    <2>4. StoredOnce'
      BY <1>0, <2>1 DEF StoredOnce
    <2>5. \A r \in B : Whole(r)'
      BY <1>0, <2>1, <2>2 DEF Whole
    <2> QED  BY <1>5, <2>1, <2>3, <2>4, <2>5 DEF B
  <1>8. CASE ClickHouseStoreReadings(h)
    <2> DEFINE B == Range(op[h].batch)
    <2>1. /\ op[h].kind = "store" /\ (Returns(h, TRUE) \/ Returns(h, FALSE))
          /\ table = "readings" /\ backend = "clickhouse"
          /\ rows' = [r \in Records |-> IF r \in B THEN rows[r] + 1 ELSE rows[r]]
          /\ UNCHANGED <<table, backend, answer, errs, parts>>
      BY <1>8 DEF ClickHouseStoreReadings, Storing
    <2>2. B \subseteq Records
      BY <1>0, <2>1, CurrentType
    <2> HIDE DEF B
    <2>3. RowsKept
      BY <1>0, <2>1
    <2>4. StoredOnce'
      BY <2>1 DEF StoredOnce
    <2>5. \A r \in B : Whole(r)'
      BY <1>0, <2>1, <2>2 DEF Whole
    <2> QED  BY <1>5, <2>1, <2>3, <2>4, <2>5 DEF B
  <1>9. CASE ClickHouseStoreRow(h)
    <2> DEFINE r == Current(h)
    <2>1. /\ op[h].kind = "store" /\ (Goto(h, "errors") \/ Returns(h, FALSE))
          /\ table = "statuses" /\ backend = "clickhouse"
          /\ rows' = [rows EXCEPT ![r] = @ + 1]
          /\ UNCHANGED <<table, backend, answer, errs, parts>>
      BY <1>9 DEF ClickHouseStoreRow, Storing
    <2>2. r \in Records
      BY <1>0, <2>1, CurrentType
    <2> HIDE DEF r
    <2>3. RowsKept
      BY <1>0, <2>1, <2>2
    <2>4. StoredOnce'
      BY <2>1 DEF StoredOnce
    <2>5. CASE Returns(h, FALSE)
      BY <1>5, <2>1, <2>3, <2>4, <2>5
    <2>6. CASE Goto(h, "errors")
      <3>1. rows'[r] >= 1
        BY <1>0, <2>1, <2>2
      <3>2. /\ op' = [op EXCEPT ![h] = op'[h]] /\ op'[h] \in {Idle} \cup StoreOps
            /\ acked \subseteq acked' /\ acked' \subseteq Records
            /\ \A q \in acked' : q \in acked \/ Whole(q)'
            /\ HandlerFacts(h)'
        BY <1>0, <1>3, <2>1, <2>3, <2>6, <3>1, GotoEffect DEF r
      <3> QED  BY <2>3, <2>4, <3>2 DEF StoreEffect
    <2> QED  BY <2>1, <2>5, <2>6
  <1>10. CASE ClickHouseStoreErrors(h)
    <2> DEFINE r == Current(h)
    <2>1. /\ op[h].kind = "store" /\ op[h].pc = "errors"
          /\ Goto(h, "sensors") \/ Returns(h, FALSE)
          /\ errs' = [errs EXCEPT ![r] = @ + 1]
          /\ UNCHANGED <<table, backend, answer, rows, parts>>
      BY <1>10 DEF ClickHouseStoreErrors, Storing
    <2>2. r \in Records /\ op[h] # Idle
      BY <1>0, <2>1, CurrentType
    <2>3. table = "statuses" /\ backend = "clickhouse" /\ rows[r] >= 1
      BY <1>0, <2>1, <2>2 DEF HandlerFacts
    <2> HIDE DEF r
    <2>4. RowsKept
      BY <1>0, <2>1, <2>2
    <2>5. StoredOnce'
      BY <2>1, <2>3 DEF StoredOnce
    <2>6. CASE Returns(h, FALSE)
      BY <1>5, <2>1, <2>4, <2>5, <2>6
    <2>7. CASE Goto(h, "sensors")
      <3>1. rows'[r] >= 1 /\ errs'[r] >= 1
        BY <1>0, <2>1, <2>2, <2>3
      <3>2. /\ op' = [op EXCEPT ![h] = op'[h]] /\ op'[h] \in {Idle} \cup StoreOps
            /\ acked \subseteq acked' /\ acked' \subseteq Records
            /\ \A q \in acked' : q \in acked \/ Whole(q)'
            /\ HandlerFacts(h)'
        BY <1>0, <1>3, <2>1, <2>3, <2>4, <2>7, <3>1, GotoEffect DEF r
      <3> QED  BY <2>4, <2>5, <3>2 DEF StoreEffect
    <2> QED  BY <2>1, <2>6, <2>7
  <1>11. CASE ClickHouseStoreSensors(h)
    <2> DEFINE r == Current(h)
    <2>1. /\ op[h].kind = "store" /\ op[h].pc = "sensors"
          /\ NextRecord(h) \/ Returns(h, FALSE)
          /\ parts' = [parts EXCEPT ![r] = @ + 1]
          /\ UNCHANGED <<table, backend, answer, rows, errs>>
      BY <1>11 DEF ClickHouseStoreSensors, Storing
    <2>2. r \in Records /\ op[h] # Idle
      BY <1>0, <2>1, CurrentType
    <2>3. backend = "clickhouse" /\ rows[r] >= 1 /\ errs[r] >= 1
      BY <1>0, <2>1, <2>2 DEF HandlerFacts
    <2> HIDE DEF r
    <2>4. RowsKept
      BY <1>0, <2>1, <2>2
    <2>5. StoredOnce'
      BY <2>1, <2>3 DEF StoredOnce
    <2>6. rows'[r] >= 1 /\ errs'[r] >= 1 /\ parts'[r] >= 1
      BY <1>0, <2>1, <2>2, <2>3
    <2>7. CASE Returns(h, FALSE)
      BY <1>5, <2>1, <2>4, <2>5, <2>7
    <2>8. CASE NextRecord(h)
      BY <1>4, <2>1, <2>4, <2>5, <2>6, <2>8 DEF r
    <2> QED  BY <2>1, <2>7, <2>8
  <1> QED
    BY <1>1, <1>2, <1>6, <1>7, <1>8, <1>9, <1>10, <1>11 DEF Store

\* A handler's step keeps the invariant: of the readers too, for what is there stays.
LEMMA StoreInv ==
    ASSUME RecordInv, NEW h \in Handlers, Store(h)
    PROVE  RecordInv'
  <1>0. /\ TypeInv /\ AckedStored /\ StoringInv /\ ReadingInv /\ CurrentInv
        /\ ReadsWhole /\ ReadsCurrent
        /\ op = [t \in Tasks |-> op[t]] /\ h \in Tasks /\ acked \subseteq Records
        /\ rows \in [Records -> Nat] /\ errs \in [Records -> Nat] /\ parts \in [Records -> Nat]
    BY DEF RecordInv, TypeInv, Tasks
  <1>1. /\ UNCHANGED <<table, backend, answer>>
        /\ rows' \in [Records -> Nat] /\ errs' \in [Records -> Nat] /\ parts' \in [Records -> Nat]
        /\ \A r \in Records : /\ rows[r] >= 1 => rows'[r] >= 1
                              /\ errs[r] >= 1 => errs'[r] >= 1
                              /\ parts[r] >= 1 => parts'[r] >= 1
        /\ op' = [op EXCEPT ![h] = op'[h]] /\ op'[h] \in {Idle} \cup StoreOps
        /\ acked \subseteq acked' /\ acked' \subseteq Records
        /\ \A r \in acked' : r \in acked \/ Whole(r)'
        /\ HandlerFacts(h)' /\ StoredOnce'
    BY StoreStep DEF StoreEffect
  <1>2. /\ op' = [t \in Tasks |-> op'[t]]
        /\ \A t \in Tasks \ {h} : op'[t] = op[t]
    BY <1>0, <1>1
  <1>3. \A t \in Readers : t \in Tasks \ {h}
    BY DEF Tasks
  <1>4. TypeInv'
    <2>1. \A g \in Handlers : op'[g] \in {Idle} \cup StoreOps
      BY <1>0, <1>1, <1>2 DEF TypeInv, Tasks
    <2>2. \A t \in Readers : op'[t] # Idle => IsReadOp(op'[t])
      BY <1>0, <1>2, <1>3 DEF TypeInv
    <2> QED  BY <1>0, <1>1, <1>2, <2>1, <2>2 DEF TypeInv
  <1>5. \A r \in Records : Whole(r) => Whole(r)'
    BY <1>1 DEF Whole
  <1>6. AckedStored'
    <2>1. \A r \in acked : Whole(r)
      BY <1>0 DEF AckedStored, Whole
    <2>2. \A r \in acked' : Whole(r)'
      BY <1>0, <1>1, <1>5, <2>1
    <2> QED  BY <2>2 DEF AckedStored, Whole
  <1>7. StoringInv'
    <2>1. ASSUME NEW g \in Handlers, g # h
          PROVE  HandlerFacts(g)'
      <3>1. op'[g] = op[g] /\ HandlerFacts(g)
        BY <1>0, <1>2, <2>1 DEF Tasks, StoringInv, HandlerFacts
      <3>2. CASE op[g] = Idle
        BY <3>1, <3>2 DEF HandlerFacts
      <3>3. CASE op[g] # Idle
        <4>1. op[g].kind = "store"
          BY <1>0, <3>3 DEF TypeInv, StoreOps
        <4>2. /\ op[g].batch \in Seq(Records) /\ op[g].next \in 1 .. Len(op[g].batch)
              /\ Current(g) \in Records
          BY <1>0, <2>1, <4>1, CurrentType
        <4>3. ASSUME NEW i \in 1 .. op[g].next - 1, NEW r, r = op[g].batch[i]
              PROVE  Whole(r)'
          <5>1. i \in 1 .. Len(op[g].batch)
            BY <4>2
          <5>2. r \in Records /\ Whole(r)
            BY <3>1, <3>3, <4>2, <4>3, <5>1 DEF HandlerFacts
          <5> QED  BY <1>5, <5>2
        <4>4. Current(g)' = Current(g)
          BY <3>1 DEF Current
        <4> QED  BY <1>1, <3>1, <4>2, <4>3, <4>4 DEF HandlerFacts, Whole
      <3> QED  BY <3>2, <3>3
    <2> QED  BY <1>1, <2>1 DEF StoringInv, HandlerFacts
  <1>8. ReadingInv'
    <2>1. Stored \subseteq Stored'
      <3>1. ASSUME NEW r \in Records, rows[r] > 0
            PROVE  rows'[r] > 0
        <4>1. rows[r] \in Nat /\ rows'[r] \in Nat
          BY <1>0, <1>1 DEF TypeInv
        <4>2. rows[r] >= 1
          BY <3>1, <4>1
        <4> QED  BY <1>1, <4>1, <4>2
      <3> QED  BY <3>1 DEF Stored
    <2>2. ASSUME NEW t \in Readers, op'[t] # Idle
          PROVE  /\ table = "statuses" /\ backend # "memory" /\ op[t].known \subseteq acked'
                 /\ \A i \in DOMAIN op[t].page : op[t].page[i] \in Stored'
                 /\ \A i \in DOMAIN op[t].got : PartWhole(op[t].got[i], op[t].known)
                 /\ op[t].pc = "sensors" =>
                       IF backend = "clickhouse"
                       THEN Head(op[t].page) \in op[t].known => op[t].errs >= 1
                       ELSE op[t].errs = 1
      BY <1>0, <1>1, <1>2, <1>3, <2>1, <2>2 DEF ReadingInv
    <2> QED  BY <1>1, <1>2, <1>3, <2>2, SMTT(30) DEF ReadingInv, PartWhole
  <1>9. CurrentInv'
    <2>1. ASSUME NEW t \in Readers
          PROVE  op'[t] = op[t]
      BY <1>2, <1>3
    <2> QED  BY <1>0, <1>1, <2>1 DEF CurrentInv, Newest, SortKey
  <1>10. ReadsWhole' /\ ReadsCurrent'
    BY <1>0, <1>1 DEF ReadsWhole, ReadsCurrent, SortKey
  <1> QED  BY <1>1, <1>4, <1>6, <1>7, <1>8, <1>9, <1>10 DEF RecordInv

(***************************************************************************)
(* Reading.                                                                *)
(***************************************************************************)

\* What the invariant says of a request of a reader, and of an answer it got.
ReaderFacts(o) ==
    /\ IsReadOp(o)
    /\ table = "statuses" /\ backend # "memory" /\ o.known \subseteq acked
    /\ \A i \in DOMAIN o.page : o.page[i] \in Stored
    /\ \A i \in DOMAIN o.got : PartWhole(o.got[i], o.known)
    /\ o.pc = "sensors" =>
          IF backend = "clickhouse" THEN Head(o.page) \in o.known => o.errs >= 1
          ELSE o.errs = 1
    /\ o.kind = "get_latest" =>
          /\ o.got = <<>> /\ Len(o.page) = 1
          /\ Newest(Head(o.page), o.about, o.known)
    /\ o.kind = "list" /\ o.about = FirstPage =>
          Len(o.got) + Len(o.page) >= Min({2, Cardinality(o.known)})

AnswerFacts(a) ==
    /\ table = "statuses" => \A i \in DOMAIN a.got : PartWhole(a.got[i], a.known)
    /\ (a.kind = "get" /\ a.about \in a.known) => a.got # <<>>
    /\ a.kind = "get_latest" =>
          \A r \in a.known : Content[r].device = a.about =>
              /\ a.got # <<>>
              /\ SortKey("timestamp", r) <= SortKey("timestamp", a.got[1].id)
    /\ (a.kind = "list" /\ a.about = FirstPage) =>
          Len(a.got) >= Min({2, Cardinality(a.known)})

\* The invariant, reader by reader.
LEMMA PerReader ==
    /\ RecordInv => \A t \in Readers : /\ op[t] # Idle => ReaderFacts(op[t])
                                       /\ AnswerFacts(answer[t])
    /\ (\A t \in Readers : AnswerFacts(answer[t])) => ReadsWhole /\ ReadsCurrent
    /\ (\A t \in Readers : op[t] # Idle => ReaderFacts(op[t])) => ReadingInv /\ CurrentInv
  <1>1. RecordInv => \A t \in Readers : op[t] # Idle => ReaderFacts(op[t])
    BY DEF RecordInv, TypeInv, ReadingInv, CurrentInv, ReaderFacts
  <1>2. (\A t \in Readers : AnswerFacts(answer[t])) <=> ReadsWhole /\ ReadsCurrent
    BY DEF AnswerFacts, ReadsWhole, ReadsCurrent, PartWhole, FirstPage
  <1>3. (\A t \in Readers : op[t] # Idle => ReaderFacts(op[t])) => ReadingInv /\ CurrentInv
    BY DEF ReadingInv, CurrentInv, ReaderFacts
  <1> QED  BY <1>1, <1>2, <1>3 DEF RecordInv

\* A step of a reader changes nothing that is stored, and nothing of other tasks.
LEMMA ReaderStep ==
    ASSUME RecordInv, NEW t \in Readers, UNCHANGED <<table, backend, rows, errs, parts, acked>>,
           op' = [op EXCEPT ![t] = op'[t]], answer' = [answer EXCEPT ![t] = answer'[t]],
           op'[t] # Idle => ReaderFacts(op'[t]), AnswerFacts(answer'[t])
    PROVE  RecordInv'
  <1>0. TypeInv /\ AckedStored /\ StoredOnce /\ StoringInv
    BY DEF RecordInv
  <1>1. /\ \A g \in Handlers : op'[g] = op[g]
        /\ \A u \in Readers : u # t => op'[u] = op[u] /\ answer'[u] = answer[u]
    BY <1>0 DEF TypeInv, Tasks
  <1>2. \A u \in Readers : /\ op'[u] # Idle => ReaderFacts(op'[u])
                           /\ AnswerFacts(answer'[u])
    BY <1>1, PerReader
  <1>3. TypeInv'
    <2>1. op' = [u \in Tasks |-> op'[u]] /\ answer' = [u \in Readers |-> answer'[u]]
      BY <1>0 DEF TypeInv
    <2>2. \A u \in Readers : op'[u] # Idle => IsReadOp(op'[u])
      BY <1>2 DEF ReaderFacts
    <2>3. \A h \in Handlers : op'[h] \in {Idle} \cup StoreOps
      BY <1>0, <1>1 DEF TypeInv
    <2> QED  BY <1>0, <2>1, <2>2, <2>3 DEF TypeInv
  <1>4. AckedStored' /\ StoredOnce'
    BY <1>0 DEF AckedStored, StoredOnce
  <1>5. StoringInv'
    BY <1>0, <1>1 DEF StoringInv, Whole, Current
  <1>6. ReadingInv' /\ CurrentInv'
    BY <1>2 DEF ReadingInv, CurrentInv, ReaderFacts, PartWhole, Newest, SortKey, Stored
  <1>7. ReadsWhole' /\ ReadsCurrent'
    BY <1>2 DEF ReadsWhole, ReadsCurrent, AnswerFacts, PartWhole, SortKey, FirstPage
  <1> QED  BY <1>3, <1>4, <1>5, <1>6, <1>7 DEF RecordInv


\* What is there of a status that is stored.
LEMMA StoredParts ==
    ASSUME RecordInv, table = "statuses", NEW r \in Stored
    PROVE  /\ r \in Records /\ errs[r] \in Nat /\ parts[r] \in Nat
           /\ backend # "clickhouse" => errs[r] = 1 /\ parts[r] = 1
           /\ r \in acked => errs[r] >= 1 /\ parts[r] >= 1
  <1>1. r \in Records /\ rows[r] > 0
    BY DEF Stored
  <1>2. rows[r] \in Nat /\ errs[r] \in Nat /\ parts[r] \in Nat
    BY <1>1 DEF RecordInv, TypeInv
  <1>3. backend # "clickhouse" => rows[r] <= 1 /\ errs[r] = rows[r] /\ parts[r] = rows[r]
    BY <1>1 DEF RecordInv, StoredOnce
  <1>4. r \in acked => errs[r] >= 1 /\ parts[r] >= 1
    BY DEF RecordInv, AckedStored
  <1> QED  BY <1>1, <1>2, <1>3, <1>4

\* A reader that has something under way.
LEMMA ReadingType ==
    ASSUME RecordInv, NEW t \in Readers, NEW pc, Reading(t, pc)
    PROVE  /\ op[t] # Idle /\ ReaderFacts(op[t]) /\ op[t].page \in Seq(Records)
           /\ op[t].page # <<>> /\ Head(op[t].page) \in Stored /\ op[t].got \in Seq(Part)
           /\ \A i \in DOMAIN Tail(op[t].page) : Tail(op[t].page)[i] \in Stored
           /\ Tail(op[t].page) \in Seq(Records) /\ Len(Tail(op[t].page)) = Len(op[t].page) - 1
           /\ op[t].pc = pc
  <1>1. op[t].kind # "idle" /\ op[t].pc = pc
    BY DEF Reading
  <1>2. op[t] # Idle
    <2>1. Idle.kind = "idle"
      BY DEF Idle
    <2> QED  BY <1>1, <2>1
  <1>3. ReaderFacts(op[t])
    BY <1>2, PerReader
  <1> DEFINE s == op[t].page
  <1>4. s \in Seq(Records) /\ s # <<>> /\ op[t].got \in Seq(Part) /\ \A i \in DOMAIN s : s[i] \in Stored
    BY <1>3 DEF ReaderFacts, IsReadOp
  <1>5. Head(s) = s[1] /\ 1 \in DOMAIN s /\ Tail(s) \in Seq(Records) /\ Len(Tail(s)) = Len(s) - 1
    BY <1>4
  <1>6. ASSUME NEW i \in DOMAIN Tail(s)
        PROVE  Tail(s)[i] \in Stored
    <2>1. i \in 1 .. Len(s) - 1 /\ Tail(s)[i] = s[i + 1]
      BY <1>4
    <2>2. i + 1 \in DOMAIN s
      BY <1>4, <2>1
    <2> QED  BY <1>4, <2>1, <2>2
  <1> QED  BY <1>1, <1>2, <1>3, <1>4, <1>5, <1>6

\* fetch_errors keeps the invariant ...
LEMMA FetchErrorsInv ==
    ASSUME RecordInv, NEW t \in Readers, FetchErrors(t)
    PROVE  RecordInv'
  <1> DEFINE o == op[t]
             n == errs[Head(o.page)]
  <1>1. Reading(t, "errors") /\ UNCHANGED <<table, backend, rows, errs, parts, acked, answer>>
    BY DEF FetchErrors
  <1>2. /\ o # Idle /\ ReaderFacts(o) /\ o.page # <<>> /\ Head(o.page) \in Stored
        /\ o.pc = "errors"
    BY <1>1, ReadingType
  <1>3. op' = [op EXCEPT ![t] = [[o EXCEPT !.pc = "sensors"] EXCEPT !.errs = n]]
    BY DEF FetchErrors
  <1>4. /\ t \in Tasks /\ op = [u \in Tasks |-> op[u]] /\ answer = [u \in Readers |-> answer[u]]
    BY DEF RecordInv, TypeInv, Tasks
  <1>5. op'[t] = [[o EXCEPT !.pc = "sensors"] EXCEPT !.errs = n]
    BY <1>3, <1>4
  <1>6. /\ DOMAIN op'[t] = DOMAIN o /\ op'[t].kind = o.kind /\ op'[t].pc = "sensors"
        /\ op'[t].about = o.about /\ op'[t].page = o.page /\ op'[t].got = o.got
        /\ op'[t].errs = n /\ op'[t].known = o.known
    BY <1>2, <1>5 DEF ReaderFacts, IsReadOp
  <1>7. /\ n \in Nat
        /\ backend # "clickhouse" => n = 1
        /\ backend = "clickhouse" => (Head(o.page) \in o.known => n >= 1)
    <2>1. table = "statuses" /\ o.known \subseteq acked
      BY <1>2 DEF ReaderFacts
    <2> QED  BY <1>2, <2>1, StoredParts
  <1>8. ReaderFacts(op'[t])
    BY <1>2, <1>6, <1>7 DEF ReaderFacts, IsReadOp
  <1>9. answer' = [answer EXCEPT ![t] = answer'[t]] /\ AnswerFacts(answer'[t])
    BY <1>1, <1>4, PerReader
  <1>10. op' = [op EXCEPT ![t] = op'[t]]
    BY <1>3, <1>5
  <1> QED  BY <1>1, <1>8, <1>9, <1>10, ReaderStep


\* ... and fetch_sensor_statuses, which completes a status or the answer ...
LEMMA FetchSensorStatusesInv ==
    ASSUME RecordInv, NEW t \in Readers, FetchSensorStatuses(t)
    PROVE  RecordInv'
  <1> DEFINE o == op[t]
             r == Head(o.page)
             p == [id |-> r, errs |-> o.errs, parts |-> parts[r]]
             got == Append(o.got, p)
  <1>1. Reading(t, "sensors") /\ UNCHANGED <<table, backend, rows, errs, parts, acked>>
    BY DEF FetchSensorStatuses
  <1>2. /\ o # Idle /\ ReaderFacts(o) /\ o.page \in Seq(Records) /\ o.page # <<>> /\ r \in Stored
        /\ o.got \in Seq(Part) /\ o.pc = "sensors"
        /\ \A i \in DOMAIN Tail(o.page) : Tail(o.page)[i] \in Stored
        /\ Tail(o.page) \in Seq(Records) /\ Len(Tail(o.page)) = Len(o.page) - 1
    BY <1>1, ReadingType
  <1>3. /\ t \in Tasks /\ op = [u \in Tasks |-> op[u]] /\ answer = [u \in Readers |-> answer[u]]
    BY DEF RecordInv, TypeInv, Tasks
  <1>4. p \in Part /\ PartWhole(p, o.known)
    <2>1. table = "statuses" /\ o.known \subseteq acked /\ o.errs \in Nat
      BY <1>2 DEF ReaderFacts, IsReadOp
    <2>2. /\ backend = "clickhouse" => (r \in o.known => o.errs >= 1)
          /\ backend # "clickhouse" => o.errs = 1
      BY <1>2 DEF ReaderFacts
    <2>3. /\ r \in Records /\ parts[r] \in Nat
          /\ backend # "clickhouse" => parts[r] = 1
          /\ r \in acked => parts[r] >= 1
      BY <1>2, <2>1, StoredParts
    <2>4. p \in Part /\ p.id = r /\ p.errs = o.errs /\ p.parts = parts[r]
      BY <2>1, <2>3 DEF Part
    <2> HIDE DEF p
    <2> QED  BY <2>1, <2>2, <2>3, <2>4 DEF PartWhole
  <1>5. /\ got \in Seq(Part) /\ got # <<>> /\ Len(got) = Len(o.got) + 1
        /\ \A i \in DOMAIN got : PartWhole(got[i], o.known)
    <2> HIDE DEF p
    <2>1. got \in Seq(Part) /\ Len(got) = Len(o.got) + 1 /\ got # <<>>
      BY <1>2, <1>4
    <2>2. ASSUME NEW i \in DOMAIN got
          PROVE  PartWhole(got[i], o.known)
      <3>1. i \in 1 .. Len(o.got) + 1
        BY <1>2, <1>4
      <3>2. CASE i = Len(o.got) + 1
        <4>1. got[i] = p
          BY <1>2, <1>4, <3>2
        <4> QED  BY <1>4, <4>1
      <3>3. CASE i # Len(o.got) + 1
        <4>1. i \in DOMAIN o.got /\ got[i] = o.got[i]
          BY <1>2, <1>4, <3>1, <3>3
        <4> HIDE DEF got, o
        <4> QED  BY <1>2, <4>1 DEF ReaderFacts
      <3> QED  BY <3>2, <3>3
    <2> QED  BY <2>1, <2>2
  <1>6. CASE Len(o.page) = 1
    <2> DEFINE a == Answer(o.kind, o.about, o.known, got)
    <2>1. op' = [op EXCEPT ![t] = Idle] /\ answer' = [answer EXCEPT ![t] = a]
      BY <1>6 DEF FetchSensorStatuses
    <2>2. op'[t] = Idle /\ answer'[t] = a
      BY <1>3, <2>1
    <2>3. a.kind = o.kind /\ a.about = o.about /\ a.known = o.known /\ a.got = got
      BY DEF Answer
    <2>4. o.kind = "get_latest" =>
              /\ Newest(r, o.about, o.known)
              /\ got[1].id = r
      <3>1. ASSUME o.kind = "get_latest"
            PROVE  o.got = <<>> /\ Newest(r, o.about, o.known)
        BY <1>2, <3>1 DEF ReaderFacts
      <3>2. ASSUME o.got = <<>>
            PROVE  got[1] = p
        BY <3>2
      <3> QED  BY <3>1, <3>2
    <2>5. o.kind = "list" /\ o.about = FirstPage => Len(got) >= Min({2, Cardinality(o.known)})
      <3> HIDE DEF got
      <3> QED  BY <1>2, <1>5, <1>6 DEF ReaderFacts
    <2>6. AnswerFacts(a)
      <3> HIDE DEF a, got, o
      <3> QED  BY <1>5, <2>3, <2>4, <2>5 DEF AnswerFacts, Newest
    <2> HIDE DEF a
    <2> QED  BY <1>1, <2>1, <2>2, <2>6, ReaderStep
  <1>7. CASE Len(o.page) # 1
    <2> DEFINE n == [[[o EXCEPT !.pc = "errors"] EXCEPT !.page = Tail(o.page)] EXCEPT !.got = got]
    <2>1. op' = [op EXCEPT ![t] = n] /\ answer' = answer
      BY <1>2, <1>7 DEF FetchSensorStatuses, ReaderFacts, IsReadOp
    <2>2. op'[t] = n
      BY <1>3, <2>1
    <2>3. /\ DOMAIN n = DOMAIN o /\ n.kind = o.kind /\ n.pc = "errors" /\ n.about = o.about
          /\ n.page = Tail(o.page) /\ n.got = got /\ n.errs = o.errs /\ n.known = o.known
      <3> HIDE DEF got
      <3> QED  BY <1>2 DEF ReaderFacts, IsReadOp
    <2>4. o.kind # "get_latest"
      BY <1>2, <1>7 DEF ReaderFacts
    <2>5. /\ Tail(o.page) # <<>>
          /\ Len(got) + Len(Tail(o.page)) = Len(o.got) + Len(o.page)
      <3> HIDE DEF got
      <3>1. Len(o.page) \in Nat /\ Len(o.page) # 0 /\ Len(o.got) \in Nat
        BY <1>2
      <3>2. Len(Tail(o.page)) # 0
        BY <1>2, <1>7, <3>1
      <3>3. Len(got) = Len(o.got) + 1 /\ Len(Tail(o.page)) = Len(o.page) - 1
        BY <1>2, <1>5
      <3>4. Len(got) + Len(Tail(o.page)) = Len(o.got) + Len(o.page)
        <4>1. \A i, j \in Int : (i + 1) + (j - 1) = i + j
          OBVIOUS
        <4>2. Len(o.got) \in Int /\ Len(o.page) \in Int
          BY <3>1
        <4> QED  BY <3>3, <4>1, <4>2, Zenon
      <3>5. Tail(o.page) # <<>>
        <4>1. Len(<<>>) = 0
          OBVIOUS
        <4> QED  BY <3>2, <4>1
      <3> QED  BY <3>4, <3>5
    <2>6. ReaderFacts(n)
      <3> HIDE DEF n, got, o
      <3> QED  BY <1>2, <1>5, <2>3, <2>4, <2>5 DEF ReaderFacts, IsReadOp
    <2>7. answer' = [answer EXCEPT ![t] = answer'[t]] /\ AnswerFacts(answer'[t])
      BY <1>3, <2>1, PerReader
    <2> HIDE DEF n
    <2> QED  BY <1>1, <2>1, <2>2, <2>6, <2>7, ReaderStep
  <1> QED  BY <1>6, <1>7


\* ... and a request whose first query has found what it should.
LEMMA RequestInv ==
    ASSUME RecordInv, NEW t \in Readers, NEW kind \in {"get", "get_latest", "list"}, NEW about,
           NEW page \in Seq(Records), Request(t, kind, about, page),
           \A i \in DOMAIN page : page[i] \in Stored,
           kind = "get" /\ about \in acked => page # <<>>,
           kind = "get_latest" =>
               /\ Len(page) <= 1
               /\ page = <<>> => \A q \in acked : Content[q].device # about
               /\ page # <<>> => Newest(page[1], about, acked),
           kind = "list" /\ about = FirstPage => Len(page) >= Min({2, Cardinality(acked)})
    PROVE  RecordInv'
  <1> DEFINE got(r) == [id |-> r, errs |-> errs[r], parts |-> parts[r]]
  <1>1. UNCHANGED <<table, backend, rows, errs, parts, acked>>
    BY DEF Request
  <1>2. /\ t \in Tasks /\ op = [u \in Tasks |-> op[u]] /\ answer = [u \in Readers |-> answer[u]]
        /\ op[t] = Idle
    BY DEF RecordInv, TypeInv, Tasks, Request
  <1>3. CASE page = <<>> \/ table = "readings" \/ backend = "memory"
    <2> DEFINE g == [i \in DOMAIN page |-> got(page[i])]
               a == Answer(kind, about, acked, g)
    <2>1. answer' = [answer EXCEPT ![t] = a] /\ op' = op
      BY <1>3 DEF Request
    <2>2. answer'[t] = a /\ op' = [op EXCEPT ![t] = op'[t]] /\ op'[t] = Idle
      BY <1>2, <2>1
    <2>3. a.kind = kind /\ a.about = about /\ a.known = acked /\ a.got = g
      BY DEF Answer
    <2>4. /\ DOMAIN g = DOMAIN page /\ Len(g) = Len(page)
          /\ page # <<>> => g # <<>> /\ g[1].id = page[1]
      <3>1. g \in Seq({got(r) : r \in Records}) /\ Len(g) = Len(page) /\ DOMAIN g = DOMAIN page
        OBVIOUS
      <3>2. ASSUME page # <<>>
            PROVE  Len(g) # 0 /\ 1 \in DOMAIN page
        BY <3>1, <3>2
      <3>3. ASSUME page # <<>>
            PROVE  g[1] = got(page[1])
        BY <3>2, <3>3
      <3>4. ASSUME page # <<>>
            PROVE  g # <<>>
        <4>1. Len(<<>>) = 0
          OBVIOUS
        <4> HIDE DEF g
        <4> QED  BY <3>2, <3>4, <4>1
      <3> QED  BY <3>1, <3>3, <3>4
    <2>5. table = "statuses" => \A i \in DOMAIN g : PartWhole(g[i], acked)
      <3>1. SUFFICES ASSUME table = "statuses", NEW i \in DOMAIN page
                     PROVE  PartWhole(g[i], acked)
        BY <2>4
      <3>2. page[i] \in Stored /\ g[i] = got(page[i]) /\ backend = "memory"
        BY <1>3, <3>1
      <3>3. errs[page[i]] = 1 /\ parts[page[i]] = 1
        BY <3>1, <3>2, StoredParts
      <3> QED  BY <3>2, <3>3 DEF PartWhole
    <2>6. AnswerFacts(a)
      <3>1. \/ page # <<>> /\ g # <<>> /\ g[1].id = page[1]
            \/ page = <<>>
        BY <2>4
      <3> HIDE DEF a, g
      <3>2. table = "statuses" => \A i \in DOMAIN a.got : PartWhole(a.got[i], a.known)
        BY <2>3, <2>5
      <3>3. (a.kind = "get" /\ a.about \in a.known) => a.got # <<>>
        BY <2>3, <3>1
      <3>4. a.kind = "get_latest" =>
              \A r \in a.known : Content[r].device = a.about =>
                  /\ a.got # <<>>
                  /\ SortKey("timestamp", r) <= SortKey("timestamp", a.got[1].id)
        BY <2>3, <3>1 DEF Newest
      <3>5. (a.kind = "list" /\ a.about = FirstPage) => Len(a.got) >= Min({2, Cardinality(a.known)})
        BY <2>3, <2>4
      <3> QED  BY <3>2, <3>3, <3>4, <3>5 DEF AnswerFacts
    <2> HIDE DEF a
    <2> QED  BY <1>1, <2>1, <2>2, <2>6, ReaderStep
  <1>4. CASE ~ (page = <<>> \/ table = "readings" \/ backend = "memory")
    <2> DEFINE o == [kind |-> kind, pc |-> "errors", about |-> about, page |-> page,
                     got |-> <<>>, errs |-> 0, known |-> acked]
    <2>1. answer' = [answer EXCEPT ![t] = NoAnswer] /\ op' = [op EXCEPT ![t] = o]
      BY <1>4 DEF Request
    <2>2. answer'[t] = NoAnswer /\ op'[t] = o
      BY <1>2, <2>1
    <2>3. AnswerFacts(NoAnswer)
      BY DEF AnswerFacts, NoAnswer, Answer
    <2>4. /\ table = "statuses" /\ backend # "memory" /\ page # <<>>
          /\ Head(page) = page[1] /\ Len(page) \in Nat /\ Len(page) # 0
      BY <1>4 DEF RecordInv, TypeInv
    <2>5. /\ o.kind = kind /\ o.pc = "errors" /\ o.about = about /\ o.page = page
          /\ o.got = <<>> /\ o.errs = 0 /\ o.known = acked
          /\ DOMAIN o = {"kind", "pc", "about", "page", "got", "errs", "known"}
      OBVIOUS
    <2>6. ReaderFacts(o)
      <3> HIDE DEF o
      <3>1. Len(o.got) = 0 /\ o.got \in Seq(Part) /\ \A i \in DOMAIN o.got : PartWhole(o.got[i], o.known)
        BY <2>5
      <3>2. IsReadOp(o)
        BY <2>4, <2>5, <3>1 DEF IsReadOp
      <3>3. o.kind = "get_latest" => Len(o.page) = 1 /\ Newest(Head(o.page), o.about, o.known)
        <4>1. kind = "get_latest" => Len(page) = 1
          <5>1. \A n \in Nat : n # 0 /\ n <= 1 => n = 1
            OBVIOUS
          <5> QED  BY <2>4, <5>1, Zenon
        <4>2. kind = "get_latest" => Newest(page[1], about, acked)
          BY <2>4
        <4>3. Head(o.page) = page[1]
          BY <2>4, <2>5
        <4> QED  BY <2>5, <4>1, <4>2, <4>3
      <3>4. o.kind = "list" /\ o.about = FirstPage =>
                Len(o.got) + Len(o.page) >= Min({2, Cardinality(o.known)})
        BY <2>4, <2>5, <3>1
      <3> QED  BY <2>4, <2>5, <3>1, <3>2, <3>3, <3>4 DEF ReaderFacts
    <2> HIDE DEF o
    <2> QED  BY <1>1, <2>1, <2>2, <2>3, <2>6, ReaderStep
  <1> QED  BY <1>3, <1>4


\* What is acknowledged is stored, so a request made after it finds it.
LEMMA AckedInStored ==
    ASSUME RecordInv
    PROVE  acked \subseteq Stored /\ Stored \subseteq Records /\ IsFiniteSet(Stored)
  <1>1. ASSUME NEW r \in acked
        PROVE  r \in Stored
    <2>1. r \in Records /\ rows[r] \in Nat /\ rows[r] >= 1
      BY DEF RecordInv, TypeInv, AckedStored
    <2> QED  BY <2>1 DEF Stored
  <1>2. Stored \subseteq Records
    BY DEF Stored
  <1>3. IsFiniteSet(Stored)
    BY <1>2, FS_Subset
  <1> QED  BY <1>1, <1>2, <1>3

\* get
LEMMA GetInv ==
    ASSUME RecordInv, NEW t \in Readers, Get(t)
    PROVE  RecordInv'
  <1>1. PICK r \in Records : Request(t, "get", r, IF r \in Stored THEN <<r>> ELSE <<>>)
    BY DEF Get
  <1>2. acked \subseteq Stored /\ Stored \subseteq Records
    BY AckedInStored
  <1>3. CASE r \in Stored
    <2> DEFINE page == <<r>>
    <2>1. page \in Seq(Records) /\ page # <<>> /\ \A i \in DOMAIN page : page[i] \in Stored
      BY <1>3
    <2>2. Request(t, "get", r, page)
      BY <1>1, <1>3
    <2> HIDE DEF page
    <2> QED  BY <2>1, <2>2, RequestInv
  <1>4. CASE r \notin Stored
    <2>1. Request(t, "get", r, <<>>) /\ r \notin acked
      BY <1>1, <1>2, <1>4
    <2>2. <<>> \in Seq(Records) /\ \A i \in DOMAIN <<>> : <<>>[i] \in Stored
      OBVIOUS
    <2> QED  BY <2>1, <2>2, RequestInv
  <1> QED  BY <1>3, <1>4

\* Timestamps, as each back end keeps them, can be compared.
LEMMA TimestampKey ==
    ASSUME NEW r \in Records
    PROVE  SortKey("timestamp", r) \in Int
  <1>1. SortKey("timestamp", r) = Kept(backend, Content[r].at)
    BY DEF SortKey
  <1>2. Content[r].at \in Int
    OBVIOUS
  <1>3. Second(Content[r].at) \in Int
    BY <1>2 DEF Second
  <1> QED  BY <1>1, <1>2, <1>3 DEF Kept

\* get_latest
LEMMA GetLatestInv ==
    ASSUME RecordInv, NEW t \in Readers, GetLatest(t)
    PROVE  RecordInv'
  <1>1. PICK d \in {Content[r].device : r \in Records} :
           IF Latest(d) = {} THEN Request(t, "get_latest", d, <<>>)
           ELSE \E r \in Latest(d) : Request(t, "get_latest", d, <<r>>)
    BY DEF GetLatest
  <1>2. acked \subseteq Stored /\ Stored \subseteq Records /\ IsFiniteSet(Stored)
    BY AckedInStored
  <1>3. CASE Latest(d) = {}
    <2> DEFINE S == {r \in Stored : Content[r].device = d}
               key == [r \in S |-> SortKey("timestamp", r)]
    <2>1. IsFiniteSet(S)
      BY <1>2, FS_Subset
    <2>2. key \in [S -> Int]
      BY <1>2, TimestampKey
    <2>3. S = {}
      <3>1. SUFFICES ASSUME S # {} PROVE FALSE
        OBVIOUS
      <3>2. \E x \in S : \A y \in S : key[y] <= key[x]
        <4> HIDE DEF S, key
        <4> QED  BY <2>1, <2>2, <3>1, LargestKey
      <3>3. PICK x \in S : \A y \in S : SortKey("timestamp", y) <= SortKey("timestamp", x)
        BY <3>2
      <3>4. x \in Latest(d)
        BY <3>3 DEF Latest
      <3> QED  BY <1>3, <3>4
    <2>4. \A q \in acked : Content[q].device # d
      BY <1>2, <2>3
    <2>5. <<>> \in Seq(Records) /\ (\A i \in DOMAIN <<>> : <<>>[i] \in Stored) /\ Len(<<>>) <= 1
      OBVIOUS
    <2>6. Request(t, "get_latest", d, <<>>)
      BY <1>1, <1>3
    <2> QED  BY <2>4, <2>5, <2>6, RequestInv
  <1>4. CASE Latest(d) # {}
    <2>1. PICK r \in Latest(d) : Request(t, "get_latest", d, <<r>>)
      BY <1>1, <1>4
    <2> DEFINE page == <<r>>
    <2>2. r \in Stored /\ Newest(r, d, acked)
      BY <1>2 DEF Latest, Newest
    <2>3. /\ page \in Seq(Records) /\ page # <<>> /\ Len(page) <= 1 /\ page[1] = r
          /\ \A i \in DOMAIN page : page[i] \in Stored
      BY <1>2, <2>2
    <2>4. Request(t, "get_latest", d, page)
      BY <2>1
    <2> HIDE DEF page
    <2> QED  BY <2>2, <2>3, <2>4, RequestInv
  <1> QED  BY <1>3, <1>4


\* A query without a filter leaves out no record that is stored and finds no other.
LEMMA MatchingAll ==
    ASSUME RecordInv
    PROVE  /\ \A m \in Matching(NoFilter) : m[1] \in Stored
           /\ \A r \in Stored : \E m \in Matching(NoFilter) : m[1] = r
           /\ table = "readings" =>
                 \A m \in Matching(NoFilter) :
                     m = <<m[1], m[2]>> /\ m[2] \in Nat /\ m[2] <= rows[m[1]]
  <1> DEFINE f == NoFilter
             M == Matching(f)
  <1> SUFFICES /\ \A m \in M : m[1] \in Stored
               /\ \A r \in Stored : \E m \in M : m[1] = r
               /\ table = "readings" =>
                     \A m \in M : m = <<m[1], m[2]>> /\ m[2] \in Nat /\ m[2] <= rows[m[1]]
    OBVIOUS
  <1>1. /\ f.ids = {} /\ f.devices = {} /\ f.sensors = {} /\ f.dispatchers = {} /\ f.metrics = {}
        /\ f.locations = {} /\ f.after = {} /\ f.before = {} /\ f.level = {}
        /\ f.has_errors = {} /\ f.codes = {}
    BY DEF NoFilter, NoReadingFilter, NoStatusFilter
  <1> HIDE DEF f
  <1>2. \A r, e : /\ MemoryReadingFilter(f, r) /\ SqliteReadingFilter(f, r)
                  /\ ClickHouseReadingFilter(f, r) /\ MemoryStatusFilter(f, r)
                  /\ SqliteStatusFilter(f, r, e) /\ ClickHouseStatusFilter(f, r, e)
    BY <1>1 DEF MemoryReadingFilter, SqliteReadingFilter, ClickHouseReadingFilter, MemoryStatusFilter,
                SqliteStatusFilter, ClickHouseStatusFilter, Admits, SqlIn, InRange, InWindow, SqlInWindow
  <1>3. \A r, e : Joined(f, r, e) = {Null}
    BY <1>1 DEF Joined
  <1>4. \A r \in Stored : rows[r] \in Nat /\ 1 <= rows[r]
    <2>1. \A r \in Stored : rows[r] \in Nat /\ rows[r] > 0
      BY DEF RecordInv, TypeInv, Stored
    <2> QED  BY <2>1
  <1>5. CASE table = "readings" /\ backend \in {"memory", "sqlite"}
    <2>1. M = {<<r, 1>> : r \in Stored}
      BY <1>2, <1>5 DEF Matching
    <2> HIDE DEF M
    <2>2. \A r \in Stored : <<r, 1>> \in M /\ <<r, 1>>[1] = r
      BY <2>1
    <2>3. ASSUME NEW m \in M
          PROVE  m[1] \in Stored /\ m = <<m[1], m[2]>> /\ m[2] \in Nat /\ m[2] <= rows[m[1]]
      <3>1. PICK r \in Stored : m = <<r, 1>>
        BY <2>1
      <3>2. m[1] = r /\ m[2] = 1
        BY <3>1
      <3> QED  BY <1>4, <3>1, <3>2
    <2> QED  BY <2>2, <2>3
  <1>6. CASE table = "readings" /\ backend = "clickhouse"
    <2>1. M = UNION {{<<r, n>> : n \in 1 .. rows[r]} : r \in Stored}
      BY <1>2, <1>6 DEF Matching
    <2> HIDE DEF M
    <2>2. \A r \in Stored : <<r, 1>> \in M /\ <<r, 1>>[1] = r
      BY <1>4, <2>1
    <2>3. ASSUME NEW m \in M
          PROVE  m[1] \in Stored /\ m = <<m[1], m[2]>> /\ m[2] \in Nat /\ m[2] <= rows[m[1]]
      <3>1. PICK r \in Stored : \E n \in 1 .. rows[r] : m = <<r, n>>
        BY <2>1
      <3>2. PICK n \in 1 .. rows[r] : m = <<r, n>>
        BY <3>1
      <3>3. m[1] = r /\ m[2] = n
        BY <3>2
      <3>4. n \in Nat /\ n <= rows[r]
        BY <1>4, <3>2
      <3> QED  BY <3>2, <3>3, <3>4
    <2> QED  BY <2>2, <2>3
  <1>7. CASE table = "statuses"
    <2>1. M = {<<r, Null>> : r \in Stored}
      BY <1>2, <1>3, <1>7 DEF Matching, RecordInv, TypeInv, Backends
    <2> HIDE DEF M
    <2>2. \A r \in Stored : <<r, Null>> \in M /\ <<r, Null>>[1] = r
      BY <2>1
    <2>3. \A m \in M : \E r \in Stored : m = <<r, Null>>
      BY <2>1
    <2> QED  BY <1>7, <2>2, <2>3
  <1> QED  BY <1>5, <1>6, <1>7 DEF RecordInv, TypeInv, Backends


\* The records that a list goes through: all that are stored, finitely often.
LEMMA DistinctAll ==
    ASSUME RecordInv, NEW D, D = Distinct(Matching(NoFilter))
    PROVE  /\ IsFiniteSet(D)
           /\ \A m \in D : m[1] \in Stored
           /\ \A r \in Stored : \E m \in D : m[1] = r
           /\ Cardinality(acked) \in Nat /\ Cardinality(acked) <= Cardinality(D)
  <1> DEFINE M == Matching(NoFilter)
  <1>0. /\ acked \subseteq Stored /\ Stored \subseteq Records /\ IsFiniteSet(Stored)
        /\ rows \in [Records -> Nat] /\ table \in {"readings", "statuses"}
    BY AckedInStored DEF RecordInv, TypeInv
  <1>1. /\ \A m \in M : m[1] \in Stored
        /\ \A r \in Stored : \E m \in M : m[1] = r
        /\ table = "readings" =>
              \A m \in M : m = <<m[1], m[2]>> /\ m[2] \in Nat /\ m[2] <= rows[m[1]]
    BY MatchingAll
  <1>2. /\ table = "statuses" => D = {<<r, 1>> : r \in {m[1] : m \in M}}
        /\ table = "readings" => D = M
    BY DEF Distinct
  <1> HIDE DEF M
  <1>3. /\ \A m \in D : m[1] \in Stored
        /\ \A r \in Stored : \E m \in D : m[1] = r
    <2>1. CASE table = "readings"
      BY <1>1, <1>2, <2>1
    <2>2. CASE table = "statuses"
      <3>1. {m[1] : m \in M} = Stored
        BY <1>1
      <3>2. D = {<<r, 1>> : r \in Stored}
        BY <1>2, <2>2, <3>1
      <3>3. \A r \in Stored : <<r, 1>> \in D /\ <<r, 1>>[1] = r
        BY <3>2
      <3>4. \A m \in D : \E r \in Stored : m = <<r, 1>>
        BY <3>2
      <3> QED  BY <3>3, <3>4
    <2> QED  BY <1>0, <2>1, <2>2
  <1>4. \E k \in Nat : D \subseteq Stored \X (0 .. k)
    <2>1. CASE table = "statuses"
      <3>1. D \subseteq Stored \X (0 .. 1)
        BY <1>1, <1>2, <2>1
      <3> QED  BY <3>1
    <2>2. CASE table = "readings" /\ Stored = {}
      <3>1. D = {}
        BY <1>3, <2>2
      <3>2. D \subseteq Stored \X (0 .. 0)
        BY <3>1
      <3> QED  BY <3>2
    <2>3. CASE table = "readings" /\ Stored # {}
      <3> DEFINE key == [r \in Stored |-> rows[r]]
      <3>1. key \in [Stored -> Int]
        BY <1>0
      <3>2. \E x \in Stored : \A y \in Stored : key[y] <= key[x]
        <4> HIDE DEF key
        <4> QED  BY <1>0, <2>3, <3>1, LargestKey
      <3>3. PICK x \in Stored : \A y \in Stored : rows[y] <= rows[x]
        BY <3>2
      <3>4. ASSUME NEW m \in D
            PROVE  m \in Stored \X (0 .. rows[x])
        <4>1. /\ m = <<m[1], m[2]>> /\ m[1] \in Stored /\ m[2] \in Nat
              /\ m[2] <= rows[m[1]] /\ rows[m[1]] <= rows[x] /\ rows[m[1]] \in Nat /\ rows[x] \in Nat
          BY <1>0, <1>1, <1>2, <2>3, <3>3
        <4>2. m[2] \in 0 .. rows[x]
          BY <4>1
        <4> QED  BY <4>1, <4>2
      <3>5. rows[x] \in Nat
        BY <1>0
      <3> QED  BY <3>4, <3>5
    <2> QED  BY <1>0, <2>1, <2>2, <2>3
  <1>5. IsFiniteSet(D)
    <2>1. PICK k \in Nat : D \subseteq Stored \X (0 .. k)
      BY <1>4
    <2>2. IsFiniteSet(0 .. k)
      BY FS_Interval
    <2>3. IsFiniteSet(Stored \X (0 .. k))
      BY <1>0, <2>2, FS_Product
    <2> QED  BY <2>1, <2>3, FS_Subset
  <1>6. Cardinality(acked) \in Nat /\ Cardinality(acked) <= Cardinality(D)
    <2> DEFINE g == [m \in D |-> m[1]]
    <2>1. g \in Surjection(D, Stored)
      BY <1>3 DEF Surjection
    <2>2. Cardinality(Stored) <= Cardinality(D)
      <3> HIDE DEF g
      <3> QED  BY <1>5, <2>1, FS_Surjection
    <2>3. IsFiniteSet(acked) /\ Cardinality(acked) <= Cardinality(Stored)
      BY <1>0, FS_Subset
    <2>4. Cardinality(acked) \in Nat /\ Cardinality(Stored) \in Nat /\ Cardinality(D) \in Nat
      BY <1>0, <1>5, <2>3, FS_CardinalityType
    <2> QED  BY <2>2, <2>3, <2>4
  <1> QED  BY <1>3, <1>5, <1>6


\* The orders in which a list may find them.
LEMMA OrdersType ==
    ASSUME RecordInv, NEW by, NEW order, NEW s \in Orders(by, order)
    PROVE  s \in Seq(Stored) /\ Cardinality(acked) \in Nat /\ Cardinality(acked) <= Len(s)
  <1> DEFINE D == Distinct(Matching(NoFilter))
             key == [m \in D |-> SortKey(by, m[1])]
  <1>1. /\ IsFiniteSet(D)
        /\ \A m \in D : m[1] \in Stored
        /\ Cardinality(acked) \in Nat /\ Cardinality(acked) <= Cardinality(D)
    <2> HIDE DEF D
    <2>1. D = Distinct(Matching(NoFilter))
      BY DEF D
    <2> QED  BY <2>1, DistinctAll
  <1>2. PICK u \in Sorted(key, order) : s = [i \in DOMAIN u |-> u[i][1]]
    BY DEF Orders
  <1> HIDE DEF D
  <1>3. u \in [1 .. Cardinality(D) -> D]
    <2>1. DOMAIN key = D
      OBVIOUS
    <2>2. u \in SetToSeqs(D)
      BY <1>2, <2>1 DEF Sorted
    <2> QED  BY <2>2 DEF SetToSeqs
  <1>4. Cardinality(D) \in Nat
    BY <1>1, FS_CardinalityType
  <1>5. s \in [1 .. Cardinality(D) -> Stored]
    BY <1>1, <1>2, <1>3
  <1>6. s \in Seq(Stored) /\ Len(s) = Cardinality(D)
    BY <1>4, <1>5
  <1> QED  BY <1>1, <1>6

\* Offset, and both kinds of cursor.
LEMMA PageType ==
    ASSUME backend \in Backends, NEW s \in Seq(Stored), NEW n \in Nat, n <= Len(s),
           NEW page \in [mode : {"offset"}, at : {0, 1}] \cup [mode : {"cursor"}, at : {Min(Records)}]
    PROVE  /\ Page(s, page) \in Seq(Stored)
           /\ page = FirstPage => Len(Page(s, page)) >= Min({2, n})
  <1>1. CASE page.mode = "offset"
    <2>1. page.at \in {0, 1}
      BY <1>1
    <2>2. Page(s, page) = Upto(s, page.at + 1, 2)
      BY <1>1 DEF Page, OffsetPage
    <2>3. page.at + 1 \in Nat \ {0}
      BY <2>1
    <2>4. Page(s, page) \in Seq(Stored)
      BY <2>2, <2>3, UptoType
    <2>5. ASSUME page = FirstPage
          PROVE  Len(Page(s, page)) >= Min({2, n})
      <3>1. page.at + 1 = 1
        BY <2>5 DEF FirstPage
      <3>2. Len(Page(s, page)) = IF Len(s) < 2 THEN Len(s) ELSE 2
        BY <2>2, <2>3, <3>1, UptoType
      <3>3. Min({2, n}) \in {2, n} /\ Min({2, n}) <= 2 /\ Min({2, n}) <= n
        <4>1. \E x \in {2, n} : \A y \in {2, n} : x <= y
          OBVIOUS
        <4> QED  BY <4>1 DEF Min
      <3>4. Len(s) \in Nat
        OBVIOUS
      <3> HIDE DEF Min
      <3> QED  BY <3>2, <3>3, <3>4
    <2> QED  BY <2>4, <2>5
  <1>2. CASE page.mode = "cursor"
    <2>1. page # FirstPage
      BY <1>2 DEF FirstPage
    <2>2. CASE backend = "memory"
      <3>1. Page(s, page) = CursorPage(s, {page.at}, 2)
        BY <1>2, <2>2 DEF Page
      <3>2. CASE {page.at} \in {{s[i]} : i \in DOMAIN s}
        <4> DEFINE j == CHOOSE i \in DOMAIN s : {s[i]} = {page.at}
        <4>1. j \in DOMAIN s
          BY <3>2
        <4>2. Page(s, page) = Upto(s, 1 + j, 2)
          BY <3>1, <3>2 DEF CursorPage
        <4> HIDE DEF j
        <4>3. 1 + j \in Nat \ {0}
          BY <4>1
        <4> QED  BY <2>1, <4>2, <4>3, UptoType
      <3>3. CASE {page.at} \notin {{s[i]} : i \in DOMAIN s}
        BY <2>1, <3>1, <3>3 DEF CursorPage
      <3> QED  BY <3>2, <3>3
    <2>3. CASE backend # "memory"
      <3>1. Page(s, page) = Upto(s, 1, 2)
        BY <1>2, <2>3 DEF Page, SqlCursorPage
      <3> QED  BY <2>1, <3>1, UptoType
    <2> QED  BY <2>2, <2>3
  <1> QED  BY <1>1, <1>2

\* list
LEMMA ListInv ==
    ASSUME RecordInv, NEW t \in Readers, List(t)
    PROVE  RecordInv'
  <1>1. PICK by \in {"timestamp", "level", "device_id"}, order \in {"asc", "desc"} :
           \E s \in Orders(by, order),
              page \in [mode : {"offset"}, at : {0, 1}] \cup [mode : {"cursor"}, at : {Min(Records)}] :
               Request(t, "list", page, Page(s, page))
    BY DEF List
  <1>2. PICK s \in Orders(by, order),
             page \in [mode : {"offset"}, at : {0, 1}] \cup [mode : {"cursor"}, at : {Min(Records)}] :
               Request(t, "list", page, Page(s, page))
    BY <1>1
  <1>3. s \in Seq(Stored) /\ Cardinality(acked) \in Nat /\ Cardinality(acked) <= Len(s)
    BY OrdersType
  <1>4. backend \in Backends /\ Stored \subseteq Records
    BY AckedInStored DEF RecordInv, TypeInv
  <1> DEFINE p == Page(s, page)
  <1>5. /\ p \in Seq(Stored)
        /\ page = FirstPage => Len(p) >= Min({2, Cardinality(acked)})
    BY <1>3, <1>4, PageType
  <1>6. Request(t, "list", page, p)
    BY <1>2
  <1> HIDE DEF p
  <1>7. p \in Seq(Records) /\ \A i \in DOMAIN p : p[i] \in Stored
    <2>1. Len(p) \in Nat /\ p \in [1 .. Len(p) -> Stored]
      BY <1>5
    <2>2. p \in [1 .. Len(p) -> Records] /\ \A i \in DOMAIN p : p[i] \in Stored
      BY <1>4, <2>1
    <2> QED  BY <2>1, <2>2
  <1> QED  BY <1>5, <1>6, <1>7, RequestInv

(***************************************************************************)
(* The theorems.                                                           *)
(***************************************************************************)

\* RecordInv is inductive: every step of batch_store and of a reader, in each back end,
\* keeps it.
THEOREM RecordsInvariant == Spec => []RecordInv
  <1>1. Init => RecordInv
    <2>1. SUFFICES ASSUME Init PROVE RecordInv
      OBVIOUS
    <2>2. \A t \in Tasks : op[t] = Idle
      BY <2>1 DEF Init
    <2>3. \A t \in Readers : t \in Tasks /\ answer[t] = NoAnswer
      BY <2>1 DEF Init, Tasks
    <2>4. TypeInv
      BY <2>1, <2>2 DEF Init, TypeInv, Tasks
    <2>5. AckedStored /\ StoredOnce
      BY <2>1 DEF Init, AckedStored, StoredOnce
    <2>6. StoringInv /\ ReadingInv /\ CurrentInv
      BY <2>2 DEF StoringInv, ReadingInv, CurrentInv, Tasks
    <2>7. ReadsWhole /\ ReadsCurrent
      <3>1. AnswerFacts(NoAnswer)
        BY DEF AnswerFacts, NoAnswer, Answer
      <3> QED  BY <2>3, <3>1, PerReader
    <2> QED  BY <2>4, <2>5, <2>6, <2>7 DEF RecordInv
  <1>2. RecordInv /\ [Next]_vars => RecordInv'
    <2>1. SUFFICES ASSUME RecordInv, [Next]_vars PROVE RecordInv'
      OBVIOUS
    <2>2. ASSUME NEW h \in Handlers, Store(h)
          PROVE  RecordInv'
      BY <2>1, <2>2, StoreInv
    <2>3. ASSUME NEW t \in Readers, Read(t)
          PROVE  RecordInv'
      BY <2>1, <2>3, GetInv, GetLatestInv, ListInv, FetchErrorsInv, FetchSensorStatusesInv DEF Read
    <2>4. CASE UNCHANGED vars
      <3>1. TypeInv' /\ AckedStored' /\ StoredOnce'
        BY <2>1, <2>4 DEF vars, RecordInv, TypeInv, AckedStored, StoredOnce
      <3>2. StoringInv'
        BY <2>1, <2>4 DEF vars, RecordInv, StoringInv, Whole, Current
      <3>3. ReadingInv' /\ CurrentInv'
        BY <2>1, <2>4 DEF vars, RecordInv, ReadingInv, CurrentInv, PartWhole, Newest, SortKey, Stored
      <3>4. ReadsWhole' /\ ReadsCurrent'
        BY <2>1, <2>4 DEF vars, RecordInv, ReadsWhole, ReadsCurrent, SortKey
      <3> QED  BY <3>1, <3>2, <3>3, <3>4 DEF RecordInv
    <2> QED  BY <2>1, <2>2, <2>3, <2>4 DEF Next
  <1> QED  BY <1>1, <1>2, PTL DEF Spec

\* When batch_store has returned Ok every record of the batch is there with its errors and
\* sensor statuses, and stays, whatever other handlers store, fail at and store again.
THEOREM RecordsAckedStored == Spec => []AckedStored
  <1>1. RecordInv => AckedStored
    BY DEF RecordInv
  <1> QED  BY <1>1, RecordsInvariant, PTL

\* Redelivered batches leave one row, one set of errors and one of sensor statuses in
\* memory and in SQLite, never some of it without the rest.
THEOREM RecordsStoredOnce == Spec => []StoredOnce
  <1>1. RecordInv => StoredOnce
    BY DEF RecordInv
  <1> QED  BY <1>1, RecordsInvariant, PTL

\* A status is read whole although SQLite and ClickHouse read its errors and sensor
\* statuses in queries of their own, between which others store.
THEOREM RecordsReadWhole == Spec => []ReadsWhole
  <1>1. RecordInv => ReadsWhole
    BY DEF RecordInv
  <1> QED  BY <1>1, RecordsInvariant, PTL

\* get, get_latest and the first page of list miss nothing that was acknowledged before
\* the reader asked, in every back end and every sort order.
THEOREM RecordsReadCurrent == Spec => []ReadsCurrent
  <1>1. RecordInv => ReadsCurrent
    BY DEF RecordInv
  <1> QED  BY <1>1, RecordsInvariant, PTL

(***************************************************************************)
(* Filters.                                                                *)
(***************************************************************************)

\* The filters on which the back ends mean the same: only what a filter of this table has;
\* in SQL no empty list, and bounds that do not cut a second; of has_errors and codes what
\* a LEFT JOIN can tell, which in ClickHouse is codes other than 0 of statuses whose
\* errors are there.
Portable(f) ==
    /\ table = "readings" => f.has_errors = {} /\ f.codes = {}
    /\ table = "statuses" => f.sensors = {} /\ f.metrics = {} /\ f.locations = {}
    /\ backend # "memory" =>
          /\ {} \notin f.ids \cup f.devices \cup f.sensors \cup f.dispatchers
                       \cup f.metrics \cup f.locations \cup f.codes
          /\ \A a \in f.after : \E n \in Int : a = n * TicksPerSecond
          /\ \A b \in f.before : \E n \in Int : b = n * TicksPerSecond + TicksPerSecond - 1
          /\ \A l \in f.codes : f.codes = {l} /\ l \subseteq Nat
    /\ \A b \in f.after \cup f.before : b \in Int
    /\ \A v \in f.level : v[1] \in Int /\ v[2] \in Int
    /\ f.has_errors \subseteq BOOLEAN
    /\ backend = "clickhouse" =>
          /\ f.has_errors = {}
          /\ \A l \in f.codes : 0 \notin l
          /\ f.codes # {} => \A r \in Stored : Content[r].errors # {} => errs[r] > 0

\* What a filter asks of every record, and of the errors of a status.
AsksOfAll(f, r) ==
    LET c == Content[r]
    IN /\ \A l \in f.ids : r \in l
       /\ \A l \in f.devices : c.device \in l
       /\ \A l \in f.dispatchers : c.dispatcher \in l
       /\ \A a \in f.after : a <= c.at
       /\ \A b \in f.before : c.at <= b
       /\ \A v \in f.level : c.level \in v[1] .. v[2]

AsksOfReading(f, r) ==
    LET c == Content[r]
    IN /\ \A l \in f.sensors : c.sensor \in l
       /\ \A l \in f.metrics : c.metric \in l
       /\ \A l \in f.locations : c.location \in l

AsksOfErrors(f, r) ==
    LET c == Content[r]
    IN /\ \A b \in f.has_errors : b = (c.errors # {})
       /\ \A l \in f.codes : c.errors \cap l # {}

\* The part of a query that readings and statuses have in common.
LEMMA CommonFilter ==
    ASSUME NEW f, Portable(f), NEW r \in Records, backend \in Backends
    PROVE  LET c == Content[r]
           IN /\ backend = "memory" =>
                    (/\ Admits(f.ids, r) /\ Admits(f.devices, c.device)
                     /\ Admits(f.dispatchers, c.dispatcher)
                     /\ InRange(f.level, c.level) /\ InWindow(f.after, f.before, c.at))
                        <=> AsksOfAll(f, r)
              /\ backend # "memory" =>
                    (/\ SqlIn(f.ids, r) /\ SqlIn(f.devices, c.device)
                     /\ SqlIn(f.dispatchers, c.dispatcher)
                     /\ InRange(f.level, c.level) /\ SqlInWindow(f.after, f.before, c.at))
                        <=> AsksOfAll(f, r)
  <1> DEFINE c == Content[r]
  <1>1. c.at \in Int /\ c.level \in Int
    BY ContentAssumption
  <1>2. InRange(f.level, c.level) <=> \A v \in f.level : c.level \in v[1] .. v[2]
    BY <1>1 DEF Portable, InRange
  <1>3. InWindow(f.after, f.before, c.at)
          <=> (\A a \in f.after : a <= c.at) /\ (\A b \in f.before : c.at <= b)
    BY <1>1 DEF Portable, InWindow
  <1>4. ASSUME backend # "memory"
        PROVE  SqlInWindow(f.after, f.before, c.at)
                 <=> (\A a \in f.after : a <= c.at) /\ (\A b \in f.before : c.at <= b)
    <2> HIDE DEF c
    <2>1. \A a \in f.after : (Second(c.at) >= Second(a)) <=> a <= c.at
      <3> SUFFICES ASSUME NEW a \in f.after
                   PROVE  (Second(c.at) >= Second(a)) <=> a <= c.at
        OBVIOUS
      <3>1. PICK n \in Int : a = n * TicksPerSecond
        BY <1>4 DEF Portable
      <3>2. (Second(c.at) >= Second(a)) <=> c.at >= a
        BY <1>1, <3>1, SecondBounds
      <3> QED  BY <1>1, <3>2 DEF Portable
    <2>2. \A b \in f.before : (Second(c.at) <= Second(b)) <=> c.at <= b
      <3> SUFFICES ASSUME NEW b \in f.before
                   PROVE  (Second(c.at) <= Second(b)) <=> c.at <= b
        OBVIOUS
      <3>1. PICK n \in Int : b = n * TicksPerSecond + TicksPerSecond - 1
        BY <1>4 DEF Portable
      <3> QED  BY <1>1, <3>1, SecondBounds
    <2> QED  BY <2>1, <2>2 DEF SqlInWindow
  <1>5. AsksOfAll(f, r) <=>
           /\ \A l \in f.ids : r \in l
           /\ \A l \in f.devices : c.device \in l
           /\ \A l \in f.dispatchers : c.dispatcher \in l
           /\ \A a \in f.after : a <= c.at
           /\ \A b \in f.before : c.at <= b
           /\ \A v \in f.level : c.level \in v[1] .. v[2]
    BY DEF AsksOfAll
  <1>6. backend # "memory" =>
           /\ SqlIn(f.ids, r) <=> \A l \in f.ids : r \in l
           /\ SqlIn(f.devices, c.device) <=> \A l \in f.devices : c.device \in l
           /\ SqlIn(f.dispatchers, c.dispatcher) <=> \A l \in f.dispatchers : c.dispatcher \in l
    BY DEF Portable, SqlIn
  <1>7. /\ Admits(f.ids, r) <=> \A l \in f.ids : r \in l
        /\ Admits(f.devices, c.device) <=> \A l \in f.devices : c.device \in l
        /\ Admits(f.dispatchers, c.dispatcher) <=> \A l \in f.dispatchers : c.dispatcher \in l
    BY DEF Admits
  <1> QED  BY <1>2, <1>3, <1>4, <1>5, <1>6, <1>7

\* The queries of readings.
LEMMA ReadingFound ==
    ASSUME NEW f, Portable(f), NEW r \in Records, backend \in Backends, table = "readings"
    PROVE  /\ backend = "memory" => (MemoryReadingFilter(f, r) <=> Matches(f, r))
           /\ backend = "sqlite" => (SqliteReadingFilter(f, r) <=> Matches(f, r))
           /\ backend = "clickhouse" => (ClickHouseReadingFilter(f, r) <=> Matches(f, r))
  <1> DEFINE c == Content[r]
  <1>1. AsksOfErrors(f, r)
    BY DEF Portable, AsksOfErrors
  <1>2. Matches(f, r) <=> AsksOfAll(f, r) /\ AsksOfReading(f, r) /\ AsksOfErrors(f, r)
    BY DEF Matches, AsksOfAll, AsksOfReading, AsksOfErrors
  <1>3. (Admits(f.sensors, c.sensor) /\ Admits(f.metrics, c.metric) /\ Admits(f.locations, c.location))
           <=> AsksOfReading(f, r)
    BY DEF Admits, AsksOfReading
  <1>4. backend # "memory" =>
           ((SqlIn(f.sensors, c.sensor) /\ SqlIn(f.metrics, c.metric) /\ SqlIn(f.locations, c.location))
              <=> AsksOfReading(f, r))
    BY DEF Portable, SqlIn, AsksOfReading
  <1>5. CASE backend = "memory"
    BY <1>1, <1>2, <1>3, <1>5, CommonFilter DEF MemoryReadingFilter
  <1>6. CASE backend = "sqlite"
    BY <1>1, <1>2, <1>4, <1>6, CommonFilter DEF SqliteReadingFilter
  <1>7. CASE backend = "clickhouse"
    BY <1>1, <1>2, <1>4, <1>7, CommonFilter DEF ClickHouseReadingFilter
  <1> QED  BY <1>5, <1>6, <1>7 DEF Backends

\* The rows of the join in which a status appears: one of them has the error the filter
\* asks for exactly when the status has.
LEMMA JoinFound ==
    ASSUME RecordInv, NEW f, Portable(f), NEW r \in Stored, table = "statuses"
    PROVE  /\ backend = "sqlite" =>
                 ((\E e \in Joined(f, r, Null) :
                      (\A b \in f.has_errors : b = (e # Null)) /\ SqlIn(f.codes, e))
                    <=> AsksOfErrors(f, r))
           /\ backend = "clickhouse" =>
                 ((\E e \in Joined(f, r, 0) : (\A b \in f.has_errors : b) /\ SqlIn(f.codes, e))
                    <=> AsksOfErrors(f, r))
  <1> DEFINE E == Content[r].errors
  <1>1. r \in Records /\ E \subseteq Nat /\ Null \notin Nat /\ rows[r] \in Nat /\ rows[r] > 0
        /\ errs[r] \in Nat
    BY ContentAssumption DEF Stored, Null, RecordInv, TypeInv
  <1>2. backend = "sqlite" => errs[r] # 0
    <2>1. backend = "sqlite" => errs[r] = rows[r]
      BY <1>1 DEF RecordInv, StoredOnce
    <2> QED  BY <1>1, <2>1
  <1>3. AsksOfErrors(f, r) <=>
           (\A b \in f.has_errors : b = (E # {})) /\ (\A l \in f.codes : E \cap l # {})
    BY DEF AsksOfErrors
  <1>4. \A u : Joined(f, r, u) = IF f.has_errors = {} /\ f.codes \subseteq {{}} THEN {Null}
                                 ELSE IF E = {} \/ errs[r] = 0 THEN {u} ELSE E
    BY DEF Joined
  <1> HIDE DEF E
  <1>5. ASSUME backend # "memory"
        PROVE  /\ \A l \in f.codes : f.codes = {l} /\ l \subseteq Nat /\ l # {}
               /\ f.has_errors \subseteq BOOLEAN
               /\ \A e : SqlIn(f.codes, e) <=> \A l \in f.codes : e \in l
    BY <1>5 DEF Portable, SqlIn
  <1>6. CASE f.has_errors = {} /\ f.codes = {}
    BY <1>3, <1>4, <1>6 DEF SqlIn
  <1>7. CASE backend = "sqlite" /\ ~(f.has_errors = {} /\ f.codes = {})
    <2>1. ~(f.has_errors = {} /\ f.codes \subseteq {{}})
      BY <1>5, <1>7
    <2>2. CASE E = {}
      <3>1. Joined(f, r, Null) = {Null}
        BY <1>4, <2>1, <2>2
      <3>2. \A l \in f.codes : Null \notin l
        BY <1>1, <1>5, <1>7
      <3> QED  BY <1>3, <1>5, <1>7, <2>2, <3>1, <3>2
    <2>3. CASE E # {}
      <3>1. Joined(f, r, Null) = E
        BY <1>2, <1>4, <1>7, <2>1, <2>3
      <3>2. \A e \in E : e # Null
        BY <1>1
      <3>3. CASE f.codes = {}
        BY <1>3, <1>5, <1>7, <2>3, <3>1, <3>2, <3>3
      <3>4. CASE f.codes # {}
        <4>1. PICK l : f.codes = {l}
          BY <1>5, <1>7, <3>4
        <4>2. (\E e \in E : e \in l) <=> E \cap l # {}
          OBVIOUS
        <4>3. \A e : SqlIn(f.codes, e) <=> e \in l
          BY <1>5, <1>7, <4>1
        <4>4. AsksOfErrors(f, r) <=> (\A b \in f.has_errors : b = TRUE) /\ E \cap l # {}
          BY <1>3, <2>3, <4>1
        <4>5. \A e \in E : (\A b \in f.has_errors : b = (e # Null))
                             <=> (\A b \in f.has_errors : b = TRUE)
          BY <3>2
        <4> QED  BY <1>7, <3>1, <4>2, <4>3, <4>4, <4>5, Zenon
      <3> QED  BY <3>3, <3>4
    <2> QED  BY <2>2, <2>3
  <1>8. CASE backend = "clickhouse" /\ ~(f.has_errors = {} /\ f.codes = {})
    <2>1. f.has_errors = {} /\ f.codes # {} /\ ~(f.codes \subseteq {{}})
      BY <1>5, <1>8 DEF Portable
    <2>2. PICK l : f.codes = {l} /\ 0 \notin l
      BY <1>5, <1>8, <2>1 DEF Portable
    <2>3. E # {} => errs[r] # 0
      BY <1>1, <1>8, <2>1 DEF Portable, E
    <2>4. AsksOfErrors(f, r) <=> E \cap l # {}
      BY <1>3, <2>1, <2>2
    <2>5. \A e : SqlIn(f.codes, e) <=> e \in l
      BY <1>5, <1>8, <2>2
    <2>6. CASE E = {}
      <3>1. Joined(f, r, 0) = {0}
        BY <1>4, <2>1, <2>6
      <3> QED  BY <1>8, <2>2, <2>4, <2>5, <2>6, <3>1
    <2>7. CASE E # {}
      <3>1. Joined(f, r, 0) = E
        BY <1>4, <2>1, <2>3, <2>7
      <3> QED  BY <1>8, <2>1, <2>4, <2>5, <3>1
    <2> QED  BY <2>6, <2>7
  <1> QED  BY <1>6, <1>7, <1>8

\* The queries of statuses.
LEMMA StatusFound ==
    ASSUME RecordInv, NEW f, Portable(f), NEW r \in Stored, table = "statuses"
    PROVE  /\ backend = "memory" => (MemoryStatusFilter(f, r) <=> Matches(f, r))
           /\ backend = "sqlite" =>
                 ((\E e \in Joined(f, r, Null) : SqliteStatusFilter(f, r, e)) <=> Matches(f, r))
           /\ backend = "clickhouse" =>
                 ((\E e \in Joined(f, r, 0) : ClickHouseStatusFilter(f, r, e)) <=> Matches(f, r))
  <1> DEFINE c == Content[r]
  <1>0. r \in Records /\ backend \in Backends
    BY DEF Stored, RecordInv, TypeInv
  <1>1. AsksOfReading(f, r)
    BY DEF Portable, AsksOfReading
  <1>2. Matches(f, r) <=> AsksOfAll(f, r) /\ AsksOfErrors(f, r)
    <2>1. Matches(f, r) <=> AsksOfAll(f, r) /\ AsksOfReading(f, r) /\ AsksOfErrors(f, r)
      BY DEF Matches, AsksOfAll, AsksOfReading, AsksOfErrors
    <2> QED  BY <1>1, <2>1
  <1>3. CASE backend = "memory"
    <2>1. (/\ \A b \in f.has_errors : b = (c.errors # {})
           /\ \A l \in f.codes : \E e \in c.errors : e \in l) <=> AsksOfErrors(f, r)
      BY DEF AsksOfErrors
    <2> QED  BY <1>0, <1>2, <1>3, <2>1, CommonFilter DEF MemoryStatusFilter
  <1>4. CASE backend = "sqlite"
    <2>1. \A e : SqliteStatusFilter(f, r, e) <=>
                    /\ AsksOfAll(f, r)
                    /\ (\A b \in f.has_errors : b = (e # Null)) /\ SqlIn(f.codes, e)
      BY <1>0, <1>4, CommonFilter DEF SqliteStatusFilter
    <2> QED  BY <1>2, <1>4, <2>1, JoinFound
  <1>5. CASE backend = "clickhouse"
    <2>1. \A e : ClickHouseStatusFilter(f, r, e) <=>
                    /\ AsksOfAll(f, r)
                    /\ (\A b \in f.has_errors : b) /\ SqlIn(f.codes, e)
      BY <1>0, <1>5, CommonFilter DEF ClickHouseStatusFilter
    <2> QED  BY <1>2, <1>5, <2>1, JoinFound
  <1> QED  BY <1>0, <1>3, <1>4, <1>5 DEF Backends

\* What list and count must answer.
Asked(f) == {r \in Stored : Matches(f, r)}

\* The count of a filter: once per record, or once per copy of a reading in ClickHouse.
Answered(f) ==
    /\ {m[1] : m \in Distinct(Matching(f))} = Asked(f)
    /\ IF table = "readings" /\ backend = "clickhouse"
       THEN Count(f) = Cardinality(UNION {{r} \X (1 .. rows[r]) : r \in Asked(f)})
       ELSE Count(f) = Cardinality(Asked(f))

\* As many pairs <<r, 1>> as there are records.
LEMMA OncePerRecord ==
    ASSUME NEW S, IsFiniteSet(S), NEW D, D = {<<r, 1>> : r \in S}
    PROVE  {m[1] : m \in D} = S /\ Cardinality(D) = Cardinality(S)
  <1> DEFINE g == [r \in S |-> <<r, 1>>]
  <1>1. \A r \in S : <<r, 1>>[1] = r
    OBVIOUS
  <1>2. {m[1] : m \in D} = S
    <2>1. \A m \in D : m[1] \in S
      BY <1>1
    <2>2. \A r \in S : <<r, 1>> \in D /\ <<r, 1>>[1] = r
      BY <1>1
    <2> QED  BY <2>1, <2>2
  <1>3. g \in Bijection(S, D)
    <2>1. g \in [S -> D] /\ \A m \in D : \E r \in S : g[r] = m
      OBVIOUS
    <2>2. \A r, q \in S : g[r] = g[q] => r = q
      BY <1>1
    <2> HIDE DEF g
    <2> QED  BY <2>1, <2>2 DEF Bijection, Injection, Surjection, IsInjective
  <1>4. ExistsBijection(S, D)
    BY <1>3 DEF ExistsBijection
  <1> QED  BY <1>2, <1>4, FS_Bijection

LEMMA FilterAgrees ==
    ASSUME RecordInv, NEW f, Portable(f)
    PROVE  Answered(f)
  <1> DEFINE A == Asked(f)
             M == Matching(f)
  <1>0. /\ table \in {"readings", "statuses"} /\ backend \in {"memory", "sqlite", "clickhouse"}
        /\ backend \in Backends /\ Stored \subseteq Records
        /\ A \subseteq Stored /\ \A r \in Stored : rows[r] \in Nat /\ rows[r] > 0
    BY DEF RecordInv, TypeInv, Backends, Stored, Asked
  <1>1. IsFiniteSet(A)
    BY <1>0, FS_Subset
  <1>2. \A r \in Stored : r \in A <=> Matches(f, r)
    BY DEF Asked
  <1>3. CASE table = "readings" /\ backend # "clickhouse"
    <2>1. M = {<<r, 1>> : r \in A}
      <3>1. CASE backend = "memory"
        <4>1. {r \in Stored : MemoryReadingFilter(f, r)} = A
          BY <1>0, <1>2, <1>3, <3>1, ReadingFound
        <4> QED  BY <1>3, <3>1, <4>1 DEF Matching
      <3>2. CASE backend = "sqlite"
        <4>1. {r \in Stored : SqliteReadingFilter(f, r)} = A
          BY <1>0, <1>2, <1>3, <3>2, ReadingFound
        <4> QED  BY <1>3, <3>2, <4>1 DEF Matching
      <3> QED  BY <1>0, <1>3, <3>1, <3>2
    <2>2. Distinct(M) = M
      BY <1>3 DEF Distinct
    <2> HIDE DEF M, A
    <2>3. {m[1] : m \in M} = A /\ Cardinality(M) = Cardinality(A)
      BY <1>1, <2>1, OncePerRecord
    <2> QED  BY <1>3, <2>2, <2>3 DEF Answered, Count, M, A
  <1>4. CASE table = "readings" /\ backend = "clickhouse"
    <2>1. {r \in Stored : ClickHouseReadingFilter(f, r)} = A
      BY <1>0, <1>2, <1>4, ReadingFound
    <2>2. M = UNION {{<<r, n>> : n \in 1 .. rows[r]} : r \in A}
      BY <1>4, <2>1 DEF Matching
    <2>3. Distinct(M) = M
      BY <1>4 DEF Distinct
    <2> HIDE DEF M, A
    <2>4. M = UNION {{r} \X (1 .. rows[r]) : r \in A}
      <3>1. \A r \in A : {<<r, n>> : n \in 1 .. rows[r]} = {r} \X (1 .. rows[r])
        OBVIOUS
      <3> QED  BY <2>2, <3>1
    <2>5. {m[1] : m \in M} = A
      <3>1. \A m \in M : m[1] \in A
        BY <2>2
      <3>2. \A r \in A : <<r, 1>> \in M /\ <<r, 1>>[1] = r
        <4>1. \A r \in A : 1 \in 1 .. rows[r]
          <5>1. \A r \in A : rows[r] \in Nat /\ rows[r] > 0
            BY <1>0
          <5> QED  BY <5>1
        <4> QED  BY <2>2, <4>1
      <3> QED  BY <3>1, <3>2
    <2> QED  BY <1>4, <2>3, <2>4, <2>5 DEF Answered, Count, M, A
  <1>5. CASE table = "statuses"
    <2>1. {m[1] : m \in M} = A
      <3>1. CASE backend = "memory"
        <4>1. {r \in Stored : MemoryStatusFilter(f, r)} = A
          BY <1>0, <1>2, <1>5, <3>1, StatusFound
        <4>2. M = {<<r, Null>> : r \in A}
          BY <1>5, <3>1, <4>1 DEF Matching
        <4> HIDE DEF M, A
        <4>3. \A r \in A : <<r, Null>> \in M /\ <<r, Null>>[1] = r
          BY <4>2
        <4>4. \A m \in M : m[1] \in A
          BY <4>2
        <4> QED  BY <4>3, <4>4
      <3>2. CASE backend = "sqlite"
        <4>1. M = UNION {{<<r, e>> : e \in {e \in Joined(f, r, Null) : SqliteStatusFilter(f, r, e)}} :
                            r \in Stored}
          BY <1>5, <3>2 DEF Matching
        <4>2. \A r \in Stored : r \in A <=> \E e \in Joined(f, r, Null) : SqliteStatusFilter(f, r, e)
          BY <1>0, <1>2, <1>5, <3>2, StatusFound
        <4> HIDE DEF M, A
        <4>3. ASSUME NEW m \in M PROVE m[1] \in A
          <5>1. PICK r \in Stored : m \in {<<r, e>> : e \in {e \in Joined(f, r, Null) : SqliteStatusFilter(f, r, e)}}
            BY <4>1
          <5>2. PICK e \in Joined(f, r, Null) : SqliteStatusFilter(f, r, e) /\ m = <<r, e>>
            BY <5>1
          <5> QED  BY <4>2, <5>2
        <4>4. ASSUME NEW r \in A PROVE \E m \in M : m[1] = r
          <5>1. r \in Stored /\ \E e \in Joined(f, r, Null) : SqliteStatusFilter(f, r, e)
            BY <1>0, <4>2
          <5>2. PICK e \in Joined(f, r, Null) : SqliteStatusFilter(f, r, e)
            BY <5>1
          <5>3. <<r, e>> \in M /\ <<r, e>>[1] = r
            BY <4>1, <5>1, <5>2
          <5> QED  BY <5>3
        <4> QED  BY <4>3, <4>4
      <3>3. CASE backend = "clickhouse"
        <4>1. M = UNION {{<<r, e>> : e \in {e \in Joined(f, r, 0) : ClickHouseStatusFilter(f, r, e)}} :
                            r \in Stored}
          BY <1>5, <3>3 DEF Matching
        <4>2. \A r \in Stored : r \in A <=> \E e \in Joined(f, r, 0) : ClickHouseStatusFilter(f, r, e)
          BY <1>0, <1>2, <1>5, <3>3, StatusFound
        <4> HIDE DEF M, A
        <4>3. ASSUME NEW m \in M PROVE m[1] \in A
          <5>1. PICK r \in Stored : m \in {<<r, e>> : e \in {e \in Joined(f, r, 0) : ClickHouseStatusFilter(f, r, e)}}
            BY <4>1
          <5>2. PICK e \in Joined(f, r, 0) : ClickHouseStatusFilter(f, r, e) /\ m = <<r, e>>
            BY <5>1
          <5> QED  BY <4>2, <5>2
        <4>4. ASSUME NEW r \in A PROVE \E m \in M : m[1] = r
          <5>1. r \in Stored /\ \E e \in Joined(f, r, 0) : ClickHouseStatusFilter(f, r, e)
            BY <1>0, <4>2
          <5>2. PICK e \in Joined(f, r, 0) : ClickHouseStatusFilter(f, r, e)
            BY <5>1
          <5>3. <<r, e>> \in M /\ <<r, e>>[1] = r
            BY <4>1, <5>1, <5>2
          <5> QED  BY <5>3
        <4> QED  BY <4>3, <4>4
      <3> QED  BY <1>0, <3>1, <3>2, <3>3
    <2> DEFINE D == Distinct(M)
    <2>2. D = {<<r, 1>> : r \in A}
      BY <1>5, <2>1 DEF Distinct
    <2>3. Count(f) = Cardinality(D)
      BY DEF Count
    <2> HIDE DEF D, M, A
    <2>4. {m[1] : m \in D} = A /\ Cardinality(D) = Cardinality(A)
      BY <1>1, <2>2, OncePerRecord
    <2> QED  BY <1>5, <2>3, <2>4 DEF Answered, D, M, A
  <1> QED  BY <1>0, <1>3, <1>4, <1>5

\* Whatever is stored, every back end lists and counts, for any filter that means the same
\* to all of them, exactly the readings and statuses that the filter asks for.
THEOREM RecordFiltersAgree ==
    ASSUME NEW CONSTANT f
    PROVE  Spec => [](Portable(f) => Answered(f))
  <1>1. RecordInv => (Portable(f) => Answered(f))
    BY FilterAgrees
  <1> QED  BY <1>1, RecordsInvariant, PTL

\* The filters of the model-checked property are among them.
LEMMA FieldsOfFilters ==
    /\ NoFilter.ids = {} /\ NoFilter.devices = {} /\ NoFilter.sensors = {}
    /\ NoFilter.dispatchers = {} /\ NoFilter.metrics = {} /\ NoFilter.locations = {}
    /\ NoFilter.after = {} /\ NoFilter.before = {} /\ NoFilter.level = {}
    /\ NoFilter.has_errors = {} /\ NoFilter.codes = {}
    /\ DOMAIN NoFilter = {"ids", "devices", "sensors", "dispatchers", "metrics", "locations",
                          "after", "before", "level", "has_errors", "codes"}
  BY DEF NoFilter, NoReadingFilter, NoStatusFilter

\* A filter that says nothing but what is given.
LEMMA PortableFields ==
    ASSUME NEW f, f.sensors = {}, f.metrics = {}, f.locations = {}, f.has_errors = {}, f.codes = {},
           {} \notin f.ids \cup f.devices \cup f.dispatchers,
           \A a \in f.after : \E n \in Int : a = n * TicksPerSecond,
           \A b \in f.before : \E n \in Int : b = n * TicksPerSecond + TicksPerSecond - 1,
           \A v \in f.level : v[1] \in Int /\ v[2] \in Int
    PROVE  Portable(f)
  <1>1. \A n \in Int : n * TicksPerSecond \in Int /\ n * TicksPerSecond + TicksPerSecond - 1 \in Int
    OBVIOUS
  <1>2. \A b \in f.after \cup f.before : b \in Int
    BY <1>1
  <1> QED  BY <1>2 DEF Portable

LEMMA FiltersPortable ==
    ASSUME RecordInv, NEW f \in Filters
    PROVE  Portable(f)
  <1> DEFINE bounds == {{n * TicksPerSecond} : n \in 1 .. 3}
             readings == {[NoFilter EXCEPT !.sensors = {{1}}, !.metrics = {{"soil"}}],
                          [NoFilter EXCEPT !.locations = {{2}}]}
             errors == {[NoFilter EXCEPT !.codes = {c}] : c \in {{1}, {1, 2}}}
             null == {[NoFilter EXCEPT !.has_errors = {b}] : b \in BOOLEAN}
                     \cup {[NoFilter EXCEPT !.codes = {{0, 2}}, !.has_errors = {TRUE}]}
  <1>1. \/ f = NoFilter
        \/ \E a \in bounds : f = [NoFilter EXCEPT !.after = a]
        \/ \E m \in UNION bounds : f = [NoFilter EXCEPT !.before = {m + TicksPerSecond - 1}]
        \/ \E v \in {<<0, 10>>, <<10, 20>>} : f = [NoFilter EXCEPT !.level = {v}, !.devices = {{1}}]
        \/ f = [NoFilter EXCEPT !.ids = {{1, 3}}, !.dispatchers = {{1}}]
        \/ table = "readings" /\ f \in readings
        \/ /\ table # "readings" /\ f \in errors
           /\ backend = "clickhouse" => \A r \in Stored : errs[r] > 0
        \/ table # "readings" /\ backend # "clickhouse" /\ f \in null
    BY Zenon DEF Filters
  <1>2. CASE f = NoFilter
    BY <1>2, FieldsOfFilters, PortableFields
  <1>3. CASE \E a \in bounds : f = [NoFilter EXCEPT !.after = a]
    <2>1. PICK n \in 1 .. 3 : f = [NoFilter EXCEPT !.after = {n * TicksPerSecond}]
      BY <1>3
    <2>2. /\ f.ids = {} /\ f.devices = {} /\ f.sensors = {} /\ f.dispatchers = {} /\ f.metrics = {}
          /\ f.locations = {} /\ f.before = {} /\ f.level = {} /\ f.has_errors = {} /\ f.codes = {}
          /\ f.after = {n * TicksPerSecond}
      BY <2>1, FieldsOfFilters
    <2>3. n \in Int /\ \A a \in f.after : a = n * TicksPerSecond
      BY <2>2
    <2> QED  BY <2>2, <2>3, PortableFields
  <1>4. CASE \E m \in UNION bounds : f = [NoFilter EXCEPT !.before = {m + TicksPerSecond - 1}]
    <2>1. PICK n \in 1 .. 3 :
              f = [NoFilter EXCEPT !.before = {n * TicksPerSecond + TicksPerSecond - 1}]
      BY <1>4
    <2>2. /\ f.ids = {} /\ f.devices = {} /\ f.sensors = {} /\ f.dispatchers = {} /\ f.metrics = {}
          /\ f.locations = {} /\ f.after = {} /\ f.level = {} /\ f.has_errors = {} /\ f.codes = {}
          /\ f.before = {n * TicksPerSecond + TicksPerSecond - 1}
      BY <2>1, FieldsOfFilters
    <2>3. n \in Int /\ \A b \in f.before : b = n * TicksPerSecond + TicksPerSecond - 1
      BY <2>2
    <2> QED  BY <2>2, <2>3, PortableFields
  <1>5. CASE \E v \in {<<0, 10>>, <<10, 20>>} :
                f = [NoFilter EXCEPT !.level = {v}, !.devices = {{1}}]
    <2>1. PICK v \in {<<0, 10>>, <<10, 20>>} :
              f = [NoFilter EXCEPT !.level = {v}, !.devices = {{1}}]
      BY <1>5
    <2>2. /\ f.ids = {} /\ f.devices = {{1}} /\ f.sensors = {} /\ f.dispatchers = {} /\ f.metrics = {}
          /\ f.locations = {} /\ f.after = {} /\ f.before = {} /\ f.has_errors = {} /\ f.codes = {}
          /\ f.level = {v}
      BY <2>1, FieldsOfFilters
    <2>3. \A w \in f.level : w[1] \in Int /\ w[2] \in Int
      BY <2>2
    <2>4. {} \notin f.ids \cup f.devices \cup f.dispatchers
      BY <2>2
    <2> QED  BY <2>2, <2>3, <2>4, PortableFields
  <1>6. CASE f = [NoFilter EXCEPT !.ids = {{1, 3}}, !.dispatchers = {{1}}]
    <2>1. /\ f.ids = {{1, 3}} /\ f.devices = {} /\ f.sensors = {} /\ f.dispatchers = {{1}}
          /\ f.metrics = {} /\ f.locations = {} /\ f.after = {} /\ f.before = {} /\ f.level = {}
          /\ f.has_errors = {} /\ f.codes = {}
      BY <1>6, FieldsOfFilters
    <2>2. {} \notin f.ids \cup f.devices \cup f.dispatchers
      BY <2>1
    <2> QED  BY <2>1, <2>2, PortableFields
  <1>7. CASE table = "readings" /\ f \in readings
    <2>1. CASE f = [NoFilter EXCEPT !.sensors = {{1}}, !.metrics = {{"soil"}}]
      <3>1. /\ f.ids = {} /\ f.devices = {} /\ f.dispatchers = {} /\ f.after = {} /\ f.before = {}
            /\ f.level = {} /\ f.has_errors = {} /\ f.codes = {}
            /\ f.sensors = {{1}} /\ f.metrics = {{"soil"}} /\ f.locations = {}
        BY <2>1, FieldsOfFilters
      <3>2. {} \notin f.sensors \cup f.metrics \cup f.locations
        BY <3>1
      <3> QED  BY <1>7, <3>1, <3>2 DEF Portable
    <2>2. CASE f = [NoFilter EXCEPT !.locations = {{2}}]
      <3>1. /\ f.ids = {} /\ f.devices = {} /\ f.dispatchers = {} /\ f.after = {} /\ f.before = {}
            /\ f.level = {} /\ f.has_errors = {} /\ f.codes = {}
            /\ f.sensors = {} /\ f.metrics = {} /\ f.locations = {{2}}
        BY <2>2, FieldsOfFilters
      <3>2. {} \notin f.sensors \cup f.metrics \cup f.locations
        BY <3>1
      <3> QED  BY <1>7, <3>1, <3>2 DEF Portable
    <2> QED  BY <1>7, <2>1, <2>2
  <1>8. CASE /\ table # "readings" /\ f \in errors
             /\ backend = "clickhouse" => \A r \in Stored : errs[r] > 0
    <2>1. PICK c \in {{1}, {1, 2}} : f = [NoFilter EXCEPT !.codes = {c}]
      BY <1>8
    <2>2. /\ f.ids = {} /\ f.devices = {} /\ f.sensors = {} /\ f.dispatchers = {} /\ f.metrics = {}
          /\ f.locations = {} /\ f.after = {} /\ f.before = {} /\ f.level = {} /\ f.has_errors = {}
          /\ f.codes = {c}
      BY <2>1, FieldsOfFilters
    <2>3. c # {} /\ c \subseteq Nat /\ 0 \notin c
      <3>1. c = {1} \/ c = {1, 2}
        BY <2>1
      <3> QED  BY <3>1
    <2> QED  BY <1>8, <2>2, <2>3 DEF Portable
  <1>9. CASE table # "readings" /\ backend # "clickhouse" /\ f \in null
    <2>1. CASE f \in {[NoFilter EXCEPT !.has_errors = {b}] : b \in BOOLEAN}
      <3>1. PICK b \in BOOLEAN : f = [NoFilter EXCEPT !.has_errors = {b}]
        BY <2>1
      <3>2. /\ f.ids = {} /\ f.devices = {} /\ f.sensors = {} /\ f.dispatchers = {} /\ f.metrics = {}
            /\ f.locations = {} /\ f.after = {} /\ f.before = {} /\ f.level = {}
            /\ f.has_errors = {b} /\ f.codes = {}
        BY <3>1, FieldsOfFilters
      <3>3. f.has_errors \subseteq BOOLEAN
        BY <3>2
      <3> QED  BY <1>9, <3>2, <3>3 DEF Portable
    <2>2. CASE f = [NoFilter EXCEPT !.codes = {{0, 2}}, !.has_errors = {TRUE}]
      <3>1. /\ f.ids = {} /\ f.devices = {} /\ f.sensors = {} /\ f.dispatchers = {} /\ f.metrics = {}
            /\ f.locations = {} /\ f.after = {} /\ f.before = {} /\ f.level = {}
            /\ f.has_errors = {TRUE} /\ f.codes = {{0, 2}}
        BY <2>2, FieldsOfFilters
      <3>2. f.has_errors \subseteq BOOLEAN
        BY <3>1
      <3> DEFINE c == {0, 2}
      <3>3. c \subseteq Nat /\ c # {} /\ f.codes = {c}
        BY <3>1
      <3> HIDE DEF c
      <3>4. \A l \in f.codes : f.codes = {l} /\ l \subseteq Nat /\ l # {}
        BY <3>3
      <3> QED  BY <1>9, <3>1, <3>2, <3>4 DEF Portable
    <2> QED  BY <1>9, <2>1, <2>2
  <1> QED  BY <1>1, <1>2, <1>3, <1>4, <1>5, <1>6, <1>7, <1>8, <1>9

\* The module's RecordListAgrees: for the filters it goes through, on readings and on
\* statuses, list and count of the three back ends answer alike and as asked.
THEOREM RecordListsAgree == Spec => []RecordListAgrees
  <1>1. RecordInv => RecordListAgrees
    <2>1. RecordInv => \A f \in Filters : Answered(f)
      BY FiltersPortable, FilterAgrees
    <2> QED  BY <2>1 DEF RecordListAgrees, Answered, Asked
  <1> QED  BY <1>1, RecordsInvariant, PTL


=============================================================================

--------------------------- MODULE RecordRegistry ---------------------------
(***************************************************************************)
(* The registries of readings and of device statuses                       *)
(* (ersha-prime/src/registry), for each of the three back ends: the batch  *)
(* upload handlers of several connections store batches, which may be      *)
(* redelivered and overlap, while readers get, list and count.  A status   *)
(* has errors and statuses of its sensors, which the SQL back ends keep in *)
(* tables of their own.                                                    *)
(*                                                                         *)
(* A record is its id; what it says depends on the id.  A table is modelled *)
(* by how many times the rows of each record are in it.                    *)
(***************************************************************************)
EXTENDS Query, FiniteSets, FiniteSetsExt, TLC

CONSTANTS Records,       \* ids of readings or statuses, numbered
          Content,       \* what each record says
          Batches,       \* the batches, sequences of records, that dispatchers upload
          Handlers,      \* connections of dispatchers
          Readers,       \* tasks that read
          MaxBatches,    \* bound on the batches uploaded in a behaviour
          MaxReads       \* bound on the requests of readers

ASSUME RecordAssumption ==
    /\ IsFiniteSet(Records) /\ Records \subseteq Nat
    /\ \A r \in Records : Content[r].at \in Int
    /\ Batches \subseteq Seq(Records) \ {<<>>}     \* on_batch_upload stores no empty batch
    /\ Handlers \cap Readers = {}
    /\ MaxBatches \in Nat /\ MaxReads \in Nat

\* The confidence of a reading or the battery of a status, and the codes of its errors.
ASSUME ContentAssumption ==
    \A r \in Records : Content[r].level \in Int /\ Content[r].errors \subseteq Nat

VARIABLES table,     \* "readings" or "statuses"
          backend,   \* the back end of this behaviour
          rows,      \* copies of the row of each record
          errs,      \* copies of its rows in device_status_errors
          parts,     \* copies of its rows in device_status_sensor_statuses
          batches,   \* batches uploaded so far
          reads,     \* requests of readers so far
          op,        \* per task: what it is doing
          acked,     \* history: records of batches whose batch_store returned Ok
          answer     \* per reader: its last request and what it got

vars == <<table, backend, rows, errs, parts, batches, reads, op, acked, answer>>

Tasks == Handlers \cup Readers

Idle == [kind |-> "idle", pc |-> "idle"]

\* about: the id, device or page asked for; known: what was stored for sure when the
\* request began, which only properties look at.
Answer(kind, about, known, got) == [kind |-> kind, about |-> about, known |-> known, got |-> got]

NoAnswer == Answer("none", 0, {}, <<>>)

Init ==
    /\ table \in {"readings", "statuses"}
    /\ backend \in Backends
    /\ rows = [r \in Records |-> 0]
    /\ errs = [r \in Records |-> 0]
    /\ parts = [r \in Records |-> 0]
    /\ batches = 0
    /\ reads = 0
    /\ op = [t \in Tasks |-> Idle]
    /\ acked = {}
    /\ answer = [t \in Readers |-> NoAnswer]

Stored == {r \in Records : rows[r] > 0}

-----------------------------------------------------------------------------
(* Storing a batch. *)

\* on_batch_upload calls batch_store for the records of known devices.
BatchStore(h) ==
    /\ op[h] = Idle
    /\ batches < MaxBatches
    /\ batches' = batches + 1
    /\ \E b \in Batches : op' = [op EXCEPT ![h] = [kind |-> "store", pc |-> "row", batch |-> b, next |-> 1]]
    /\ UNCHANGED <<table, backend, rows, errs, parts, reads, acked, answer>>

Storing(h, pc) == op[h].kind = "store" /\ op[h].pc = pc

\* The call returns; an error is only logged.
Returns(h, ok) ==
    /\ op' = [op EXCEPT ![h] = Idle]
    /\ acked' = IF ok THEN acked \cup Range(op[h].batch) ELSE acked

\* Mutant: the loop ends before the last record.
NextRecord_TooShort(h) ==
    IF op[h].next >= Len(op[h].batch) - 1 THEN Returns(h, TRUE)
    ELSE /\ op' = [op EXCEPT ![h].next = @ + 1, ![h].pc = "row"]
         /\ UNCHANGED acked

\* On to the next record of the batch.
NextRecord(h) ==
    IF op[h].next = Len(op[h].batch) THEN Returns(h, TRUE)
    ELSE /\ op' = [op EXCEPT ![h].next = @ + 1, ![h].pc = "row"]
         /\ UNCHANGED acked

Goto(h, pc) == op' = [op EXCEPT ![h].pc = pc] /\ UNCHANGED acked

Current(h) == op[h].batch[op[h].next]

\* Nothing of this step has reached the database.
StoreFails(h) ==
    /\ op[h].kind = "store"
    /\ backend # "memory"
    /\ Returns(h, FALSE)
    /\ UNCHANGED <<table, backend, rows, errs, parts, batches, reads, answer>>

\* insert into the HashMap, one record under each write lock.
MemoryStore(h) ==
    /\ Storing(h, "row") /\ backend = "memory"
    /\ LET r == Current(h)
       IN /\ rows' = [rows EXCEPT ![r] = 1]
          /\ errs' = [errs EXCEPT ![r] = 1]
          /\ parts' = [parts EXCEPT ![r] = 1]
    /\ NextRecord(h)
    /\ UNCHANGED <<table, backend, batches, reads, answer>>

\* sqlite/reading.rs: INSERT OR REPLACE of all readings in one transaction.
SqliteStoreReadings(h) ==
    /\ Storing(h, "row") /\ backend = "sqlite" /\ table = "readings"
    /\ rows' = [r \in Records |-> IF r \in Range(op[h].batch) THEN 1 ELSE rows[r]]
    /\ Returns(h, TRUE)
    /\ UNCHANGED <<table, backend, errs, parts, batches, reads, answer>>

\* Mutant: the errors of an earlier delivery are not deleted.
SqliteStoreStatus_NoDelete(h) ==
    /\ Storing(h, "row") /\ backend = "sqlite" /\ table = "statuses"
    /\ LET r == Current(h)
       IN /\ rows' = [rows EXCEPT ![r] = 1]
          /\ errs' = [errs EXCEPT ![r] = @ + 1]
          /\ parts' = [parts EXCEPT ![r] = 1]
    /\ NextRecord(h)
    /\ UNCHANGED <<table, backend, batches, reads, answer>>

\* sqlite/device_status.rs: a transaction for each status, which replaces the row,
\* deletes what there is of errors and sensor statuses and inserts them.
SqliteStoreStatus(h) ==
    /\ Storing(h, "row") /\ backend = "sqlite" /\ table = "statuses"
    /\ LET r == Current(h)
       IN /\ rows' = [rows EXCEPT ![r] = 1]
          /\ errs' = [errs EXCEPT ![r] = 1]
          /\ parts' = [parts EXCEPT ![r] = 1]
    /\ NextRecord(h)
    /\ UNCHANGED <<table, backend, batches, reads, answer>>

\* clickhouse/reading.rs: one insert into a MergeTree, which keeps every copy.  The
\* answer to an insert may be lost after the rows are there.
ClickHouseStoreReadings(h) ==
    /\ Storing(h, "row") /\ backend = "clickhouse" /\ table = "readings"
    /\ rows' = [r \in Records |-> IF r \in Range(op[h].batch) THEN rows[r] + 1 ELSE rows[r]]
    /\ (Returns(h, TRUE) \/ Returns(h, FALSE))
    /\ UNCHANGED <<table, backend, errs, parts, batches, reads, answer>>

\* clickhouse/device_status.rs, store: the row, then store_errors and then
\* store_sensor_statuses.
ClickHouseStoreRow(h) ==
    /\ Storing(h, "row") /\ backend = "clickhouse" /\ table = "statuses"
    /\ rows' = [rows EXCEPT ![Current(h)] = @ + 1]
    /\ (Goto(h, "errors") \/ Returns(h, FALSE))
    /\ UNCHANGED <<table, backend, errs, parts, batches, reads, answer>>

\* Mutant: store_errors never ends the insert.
ClickHouseStoreErrors_NoEnd(h) ==
    /\ Storing(h, "errors")
    /\ Goto(h, "sensors")
    /\ UNCHANGED <<table, backend, rows, errs, parts, batches, reads, answer>>

\* Nothing is sent when there are no errors.
ClickHouseStoreErrors(h) ==
    /\ Storing(h, "errors")
    /\ errs' = [errs EXCEPT ![Current(h)] = @ + 1]
    /\ \/ Goto(h, "sensors")
       \/ Content[Current(h)].errors # {} /\ Returns(h, FALSE)
    /\ UNCHANGED <<table, backend, rows, parts, batches, reads, answer>>

ClickHouseStoreSensors(h) ==
    /\ Storing(h, "sensors")
    /\ parts' = [parts EXCEPT ![Current(h)] = @ + 1]
    /\ (NextRecord(h) \/ Returns(h, FALSE))
    /\ UNCHANGED <<table, backend, rows, errs, batches, reads, answer>>

-----------------------------------------------------------------------------
(* Filters.  A filter of readings has no has_errors and codes, one of statuses *)
(* no sensors, metrics and locations.                                          *)

NoReadingFilter ==
    [ids |-> {}, devices |-> {}, sensors |-> {}, dispatchers |-> {}, metrics |-> {},
     locations |-> {}, after |-> {}, before |-> {}, level |-> {}]

NoStatusFilter ==
    [ids |-> {}, devices |-> {}, dispatchers |-> {}, after |-> {}, before |-> {},
     level |-> {}, has_errors |-> {}, codes |-> {}]

NoFilter == [name \in DOMAIN NoReadingFilter \cup DOMAIN NoStatusFilter |-> {}]

\* filter_readings of memory/reading.rs.
MemoryReadingFilter(f, r) ==
    LET c == Content[r]
    IN /\ Admits(f.ids, r) /\ Admits(f.devices, c.device) /\ Admits(f.sensors, c.sensor)
       /\ Admits(f.dispatchers, c.dispatcher) /\ Admits(f.metrics, c.metric)
       /\ Admits(f.locations, c.location)
       /\ InRange(f.level, c.level)
       /\ InWindow(f.after, f.before, c.at)

\* filter_readings of sqlite/reading.rs.
SqliteReadingFilter(f, r) ==
    LET c == Content[r]
    IN /\ SqlIn(f.ids, r) /\ SqlIn(f.devices, c.device) /\ SqlIn(f.sensors, c.sensor)
       /\ SqlIn(f.dispatchers, c.dispatcher) /\ SqlIn(f.metrics, c.metric)
       /\ SqlIn(f.locations, c.location)
       /\ SqlInWindow(f.after, f.before, c.at)
       /\ InRange(f.level, c.level)

\* build_where_clause of clickhouse/reading.rs.
ClickHouseReadingFilter(f, r) ==
    LET c == Content[r]
    IN /\ SqlIn(f.ids, r) /\ SqlIn(f.devices, c.device) /\ SqlIn(f.sensors, c.sensor)
       /\ SqlIn(f.dispatchers, c.dispatcher) /\ SqlIn(f.metrics, c.metric)
       /\ SqlIn(f.locations, c.location)
       /\ SqlInWindow(f.after, f.before, c.at)
       /\ InRange(f.level, c.level)

\* filter_statuses of memory/device_status.rs.
MemoryStatusFilter(f, r) ==
    LET c == Content[r]
    IN /\ Admits(f.ids, r) /\ Admits(f.devices, c.device) /\ Admits(f.dispatchers, c.dispatcher)
       /\ InRange(f.level, c.level)
       /\ \A b \in f.has_errors : b = (c.errors # {})
       /\ \A l \in f.codes : \E e \in c.errors : e \in l
       /\ InWindow(f.after, f.before, c.at)

Null == -1

\* The error codes with which a status appears in the LEFT JOIN: unmatched stands in for
\* a status without errors.
Joined(f, r, unmatched) ==
    IF f.has_errors = {} /\ f.codes \subseteq {{}} THEN {Null}
    ELSE IF Content[r].errors = {} \/ errs[r] = 0 THEN {unmatched}
    ELSE Content[r].errors

\* filter_statuses of sqlite/device_status.rs, for a row of the join.
SqliteStatusFilter(f, r, e) ==
    LET c == Content[r]
    IN /\ SqlIn(f.ids, r) /\ SqlIn(f.devices, c.device) /\ SqlIn(f.dispatchers, c.dispatcher)
       /\ SqlInWindow(f.after, f.before, c.at)
       /\ InRange(f.level, c.level)
       /\ \A b \in f.has_errors : b = (e # Null)
       /\ SqlIn(f.codes, e)

\* build_clauses of clickhouse/device_status.rs.  An unmatched row of a ClickHouse join
\* has default values and no NULL: error code 0, and a status_id that is not NULL.
ClickHouseStatusFilter(f, r, e) ==
    LET c == Content[r]
    IN /\ SqlIn(f.ids, r) /\ SqlIn(f.devices, c.device) /\ SqlIn(f.dispatchers, c.dispatcher)
       /\ SqlInWindow(f.after, f.before, c.at)
       /\ InRange(f.level, c.level)
       /\ \A b \in f.has_errors : b
       /\ SqlIn(f.codes, e)

\* The rows that match, by record and copy or error code; SELECT DISTINCT and
\* COUNT(DISTINCT id) of statuses reduce them to their records.
Matching(f) ==
    CASE table = "readings" /\ backend = "memory" ->
             {<<r, 1>> : r \in {r \in Stored : MemoryReadingFilter(f, r)}}
      [] table = "readings" /\ backend = "sqlite" ->
             {<<r, 1>> : r \in {r \in Stored : SqliteReadingFilter(f, r)}}
      [] table = "readings" /\ backend = "clickhouse" ->
             UNION {{<<r, n>> : n \in 1 .. rows[r]} :
                       r \in {r \in Stored : ClickHouseReadingFilter(f, r)}}
      [] table = "statuses" /\ backend = "memory" ->
             {<<r, Null>> : r \in {r \in Stored : MemoryStatusFilter(f, r)}}
      [] table = "statuses" /\ backend = "sqlite" ->
             UNION {{<<r, e>> : e \in {e \in Joined(f, r, Null) : SqliteStatusFilter(f, r, e)}} :
                       r \in Stored}
      [] table = "statuses" /\ backend = "clickhouse" ->
             UNION {{<<r, e>> : e \in {e \in Joined(f, r, 0) : ClickHouseStatusFilter(f, r, e)}} :
                       r \in Stored}

Distinct(M) == IF table = "statuses" THEN {<<r, 1>> : r \in {m[1] : m \in M}} ELSE M

\* Mutant: COUNT(*) over the join.
Count_OfTheJoin(f) == Cardinality(Matching(f))

Count(f) == Cardinality(Distinct(Matching(f)))

-----------------------------------------------------------------------------
(* Reading. *)

\* ORDER BY timestamp, confidence or battery_percent, device_id.
SortKey(by, r) ==
    CASE by = "timestamp" -> Kept(backend, Content[r].at)
      [] by = "level"     -> Content[r].level
      [] by = "device_id" -> Content[r].device

\* The orders in which list may find the matching records.
Orders(by, order) ==
    LET key == [m \in Distinct(Matching(NoFilter)) |-> SortKey(by, m[1])]
    IN {[i \in DOMAIN s |-> s[i][1]] : s \in Sorted(key, order)}

\* The page that list answers with, by offset or cursor with a limit of 2.
Page(s, page) ==
    CASE page.mode = "offset" -> OffsetPage(s, page.at, 2)
      [] page.mode = "cursor" /\ backend = "memory" -> CursorPage(s, {page.at}, 2)
      [] page.mode = "cursor" /\ backend # "memory" -> SqlCursorPage(s, 2)

\* Mutant: ORDER BY timestamp without DESC.
Latest_Oldest(d) ==
    {r \in Stored : /\ Content[r].device = d
                    /\ \A q \in Stored : Content[q].device = d
                           => SortKey("timestamp", q) >= SortKey("timestamp", r)}

\* get_latest: the statuses it may return.
Latest(d) ==
    {r \in Stored : /\ Content[r].device = d
                    /\ \A q \in Stored : Content[q].device = d
                           => SortKey("timestamp", q) <= SortKey("timestamp", r)}

\* A request of a reader: its first query has found page.  Only the statuses of the SQL
\* back ends need further queries.
Request(t, kind, about, page) ==
    /\ op[t] = Idle
    /\ reads < MaxReads
    /\ reads' = reads + 1
    /\ LET got(r) == [id |-> r, errs |-> errs[r], parts |-> parts[r]]
       IN IF page = <<>> \/ table = "readings" \/ backend = "memory"
          THEN /\ answer' = [answer EXCEPT ![t] =
                                Answer(kind, about, acked, [i \in DOMAIN page |-> got(page[i])])]
               /\ UNCHANGED op
          ELSE /\ answer' = [answer EXCEPT ![t] = NoAnswer]
               /\ op' = [op EXCEPT ![t] = [kind |-> kind, pc |-> "errors", about |-> about,
                                           page |-> page, got |-> <<>>, errs |-> 0,
                                           known |-> acked]]
    /\ UNCHANGED <<table, backend, rows, errs, parts, batches, acked>>

Get(t) == \E r \in Records : Request(t, "get", r, IF r \in Stored THEN <<r>> ELSE <<>>)

GetLatest(t) ==
    /\ table = "statuses"
    /\ \E d \in {Content[r].device : r \in Records} :
           IF Latest(d) = {} THEN Request(t, "get_latest", d, <<>>)
           ELSE \E r \in Latest(d) : Request(t, "get_latest", d, <<r>>)

List(t) ==
    /\ op[t] = Idle /\ reads < MaxReads
    /\ \E by \in {"timestamp", "level", "device_id"}, order \in {"asc", "desc"} :
           \E s \in Orders(by, order),
              page \in [mode : {"offset"}, at : {0, 1}] \cup [mode : {"cursor"}, at : {Min(Records)}] :
               Request(t, "list", page, Page(s, page))

Reading(t, pc) == op[t].kind \in {"get", "get_latest", "list"} /\ op[t].pc = pc

\* fetch_errors for the next status of the page.
FetchErrors(t) ==
    /\ Reading(t, "errors")
    /\ op' = [op EXCEPT ![t].pc = "sensors", ![t].errs = errs[Head(op[t].page)]]
    /\ UNCHANGED <<table, backend, rows, errs, parts, batches, reads, acked, answer>>

\* fetch_sensor_statuses, and the status is complete.
FetchSensorStatuses(t) ==
    /\ Reading(t, "sensors")
    /\ LET o == op[t]
           got == Append(o.got, [id |-> Head(o.page), errs |-> o.errs, parts |-> parts[Head(o.page)]])
       IN IF Len(o.page) = 1
          THEN /\ op' = [op EXCEPT ![t] = Idle]
               /\ answer' = [answer EXCEPT ![t] = Answer(o.kind, o.about, o.known, got)]
          ELSE /\ op' = [op EXCEPT ![t] = [o EXCEPT !.pc = "errors", !.page = Tail(@), !.got = got]]
               /\ UNCHANGED answer
    /\ UNCHANGED <<table, backend, rows, errs, parts, batches, reads, acked>>

-----------------------------------------------------------------------------

Store(h) ==
    \/ BatchStore(h) \/ StoreFails(h) \/ MemoryStore(h)
    \/ SqliteStoreReadings(h) \/ SqliteStoreStatus(h)
    \/ ClickHouseStoreReadings(h)
    \/ ClickHouseStoreRow(h) \/ ClickHouseStoreErrors(h) \/ ClickHouseStoreSensors(h)

Read(t) == Get(t) \/ GetLatest(t) \/ List(t) \/ FetchErrors(t) \/ FetchSensorStatuses(t)

Next == (\E h \in Handlers : Store(h)) \/ (\E t \in Readers : Read(t))

Spec == Init /\ [][Next]_vars

-----------------------------------------------------------------------------
(* Properties. *)

\* When batch_store has returned Ok every record of the batch is there, with its errors
\* and sensor statuses, and stays there whatever is stored later, in every back end.
AckedStored ==
    \A r \in acked : rows[r] >= 1 /\ (table = "statuses" => errs[r] >= 1 /\ parts[r] >= 1)

\* In memory and in SQLite a record that is delivered again, by this or another
\* connection and after a failure halfway, is there once: one row, and for a status
\* one set of errors and sensor statuses, never some of it without the rest.
StoredOnce ==
    backend # "clickhouse" =>
        \A r \in Records : /\ rows[r] <= 1
                           /\ table = "statuses" => errs[r] = rows[r] /\ parts[r] = rows[r]

\* A status that a reader gets while batches are being stored has its errors and sensor
\* statuses: exactly once from memory and SQLite, although SQLite reads them after the
\* row; from ClickHouse at least once, if the status was acknowledged before.
ReadsWhole ==
    table = "statuses" =>
        \A t \in Readers : \A i \in DOMAIN answer[t].got :
            LET a == answer[t]
            IN IF backend = "clickhouse"
               THEN a.got[i].id \in a.known => a.got[i].errs >= 1 /\ a.got[i].parts >= 1
               ELSE a.got[i].errs = 1 /\ a.got[i].parts = 1

\* A reader misses nothing that was acknowledged before it asked: get finds the record,
\* get_latest returns no status older (to the second, in SQL) than one of the device, and
\* the first page of a list is not shorter than it could be.
ReadsCurrent ==
    \A t \in Readers :
        LET a == answer[t]
        IN /\ (a.kind = "get" /\ a.about \in a.known) => a.got # <<>>
           /\ a.kind = "get_latest" =>
                  \A r \in a.known : Content[r].device = a.about =>
                      /\ a.got # <<>>
                      /\ SortKey("timestamp", r) <= SortKey("timestamp", a.got[1].id)
           /\ (a.kind = "list" /\ a.about = [mode |-> "offset", at |-> 0]) =>
                  Len(a.got) >= Min({2, Cardinality(a.known)})

\* What a filter asks for, whatever the back end.
Matches(f, r) ==
    LET c == Content[r]
    IN /\ \A l \in f.ids : r \in l
       /\ \A l \in f.devices : c.device \in l
       /\ \A l \in f.sensors : c.sensor \in l
       /\ \A l \in f.dispatchers : c.dispatcher \in l
       /\ \A l \in f.metrics : c.metric \in l
       /\ \A l \in f.locations : c.location \in l
       /\ \A a \in f.after : a <= c.at
       /\ \A b \in f.before : c.at <= b
       /\ \A v \in f.level : c.level \in v[1] .. v[2]
       /\ \A b \in f.has_errors : b = (c.errors # {})
       /\ \A l \in f.codes : c.errors \cap l # {}

\* Filters on which the back ends mean the same.
Filters ==
    LET bounds == {{n * TicksPerSecond} : n \in 1 .. 3}
        whole == {NoFilter}
            \cup {[NoFilter EXCEPT !.after = a] : a \in bounds}
            \cup {[NoFilter EXCEPT !.before = {m + TicksPerSecond - 1}] : m \in UNION bounds}
            \cup {[NoFilter EXCEPT !.level = {v}, !.devices = {{1}}] : v \in {<<0, 10>>, <<10, 20>>}}
            \cup {[NoFilter EXCEPT !.ids = {{1, 3}}, !.dispatchers = {{1}}]}
        readings == {[NoFilter EXCEPT !.sensors = {{1}}, !.metrics = {{"soil"}}],
                     [NoFilter EXCEPT !.locations = {{2}}]}
        errors == {[NoFilter EXCEPT !.codes = {c}] : c \in {{1}, {1, 2}}}
        null == {[NoFilter EXCEPT !.has_errors = {b}] : b \in BOOLEAN}
                \cup {[NoFilter EXCEPT !.codes = {{0, 2}}, !.has_errors = {TRUE}]}
    IN whole
       \cup IF table = "readings" THEN readings
            ELSE IF backend # "clickhouse" THEN errors \cup null
            ELSE IF \A r \in Stored : errs[r] > 0 THEN errors ELSE {}

\* Whatever has been stored and stored again, every back end lists exactly the records
\* that a filter asks for and counts each once, although a status with several errors
\* appears several times in the join.  Not claimed: empty lists; in ClickHouse, has_errors
\* and code 0 (a join there has no NULL), and one count per reading: it counts copies.
RecordListAgrees ==
    \A f \in Filters :
        LET asked == {r \in Stored : Matches(f, r)}
        IN /\ {m[1] : m \in Distinct(Matching(f))} = asked
           /\ IF table = "readings" /\ backend = "clickhouse"
              THEN Count(f) = Cardinality(UNION {{r} \X (1 .. rows[r]) : r \in asked})
              ELSE Count(f) = Cardinality(asked)

=============================================================================

------------------------------ MODULE Registry ------------------------------
(***************************************************************************)
(* The registries of dispatchers and of devices (ersha-prime/src/registry) *)
(* behind the HTTP API, for each of the three back ends.  Every request is *)
(* a task of its own; a request runs without interruption only within one  *)
(* lock, one statement or one transaction, so that suspend, for instance,  *)
(* which reads an entry and writes it back, can meet other writes halfway. *)
(*                                                                         *)
(* Which table and which back end a behaviour is about is chosen in the    *)
(* initial state.  An entry's location and manufacturer depend on its id;  *)
(* what changes is its state, provisioned_at and its sensors.              *)
(***************************************************************************)
EXTENDS Query, FiniteSets, FiniteSetsExt

CONSTANTS Ids,           \* ids of dispatchers or devices, numbered
          Sensors,       \* ids of sensors; a client may name any of them for any device
          LocationOf,    \* location of each id
          MakerOf,       \* manufacturer of each id: an Option of [word, upper, rank]
          Registered,    \* entries there from the start: an Option of [state, sensors] each
          Tasks,         \* concurrent requests
          Walkers,       \* the tasks that list page by page, too
          MaxCalls,      \* bound on the requests of a behaviour
          MaxTicks,      \* bound on the ticks of the clock
          MaxPages       \* pages after which a walk gives up

States == {"active", "suspended"}

ASSUME RegistryAssumption ==
    /\ MaxCalls \in Nat /\ MaxTicks \in Nat /\ MaxPages \in Nat
    /\ Ids \subseteq Nat /\ IsFiniteSet(Ids) /\ IsFiniteSet(Sensors)
    /\ Walkers \subseteq Tasks
    /\ Registered \in [Ids -> SUBSET [state : States, sensors : SUBSET Sensors]]
    /\ \A i, j \in Ids : i # j =>
          \A a \in Registered[i], b \in Registered[j] : a.sensors \cap b.sensors = {}

\* rank: where the manufacturer's name comes when names are sorted.
ASSUME MakerAssumption == \A id \in Ids : \A m \in MakerOf[id] : m.rank \in Int

VARIABLES table,     \* "dispatchers" or "devices"
          backend,   \* the back end of this behaviour
          rows,      \* the table itself
          sens,      \* the sensors of each device
          clock,     \* wall clock, in ticks; it may be set back
          calls,     \* requests made so far
          op,        \* per task: the request under way
          alone,     \* history: nobody else has changed its entries during the request
          answer     \* per task: how its last request ended

vars == <<table, backend, rows, sens, clock, calls, op, alone, answer>>

\* A row of the table; count and version are columns of the SQL back ends.
Row(state, at, count, version) ==
    [state |-> state, at |-> at, count |-> count, version |-> version]

\* No row: the id is not registered.
None == Row("none", 0, 0, 0)

\* An Active or Suspended Dispatcher or Device, as a caller hands it over.
Item(id, state, at, sensors) == [id |-> id, state |-> state, at |-> at, sensors |-> sensors]

Idle == [kind |-> "idle", pc |-> "idle"]

Answer(result, state, at, sensors) ==
    [result |-> result, state |-> state, at |-> at, sensors |-> sensors]

Plain(result) == Answer(result, "none", 0, {})

Writes == {"register", "batch_register", "update", "suspend", "add_sensor"}

\* The ids a request writes or reads.
About(o) ==
    CASE o.kind = "idle" -> {}
      [] o.kind = "walk" -> Ids
      [] OTHER           -> {o.items[i].id : i \in DOMAIN o.items}

\* Entries that are there from the start were provisioned one second apart.
Start == (Cardinality(Ids) + 1) * TicksPerSecond

Init ==
    /\ table \in {"dispatchers", "devices"}
    /\ backend \in Backends
    /\ sens = [id \in Ids |-> IF table = "devices" THEN UNION {r.sensors : r \in Registered[id]}
                              ELSE {}]
    /\ rows = [id \in Ids |->
                   IF Registered[id] = {} THEN None
                   ELSE Row((CHOOSE r \in Registered[id] : TRUE).state, id * TicksPerSecond,
                            IF backend = "memory" THEN 0 ELSE Cardinality(sens[id]), 0)]
    /\ clock = Start
    /\ calls = 0
    /\ op = [t \in Tasks |-> Idle]
    /\ alone = [t \in Tasks |-> TRUE]
    /\ answer = [t \in Tasks |-> Plain("none")]

\* Time passes, or somebody sets the clock back.
Tick ==
    /\ clock' \in Start .. Start + MaxTicks
    /\ clock' # clock
    /\ UNCHANGED <<table, backend, rows, sens, calls, op, alone, answer>>

-----------------------------------------------------------------------------
(* Requests. *)

Begin(t, o) ==
    /\ op[t] = Idle
    /\ calls < MaxCalls
    /\ calls' = calls + 1
    /\ op' = [op EXCEPT ![t] = o]
    /\ answer' = [answer EXCEPT ![t] = Plain("none")]
    /\ alone' = [alone EXCEPT ![t] = TRUE]
    /\ UNCHANGED <<table, backend, rows, sens, clock>>

\* next: the item to be written next; row: what get has read; was: the entries at the
\* start, which only properties look at.
Request(kind, pc, items) ==
    [kind |-> kind, pc |-> pc, items |-> items, next |-> 1, version |-> 0, row |-> None,
     was |-> [i \in DOMAIN items |-> [row |-> rows[items[i].id], sens |-> sens[items[i].id]]]]

\* Where the write of an entry starts.
FirstWrite ==
    CASE backend = "memory"     -> "write"
      [] backend = "sqlite"     -> "row"
      [] backend = "clickhouse" -> "version"

SensorSets == IF table = "devices" THEN SUBSET Sensors ELSE {{}}

\* register_dispatcher and register_device: Active, and provisioned now; the ids of the
\* entry and of its sensors are the client's, if it names them.
CallRegister(t) ==
    \E id \in Ids, s \in SensorSets :
        Begin(t, Request("register", FirstWrite, <<Item(id, "active", clock, s)>>))

CallBatchRegister(t) ==
    \E i, j \in Ids, s \in SensorSets :
        /\ i < j
        /\ Begin(t, Request("batch_register", IF backend = "sqlite" THEN "batch" ELSE FirstWrite,
                            <<Item(i, "active", clock, s), Item(j, "active", clock, {})>>))

\* update looks for the entry first, in the SQL back ends only.  The new entry has the id
\* it replaces: the only caller, suspend in memory, hands over the entry it has read.
CallUpdate(t) ==
    \E id \in Ids, state \in States :
        Begin(t, Request("update", IF backend = "memory" THEN "write" ELSE "read",
                         <<Item(id, state, clock, {})>>))

CallSuspend(t) ==
    \E id \in Ids : Begin(t, Request("suspend", "read", <<Item(id, "suspended", 0, {})>>))

\* add_sensor and add_sensors; the sensor is new to the device.
CallAddSensor(t) ==
    /\ table = "devices"
    /\ \E id \in Ids, s \in Sensors :
           /\ s \notin sens[id]
           /\ Begin(t, Request("add_sensor", IF backend = "memory" THEN "write" ELSE "sensors",
                               <<Item(id, "none", 0, {s})>>))

CallGet(t) == \E id \in Ids : Begin(t, Request("get", "read", <<Item(id, "none", 0, {})>>))

-----------------------------------------------------------------------------
(* Steps of a request. *)

\* The request becomes o without touching the tables.
Goto(t, o) ==
    /\ op' = [op EXCEPT ![t] = o]
    /\ UNCHANGED <<table, backend, rows, sens, clock, calls, alone, answer>>

Finish(t, a) ==
    /\ op' = [op EXCEPT ![t] = Idle]
    /\ answer' = [answer EXCEPT ![t] = a]
    /\ UNCHANGED <<table, backend, rows, sens, clock, calls, alone>>

\* The tables become r and s, and the request o; a walk remembers which entries were
\* written while it was under way, and a request whether its own were.
Store(t, o, r, s) ==
    /\ rows' = r
    /\ sens' = s
    /\ LET changed == {id \in Ids : r[id] # rows[id] \/ s[id] # sens[id]}
       IN /\ op' = [u \in Tasks |-> IF u = t THEN o
                                    ELSE IF op[u].kind = "walk"
                                         THEN [op[u] EXCEPT !.touched = @ \cup changed]
                                         ELSE op[u]]
          /\ alone' = [u \in Tasks |-> alone[u] /\ (u # t => About(op[u]) \cap changed = {})]
    /\ answer' = IF o = Idle THEN [answer EXCEPT ![t] = Plain("ok")] ELSE answer
    /\ UNCHANGED <<table, backend, clock, calls>>

\* suspend_dispatcher fetches the dispatcher for its answer; the others are done.
Written(o) ==
    IF o.kind = "suspend" /\ table = "dispatchers" THEN [o EXCEPT !.pc = "answer"] ELSE Idle

\* A statement of an SQL back end fails: 500, and nothing is undone.
Fails(t) ==
    /\ op[t] # Idle
    /\ backend # "memory"
    /\ Finish(t, Plain("failed"))

\* Mutant: the entry that suspend writes back is built without the sensors.
Suspended_NoSensors(id, row, s) == Item(id, "suspended", row.at, {})

\* Dispatcher { state: Suspended, ..dispatcher }.
Suspended(id, row, s) == Item(id, "suspended", row.at, s)

\* get has found the entry.
HaveRead(t, row, s) ==
    LET o == op[t]
    IN CASE o.kind = "get"     -> Finish(t, Answer("ok", row.state, row.at, s))
         [] o.kind = "update"  -> Goto(t, [o EXCEPT !.pc = FirstWrite])
         [] o.kind = "suspend" -> Goto(t, [o EXCEPT !.pc = FirstWrite,
                                                    !.items[1] = Suspended(@.id, row, s)])

\* The first query of get.  Only the SQL registries of devices need another one.
ReadRow(t) ==
    /\ op[t].pc = "read"
    /\ LET id == op[t].items[1].id
       IN IF rows[id] = None THEN Finish(t, Plain("not_found"))
          ELSE IF backend = "memory" \/ table = "dispatchers" THEN HaveRead(t, rows[id], sens[id])
          ELSE Goto(t, [op[t] EXCEPT !.pc = "read_sensors", !.row = rows[id]])

ReadSensors(t) ==
    /\ op[t].pc = "read_sensors"
    /\ HaveRead(t, op[t].row, sens[op[t].items[1].id])

\* The get after suspend, for the answer.
ReadBack(t) ==
    /\ op[t].pc = "answer"
    /\ LET row == rows[op[t].items[1].id] IN Finish(t, Answer("ok", row.state, row.at, {}))

-----------------------------------------------------------------------------
(* Writing: memory. *)

\* insert under the write lock, one entry at a time.
MemoryWrite(t) ==
    /\ op[t].pc = "write" /\ op[t].kind # "add_sensor"
    /\ LET o == op[t]
           item == o.items[o.next]
       IN Store(t, IF o.next < Len(o.items) THEN [o EXCEPT !.next = @ + 1] ELSE Written(o),
                [rows EXCEPT ![item.id] = Row(item.state, item.at, 0, 0)],
                [sens EXCEPT ![item.id] = item.sensors])

MemoryAddSensor(t) ==
    /\ op[t].pc = "write" /\ op[t].kind = "add_sensor"
    /\ LET item == op[t].items[1]
       IN IF rows[item.id] = None THEN Finish(t, Plain("not_found"))
          ELSE Store(t, Idle, rows, [sens EXCEPT ![item.id] = @ \cup item.sensors])

-----------------------------------------------------------------------------
(* Writing: SQLite.  The column sensor_count is kept by triggers of the        *)
(* migrations: one more for every row inserted into sensors.  INSERT OR        *)
(* REPLACE of a device sets the column to its default, 0, and that of a sensor *)
(* runs the trigger for insertion but, without recursive triggers, not the one *)
(* for deletion.  A sensor's id is the key of the whole table: to insert it    *)
(* for a device takes it from the device that had it, whose sensor_count stays.*)

SqliteRow(item) == Row(item.state, Kept("sqlite", item.at), 0, 0)

SqliteWriteRow(t) ==
    /\ op[t].pc = "row"
    /\ LET o == op[t]
       IN Store(t, IF table = "devices" THEN [o EXCEPT !.pc = "sensors"] ELSE Written(o),
                [rows EXCEPT ![o.items[1].id] = SqliteRow(o.items[1])], sens)

\* One transaction; a foreign key refuses sensors of a device that is not there.
SqliteAddSensors(t) ==
    /\ op[t].pc = "sensors" /\ backend = "sqlite"
    /\ LET item == op[t].items[1]
       IN IF item.sensors # {} /\ rows[item.id] = None THEN Finish(t, Plain("failed"))
          ELSE Store(t, Idle,
                     [rows EXCEPT ![item.id].count = @ + Cardinality(item.sensors)],
                     [id \in Ids |-> IF id = item.id THEN sens[id] \cup item.sensors
                                     ELSE sens[id] \ item.sensors])

\* One transaction, and add_sensors opens another one for the sensors of each device:
\* as soon as there is a sensor to insert it waits for the lock that the first one
\* holds, times out, and the first one is rolled back.
SqliteBatch(t) ==
    /\ op[t].pc = "batch"
    /\ LET items == op[t].items
       IN IF \E i \in DOMAIN items : items[i].sensors # {} THEN Finish(t, Plain("failed"))
          ELSE Store(t, Idle,
                     [id \in Ids |-> IF \E i \in DOMAIN items : items[i].id = id
                                     THEN SqliteRow(CHOOSE it \in Range(items) : it.id = id)
                                     ELSE rows[id]],
                     sens)

-----------------------------------------------------------------------------
(* Writing: ClickHouse.  A row carries the time of its insertion as version. *)

\* SELECT ... FINAL of a ReplacingMergeTree: the row with the greatest version, and of
\* two with the same version the one inserted last.
Merge(new, old) == IF old = None \/ new.version >= old.version THEN new ELSE old

ClickHouseVersion(t) ==
    /\ op[t].pc = "version"
    /\ Goto(t, [op[t] EXCEPT !.pc = "insert", !.version = clock])

ClickHouseRow(item, version) ==
    Row(item.state, Kept("clickhouse", item.at), Cardinality(item.sensors), version)

\* One insert for all the rows.
ClickHouseInsert(t) ==
    /\ op[t].pc = "insert"
    /\ LET o == op[t]
           of(id) == CHOOSE it \in Range(o.items) : it.id = id
       IN Store(t, IF table = "devices" THEN [o EXCEPT !.pc = "sensors"] ELSE Written(o),
                [id \in Ids |-> IF id \in About(o)
                                THEN Merge(ClickHouseRow(of(id), o.version), rows[id])
                                ELSE rows[id]],
                sens)

\* store_sensors: one insert for each device, whether the device is there or not;
\* sensor_count is left alone.
ClickHouseSensors(t) ==
    /\ op[t].pc = "sensors" /\ backend = "clickhouse"
    /\ LET o == op[t]
           item == o.items[o.next]
       IN Store(t, IF o.next < Len(o.items) THEN [o EXCEPT !.next = @ + 1] ELSE Idle,
                rows, [sens EXCEPT ![item.id] = @ \cup item.sensors])

-----------------------------------------------------------------------------
(* Filters. *)

Present == {id \in Ids : rows[id] # None}

NoFilter == [ids |-> {}, states |-> {}, kinds |-> {}, locations |-> {}, after |-> {},
             before |-> {}, count |-> {}, maker |-> {}]

\* filter_dispatchers of memory/dispatcher.rs.
MemoryDispatcherFilter(f, id) ==
    /\ Admits(f.locations, LocationOf[id])
    /\ Admits(f.states, rows[id].state)

\* filter_dispatchers of sqlite/dispatcher.rs.
SqliteDispatcherFilter(f, id) ==
    /\ SqlIn(f.states, rows[id].state)
    /\ SqlIn(f.locations, LocationOf[id])

\* build_where_clause of clickhouse/dispatcher.rs.
ClickHouseDispatcherFilter(f, id) ==
    /\ SqlIn(f.states, rows[id].state)
    /\ SqlIn(f.locations, LocationOf[id])

\* filter_devices of memory/device.rs: ids are not looked at; a pattern is found in a
\* manufacturer whatever the case of either.
MemoryDeviceFilter(f, id) ==
    /\ Admits(f.locations, LocationOf[id])
    /\ Admits(f.states, rows[id].state)
    /\ Admits(f.kinds, "sensor")
    /\ \A p \in f.maker : \E m \in MakerOf[id] : m.word = p.word /\ ~p.wild
    /\ InRange(f.count, Cardinality(sens[id]))
    /\ InWindow(f.after, f.before, rows[id].at)

\* Mutant: provisioned_before is exclusive.
SqliteDeviceFilter_Exclusive(f, id) ==
    /\ SqlIn(f.ids, id)
    /\ SqlIn(f.states, rows[id].state)
    /\ SqlIn(f.kinds, "sensor")
    /\ SqlIn(f.locations, LocationOf[id])
    /\ SqlInWindow(f.after, {}, rows[id].at)
    /\ \A b \in f.before : Second(rows[id].at) < Second(b)
    /\ InRange(f.count, rows[id].count)
    /\ \A p \in f.maker : \E m \in MakerOf[id] : m.word = p.word

\* filter_devices of sqlite/device.rs: LIKE ignores the case and knows wildcards.
SqliteDeviceFilter(f, id) ==
    /\ SqlIn(f.ids, id)
    /\ SqlIn(f.states, rows[id].state)
    /\ SqlIn(f.kinds, "sensor")
    /\ SqlIn(f.locations, LocationOf[id])
    /\ SqlInWindow(f.after, f.before, rows[id].at)
    /\ InRange(f.count, rows[id].count)
    /\ \A p \in f.maker : \E m \in MakerOf[id] : m.word = p.word

\* build_where_clause of clickhouse/device.rs: LIKE minds the case and knows wildcards.
ClickHouseDeviceFilter(f, id) ==
    /\ SqlIn(f.ids, id)
    /\ SqlIn(f.states, rows[id].state)
    /\ SqlIn(f.kinds, "sensor")
    /\ SqlIn(f.locations, LocationOf[id])
    /\ SqlInWindow(f.after, f.before, rows[id].at)
    /\ InRange(f.count, rows[id].count)
    /\ \A p \in f.maker : \E m \in MakerOf[id] : m.word = p.word /\ m.upper = p.upper

\* What list returns, apart from order and pages, and what count counts.
Listed(f) ==
    {id \in Present :
        CASE table = "dispatchers" /\ backend = "memory"     -> MemoryDispatcherFilter(f, id)
          [] table = "dispatchers" /\ backend = "sqlite"     -> SqliteDispatcherFilter(f, id)
          [] table = "dispatchers" /\ backend = "clickhouse" -> ClickHouseDispatcherFilter(f, id)
          [] table = "devices" /\ backend = "memory"         -> MemoryDeviceFilter(f, id)
          [] table = "devices" /\ backend = "sqlite"         -> SqliteDeviceFilter(f, id)
          [] table = "devices" /\ backend = "clickhouse"     -> ClickHouseDeviceFilter(f, id)}

-----------------------------------------------------------------------------
(* Sorting. *)

StateCode(state) == IF state = "active" THEN 0 ELSE 1

\* None before every name.
NoneFirst(id) == IF MakerOf[id] = {} THEN 0 ELSE (CHOOSE m \in MakerOf[id] : TRUE).rank

\* sort_devices of memory/device.rs.
MemoryDeviceKey(by, id) ==
    CASE by = "state"          -> StateCode(rows[id].state)
      [] by = "manufacturer"   -> NoneFirst(id)
      [] by = "provisioned_at" -> rows[id].at
      [] by = "sensor_count"   -> Cardinality(sens[id])

\* ORDER BY of sqlite/device.rs; NULL comes before every name.
SqliteDeviceKey(by, id) ==
    CASE by = "state"          -> StateCode(rows[id].state)
      [] by = "manufacturer"   -> NoneFirst(id)
      [] by = "provisioned_at" -> rows[id].at
      [] by = "sensor_count"   -> rows[id].count

\* ORDER BY of clickhouse/device.rs; NULL comes last in both orders.
ClickHouseDeviceKey(by, order, id) ==
    IF by = "manufacturer" /\ order = "asc" /\ MakerOf[id] = {}
    THEN 1 + Max({NoneFirst(i) : i \in Ids})
    ELSE SqliteDeviceKey(by, id)

\* Dispatchers are sorted by provisioned_at only.
SortKey(by, order, id) ==
    CASE table = "dispatchers"   -> rows[id].at
      [] table = "devices" /\ backend = "memory"     -> MemoryDeviceKey(by, id)
      [] table = "devices" /\ backend = "sqlite"     -> SqliteDeviceKey(by, id)
      [] table = "devices" /\ backend = "clickhouse" -> ClickHouseDeviceKey(by, order, id)

SortKeys ==
    IF table = "dispatchers" THEN {"provisioned_at"}
    ELSE {"state", "manufacturer", "provisioned_at", "sensor_count"}

-----------------------------------------------------------------------------
(* A client that lists page by page, one entry at a time: by offset, or from *)
(* the first page on with a cursor, the last id it has got.                  *)

CallWalk(t) ==
    /\ t \in Walkers
    /\ \E mode \in {"offset", "cursor"}, by \in SortKeys, order \in {"asc", "desc"},
          states \in {{}, {{"active"}}} :
           LET f == [NoFilter EXCEPT !.states = states]
           IN Begin(t, [kind |-> "walk", pc |-> "page", mode |-> mode, by |-> by,
                        order |-> order, filter |-> f, listed |-> <<>>, pages |-> 0,
                        start |-> Listed(f), touched |-> {}, tied |-> FALSE])

\* The page a request of the walk o gets when the matching entries come in the order s.
\* list of sqlite/dispatcher.rs has no LIMIT with a cursor.
Page(o, s) ==
    CASE o.mode = "offset" \/ o.pages = 0 -> OffsetPage(s, o.pages, 1)
      [] o.mode = "cursor" /\ o.pages > 0 /\ backend = "memory" -> CursorPage(s, {Last(o.listed)}, 1)
      [] o.mode = "cursor" /\ o.pages > 0 /\ backend = "sqlite" /\ table = "dispatchers" -> s
      [] OTHER -> SqlCursorPage(s, 1)

Tied(o) ==
    \E i, j \in Listed(o.filter) : i # j /\ SortKey(o.by, o.order, i) = SortKey(o.by, o.order, j)

WalkPage(t) ==
    /\ op[t].pc = "page"
    /\ LET o == op[t]
           key == [id \in Listed(o.filter) |-> SortKey(o.by, o.order, id)]
       IN \E s \in Sorted(key, o.order) :
              CASE Page(o, s) = <<>> -> Finish(t, Plain("ok"))
                [] Page(o, s) # <<>> /\ o.pages + 1 = MaxPages -> Finish(t, Plain("gave_up"))
                [] OTHER -> Goto(t, [o EXCEPT !.listed = @ \o Page(o, s), !.pages = @ + 1,
                                              !.tied = @ \/ Tied(o)])

-----------------------------------------------------------------------------

Call(t) ==
    \/ CallRegister(t) \/ CallBatchRegister(t) \/ CallUpdate(t) \/ CallSuspend(t)
    \/ CallAddSensor(t) \/ CallGet(t) \/ CallWalk(t)

Step(t) ==
    \/ ReadRow(t) \/ ReadSensors(t) \/ ReadBack(t) \/ Fails(t)
    \/ MemoryWrite(t) \/ MemoryAddSensor(t)
    \/ SqliteWriteRow(t) \/ SqliteAddSensors(t) \/ SqliteBatch(t)
    \/ ClickHouseVersion(t) \/ ClickHouseInsert(t) \/ ClickHouseSensors(t)
    \/ WalkPage(t)

Next == Tick \/ \E t \in Tasks : Call(t) \/ Step(t)

Spec == Init /\ [][Next]_vars

-----------------------------------------------------------------------------
(* Properties. *)

\* ClickHouse has a row of entry i with a greater version than the request o writes,
\* from before the clock was set back: the row written is not the one that counts.
Superseded(o, i) == backend = "clickhouse" /\ o.was[i].row.version > o.version

\* What the request o, whose entries nobody else changed, has left and answered when it
\* ends with a.
Exact(o, a) ==
    LET sql == backend # "memory"
        row(i) == [state |-> rows'[o.items[i].id].state, at |-> rows'[o.items[i].id].at]
        had(i) == [state |-> o.was[i].row.state, at |-> o.was[i].row.at]
        given(i) == [state |-> o.items[i].state, at |-> Kept(backend, o.items[i].at)]
        sensors(i) == sens'[o.items[i].id]
        counted(i) == table = "devices" /\ sql =>
                          rows'[o.items[i].id].count = Cardinality(sensors(i))
    IN /\ a.result \in {"ok", "not_found", "failed"}
       /\ a.result = "not_found" =>
              o.was[1].row = None /\ row(1) = had(1) /\ sensors(1) = o.was[1].sens
       /\ a.result = "ok" /\ o.kind = "get" =>
              /\ o.was[1].row # None
              /\ a = Answer("ok", had(1).state, had(1).at, o.was[1].sens)
       /\ a.result = "ok" /\ o.kind = "suspend" =>
              /\ o.was[1].row # None
              /\ sensors(1) = o.was[1].sens
              /\ IF Superseded(o, 1) THEN row(1) = had(1)
                 ELSE row(1) = [had(1) EXCEPT !.state = "suspended"] /\ counted(1)
              /\ table = "dispatchers" => a.state = row(1).state
       /\ a.result = "ok" /\ o.kind = "add_sensor" =>
              /\ backend # "clickhouse" => o.was[1].row # None
              /\ row(1) = had(1)
              /\ sensors(1) = o.was[1].sens \cup o.items[1].sensors
       /\ a.result = "ok" /\ o.kind \in {"register", "batch_register", "update"} =>
              \A i \in DOMAIN o.items :
                  /\ row(i) = IF Superseded(o, i) THEN had(i) ELSE given(i)
                  /\ sensors(i) = o.items[i].sensors \cup (IF sql THEN o.was[i].sens ELSE {})
       /\ a.result = "failed" =>
              /\ sql
              /\ backend = "sqlite" /\ o.kind \in {"batch_register", "add_sensor"} =>
                     \A i \in DOMAIN o.items :
                         row(i) = had(i) /\ sensors(i) = o.was[i].sens

\* A request whose entries nobody else changes while it is under way does exactly what
\* its name says, in every back end, however many others run meanwhile: register, update
\* and batch_register leave the entry they were given (the SQL back ends add to the
\* sensors they have), suspend changes the state and nothing else, keeps the sensors and
\* their count right, and the API answers with the dispatcher's state; get returns the
\* entry; NotFound means there is none; a batch that SQLite could not store has left no
\* trace.  In SQLite a registration that names another device's sensor changes that
\* device, too; and a row that ClickHouse finds older than the one it has, because the
\* clock was set back, is answered with Ok and has no effect but for its sensors.
IsolatedOperationExact ==
    [][\A t \in Tasks :
           (op[t].kind \notin {"idle", "walk"} /\ op'[t] = Idle /\ alone[t])
               => Exact(op[t], answer'[t])]_vars

\* A client that lists all matching entries page by page gets each of them exactly once,
\* provided no two have the same sort key: by offset when nothing is written meanwhile,
\* and with a cursor in memory even for the entries left alone among others that change,
\* as long as the entries it was already given stay as they are.  (With a cursor the SQL
\* back ends answer with the first page again.)
WalkComplete ==
    [][\A t \in Tasks :
           LET o == op[t]
               times(id) == Cardinality({i \in DOMAIN o.listed : o.listed[i] = id})
           IN (o.kind = "walk" /\ op'[t] = Idle /\ answer'[t].result # "failed"
                 /\ ~o.tied /\ ~Tied(o)) =>
                  /\ (o.mode = "offset" /\ o.touched = {}) =>
                         answer'[t].result = "ok" /\ \A id \in Ids : times(id) = IF id \in o.start THEN 1 ELSE 0
                  /\ (o.mode = "cursor" /\ backend = "memory"
                        /\ o.touched \cap Range(o.listed) = {}) =>
                         /\ answer'[t].result = "ok"
                         /\ \A id \in o.start \ o.touched : times(id) = 1]_vars

\* What a filter asks for, whatever the back end.
Matches(f, id) ==
    /\ \A l \in f.ids : id \in l
    /\ \A l \in f.states : rows[id].state \in l
    /\ \A l \in f.locations : LocationOf[id] \in l
    /\ \A a \in f.after : a <= rows[id].at
    /\ \A b \in f.before : rows[id].at <= b
    /\ \A c \in f.count : Cardinality(sens[id]) \in c[1] .. c[2]
    /\ \A p \in f.maker : \E m \in MakerOf[id] : m.word = p.word

\* Filters on which the back ends mean the same.
DispatcherFilters ==
    {[NoFilter EXCEPT !.states = s, !.locations = l] : s \in {{}, {{"active"}}}, l \in {{}, {{0}}}}

DeviceFilters ==
    LET bounds == {{n * TicksPerSecond} : n \in {2, Cardinality(Ids) + 1}}
        counts == IF \E id \in Present : backend # "memory" /\ rows[id].count # Cardinality(sens[id])
                  THEN {} ELSE {{<<0, 0>>}, {<<1, 2>>}}
        makers == {{[word |-> "acme", upper |-> u, wild |-> FALSE]} :
                      u \in {v \in BOOLEAN :
                                backend = "clickhouse" =>
                                    \A id \in Ids : \A m \in MakerOf[id] :
                                        m.word = "acme" => m.upper = v}}
    IN DispatcherFilters
       \cup {[NoFilter EXCEPT !.after = a, !.states = {States}] : a \in bounds}
       \cup {[NoFilter EXCEPT !.before = b, !.kinds = {{"sensor"}}] : b \in bounds}
       \cup {[NoFilter EXCEPT !.count = c] : c \in counts}
       \cup {[NoFilter EXCEPT !.ids = i] : i \in IF backend = "memory" THEN {} ELSE {{{1, 3}}}}
       \cup {[NoFilter EXCEPT !.maker = m] : m \in makers}

\* For the same entries every back end lists and counts exactly those that the filter
\* asks for, as long as the filter has no empty list and no wildcard, bounds on whole
\* seconds for SQL, the manufacturer's own case for ClickHouse, no ids for memory and,
\* in SQL, a sensor_count that is up to date.
ListAgrees ==
    \A f \in IF table = "dispatchers" THEN DispatcherFilters ELSE DeviceFilters :
        Listed(f) = {id \in Present : Matches(f, id)}

=============================================================================

# Verification of ersha-os

TLA+ models of ersha-os: the edge firmware (`ersha-edge`), a regional dispatcher
(`ersha-dispatch`) with its local buffer, the RPC connections (`ersha-rpc`), and
the central server (`ersha-prime`) with its registries and its HTTP API. TLC checks the models on small instances,
TLAPS proves the main safety properties for every instance. `PROJECT.json` maps
each definition to the source lines it models, and lists runs, mutants,
findings, hazards and theorems.

## The system

| Part | State it keeps | Operations | Interacts through |
|---|---|---|---|
| Edge firmware (`ersha-edge`) | sample queue, sequence number | sample, calibrate, provision, send | TCP to the dispatcher |
| TCP edge receiver (`ersha-dispatch/src/edge/tcp.rs`) | one task and one parse buffer per device, `connected_devices` | accept, handshake, read, parse, pass on, disconnect | bounded channel to the collector, `DispatcherState` |
| Data collector (`ersha-dispatch/src/main.rs`) | the record in hand | receive, check a status for alerts, store | channel, local buffer, `DispatcherState` |
| Local buffer (`ersha-dispatch/src/storage`) | a row per record: pending or uploaded | store, store_batch, fetch_pending, mark_uploaded, get_stats, cleanup_uploaded | collector and uploader, concurrently; RwLocks or SQLite transactions |
| Uploader (`main.rs`) | client, backoff, taken events, batch | connect and register, status, events, batch, mark | RPC, local buffer, `DispatcherState` |
| RPC (`ersha-rpc`) | two queues and two tasks per end, map of waiters | call, reply, recv, handler loop | a TLS stream |
| Prime's handlers (`ersha-prime/src/main.rs`) | batch in hand | hello, batch upload, alert, status, disconnection | RPC, registries |
| Registries of dispatchers and devices (`ersha-prime/src/registry`) | a row per entry, the sensors of a device, `sensor_count` | register, batch_register, update, suspend, add_sensor(s), get, list, count | HTTP API, RPC handlers; memory, SQLite or ClickHouse |
| Registries of readings and statuses (same) | rows, errors and sensor statuses | store, batch_store, get, get_latest, list, count | RPC handlers; memory, SQLite or ClickHouse |
| HTTP API (`ersha-prime/src/api`) | none | register, get, list, suspend | registries |

What is hard in it: the collector and the uploader share the buffer; a call may
time out while its reply is on the way; a client that is dropped does not close
its connection, so prime may still be serving a batch that the dispatcher is
sending again on another one; storage may fail at either end; either process may
be restarted; a registry operation is several locks, statements or transactions,
between which other requests run; three back ends build the same queries on their
own; a batch may be delivered again while its first delivery is being stored or
read; bounded queues on both sides of a connection, and from the edge to
the collector, may fill up; shutdown races with all of this.

What makes it correct:

* delivery: a record in the buffer stays there until prime has decided about it,
  and is sent again until then; nothing disappears without a trace in a log;
* events (alerts and disconnections) reach prime at most once;
* a reply answers the call it belongs to; a call returns unless late replies have
  clogged its connection; a lost link is noticed;
* devices are counted while they are served, their disconnection is reported
  once, and no reading is lost or repeated between the socket and the channel;
* shutdown completes, unless an attempt to connect never ends;
* a registry operation whose entries nobody else changes does what it says, in every
  back end, whatever else runs meanwhile; a list has every entry that was asked for, once, also
  page by page; what was acknowledged is there, and a reader gets it whole;
* cleaning the buffer never touches what is still pending, and no two operations
  on it wait for each other;
* a sample the firmware has accepted is sent while the connection holds, in a
  packet that arrives whole, and arrives if the link does not stay silent; calibration stays in the range of its metric.

## Modules

| Module | Models | Built on |
|---|---|---|
| `DispatchStorage` | rows of the local buffer and the operations on them, as operators | |
| `Wire` | connections as both ends see them: requests in order, replies tied to a call by `msg_id` only, links that fail, the frame limit | `DispatchStorage` |
| `Dispatcher` | collector, uploader, `DispatcherState`, the edge's side of the channel, restart | `Wire` |
| `Prime` | connection handlers, what they see of the registries, the HTTP API, restart | `Wire` |
| `Ersha` | the composition, time-outs, link failures; all properties of the whole | `Dispatcher`, `Prime` |
| `Delivery` | abstract specification: at-least-once delivery of records | |
| `RpcConn` | one connection at the level of its tasks, queues and socket buffers | |
| `EdgeTcp` | the TCP edge receiver with the device bookkeeping | |
| `LocalBuffer` | both implementations of the local buffer with all their operations: FIFO locks, transactions, failures, the clock | `DispatchStorage` |
| `Query` | what the back ends of the registries share: filter conditions, sort orders, pages, whole seconds | |
| `Registry` | registries of dispatchers and devices in three back ends, under concurrent requests of the HTTP API | `Query` |
| `RecordRegistry` | registries of readings and statuses in three back ends, with handlers that store and readers | `Query` |
| `Calibration` | `SensorMetric::calibrate` with its integer widths | |
| `Firmware` | sensor tasks, sample queue, engine and socket of the edge firmware | `Calibration` |
| `MC...` | model values, definitions for the configurations, symmetry (`MCErsha`) | |
| `...Proofs` | theorems about the module they are named after | that module |

An action is what one task does between two awaits at which another task, the
network or the operator can interfere. The control variables `cpc` (collector or
client), `upc` (uploader) and `hpc` (handler) name the await a task is at. Data
is abstracted: a record is its id, an event is what it is about, a message is its
kind and the ids in it. A batch is a set, because its order has no effect.

`Ersha` and `RpcConn` look at RPC at two levels. `Ersha` abstracts the queues and
tasks of a connection to a sequence of requests and a set of replies, and has
several connections; `RpcConn` has one connection with everything bounded. What
`Ersha` assumes of a connection (a reply reaches only the call it names, a call
ends in an error when no reply can come) is what `ReplyToItsCall` and
`CallReturnsUnlessClogged` of `RpcConn` say; `Ersha` has no bounded queues, and its
liveness is about connections that are not clogged. `EdgeTcp` likewise details the actions
`EdgeSend` and `DeviceDisconnected` of `Dispatcher`. `LocalBuffer` details the
operators of `DispatchStorage` (which it uses): what is one step in `Dispatcher` is
a lock or a transaction there.

Connecting is an await of its own: `BeginConnect` takes the uploader to `upc` = "connect",
where it stays until `DoConnect` or `ConnectFails`, and nothing obliges either to happen,
as `TcpStream::connect` and the TLS handshake have no time-out. A late reply for a client
that is still in use is discarded (`DiscardReply`); on the connection of a dropped client
it ends the reader task and with it the connection (`LateReply`).

`Firmware` distinguishes a link that is lost, which the socket reports, from one that is
silent: then a write waits. HELLO and the location go out with `write`, not `write_all`,
and may be cut short (`ProvisionCutShort`); the engine then waits for an answer that does
not come.

`Registry` and `RecordRegistry` detail what `Prime`
sees of the registries: a set of devices, a state, and batch_store in one step or,
for statuses, in part.

In `Registry`, `RecordRegistry` and `LocalBuffer` the initial state chooses the back
end (and the table), so that one run covers them all. A request is a record in `op`
whose `pc` names the lock, statement or transaction it is about to take. Option<T>
is a set of at most one element. What an entry says beside its state, its time and
its sensors is a function of its id; a table of records counts the copies of each
record's rows, which is all that redelivery changes.

A *disturbance* in `Ersha` is anything the code has to cope with: a fault of the
network or of storage, a slow peer, a restart, a device that leaves, an operator
who registers or suspends, Ctrl+C. A behaviour has at most `MaxDisturbances`.

Definitions whose name ends in `_Something` and whose comment starts with
"Mutant" are deliberately wrong variants, used to show that the properties would
notice such a bug.

## Runs

| Run | Module, configuration | Shows |
|---|---|---|
| delivery | `MCErsha`, `ErshaDelivery.cfg` | `TypeOK`, `NoSilentLoss`, its inductive strengthening `LossInv`, and the refinement `ImplementsDelivery` |
| liveness | `MCErsha`, `ErshaLiveness.cfg` | `EventuallyUploaded`, `ShutdownCompletes`, `EventsAtMostOnce`, `EventsLostOnlyByFailure` |
| rpc | `RpcConn`, `RpcConn.cfg` | `TypeOK`, `ReplyToItsCall`, `CallReturnsUnlessClogged`, `LinkLossEndsHandler` |
| edge | `MCEdgeTcp`, `EdgeTcp.cfg` | `TypeOK`, `DisconnectedOnce`, `ServedAreConnected`, `CountedUntilMalformed`, `ReadingsConserved`, `HandlersShutDown` |
| registry | `MCRegistry`, `Registry.cfg` | `IsolatedOperationExact`, `WalkComplete`, `ListAgrees` |
| records | `MCRecordRegistry`, `RecordRegistry.cfg` | `AckedStored`, `StoredOnce`, `ReadsWhole`, `ReadsCurrent`, `RecordListAgrees` |
| buffer | `MCLocalBuffer`, `LocalBuffer.cfg` | `TypeOK`, `PendingKept`, `CleanupByAge`, `StatsOfOneInstant`, `EveryCallReturns` |
| firmware | `MCFirmware`, `Firmware.cfg` | `SamplesAccounted`, `PacketsWhole`, `SampleArrives`, `CalibrationNearest` |

Four more runs show where the code does not do what a document says; TLC finds
each property violated:

| Run | The document | The code |
|---|---|---|
| uploaded_means_stored | storage/mod.rs: "Mark sensor readings as successfully uploaded." | the whole batch is marked although prime rejected records or failed to store them |
| suspended | prime client.rs: "Suspended dispatchers cannot upload data to ersha-prime." | the state is checked at hello only |
| backlog | dispatch README: "Periodically batch-uploads buffered data" | a backlog above the frame limit is never uploaded |
| rpc_timeout | rpc README: "The client has a default 5-second timeout per call" | the wait for a place in the outgoing queue has no time-out, and late replies fill the queues |

### What the passing properties leave out

The statement of a property names the cases the code does not cover. They were all
met while modelling, and are part of the models:

* events taken for a cycle are lost when the status call fails, and an event when its
  own call fails (`EventsLostOnlyByFailure` says nothing else is);
* a malformed payload leaves its device in `connected_devices`
  (`CountedUntilMalformed`);
* the connection of a rejected dispatcher stays open until the link fails, since each
  end's reader task waits for the other (`LinkLossEndsHandler`);
* shutdown waits for an attempt to connect, which is not raced with the cancellation and
  has no time-out: a prime that accepts the connection and does not answer the TLS
  handshake holds the process up (`ShutdownCompletes` and `EventuallyUploaded` assume
  `ConnectsEnd`);
* late replies that fill the client's incoming queue leave a later call waiting for a
  place in the outgoing queue for as long as the link lasts (`CallReturnsUnlessClogged`;
  run rpc_timeout shows it);
* two writers of one registry entry: `suspend` writes back what it has read, and undoes
  a registration in between (`IsolatedOperationExact` is about requests whose entries
  nobody else changes: `alone` becomes false with the first change by another task);
* a sensor's id is the key of SQLite's whole table of sensors: registering a device with
  another device's sensor takes it away and leaves that device's `sensor_count` as it was.
  The device that loses it counts as changed by another request;
* ClickHouse takes the version of a row from the wall clock: after the clock was set back
  a write is answered with Ok although the older row goes on counting (`Superseded`; its
  sensors are stored all the same);
* `batch_register` of SQLite devices with sensors always fails, since `add_sensors` asks
  for a second transaction while the first is open; `update` and `register` of an
  existing device leave `sensor_count` at the number of sensors they were given in the
  SQL back ends, which keep the old sensors too; ClickHouse's `add_sensor` does not
  count, nor look whether the device exists;
* cursors: the SQL back ends ignore them and answer with the first page (SQLite's
  dispatchers without a limit); memory answers a cursor without id with nothing
  (`WalkComplete`);
* filters: the in-memory filter of devices ignores ids; an empty list admits nothing in
  memory and everything in SQL; patterns of a manufacturer differ in case and wildcards;
  ClickHouse's `has_errors` is true of every status, because its joins have no NULL
  (`ListAgrees`, `RecordListAgrees`);
* ClickHouse keeps every delivery of a reading or status, and a failed status may be
  there without its errors (`StoredOnce` excludes it, `ReadsWhole` asks for
  acknowledged statuses only);
* the in-memory `cleanup_uploaded` ignores the age; SQLite may delete up to a second
  early (`CleanupByAge`);
* after the firmware has lost its connection nothing reconnects and no send is retried:
  every later sample is discarded (`SamplesAccounted`), whereas `ersha-edge/README.md`
  says that the engine takes care of "handling disconnects and reconnects" and "retrying
  sends" (lines 178-179, also 9) and that "reconnects are transparent" (231). On a link
  that stays silent a write waits for ever, since the socket has no time-out
  (`SampleArrives` assumes a link that holds in the end);
* a percentage whose i16 sum overflows
  becomes 0, or a panic in a debug build (`CalibrationNearest`).

### Bounds

* `ErshaDelivery`: one reading and one status (both tables, both store steps of
  prime), two connections (the one in use and an abandoned one that prime still
  serves), three disturbances (enough for a time-out, a reconnection and a fault
  in the middle of it), five message ids (more than can be in transit), channel
  capacity 1, largest backoff 3, both storages durable.
* `ErshaLiveness`: one status with two alerts, a device that may leave, two
  disturbances; the buffer is durable, prime's registries are in memory, so that a
  restart of prime forgets the dispatcher and its devices.
* `ErshaBacklog`: two records, a frame that holds one, no disturbance at all.
* `RpcConn` and `RpcConnTimeout`: queues and socket buffers of one, and ten calls: enough
  to fill the nine places between the caller and the queue nobody reads, so that the
  clogged connection is among the states of both runs. With the 1024 of the code it takes
  that many more.
* `EdgeTcp`: two devices, up to two messages per read, three readings, a channel
  of one place.
* `Registry`: three ids, of which one is active, one suspended with a sensor and one
  not registered, and one sensor, which a request may name for any device; two tasks, one
  of which may also page through a list (`Walkers`), and `MaxCalls` = 2 requests between
  them: any two requests meet at any point. The clock shows one of two times half a second
  apart (`MaxTicks` = 1) and may go from either to the other, so that the version of a
  ClickHouse row may be equal to, greater than or smaller than an older one's, and a time
  may be no whole second. The new entry of `update` has the id it replaces: the only
  caller in the repository, `suspend` in memory, passes the entry it has read. The two
  entries of a batch are named in one order only. A walk asks for
  one entry at a time and gives up after `MaxPages` = 5, more than there are entries.
* `RecordRegistry`: three records, two of them of one device and within one second; two
  handlers and `MaxBatches` = 2 batches out of two that overlap, the second being the
  first one sent again with a later record; one reader with `MaxReads` = 1 request, at
  any point.
* `LocalBuffer`: two readings and one status, two tasks that each make any sequence of
  calls, ages of zero and one second, and a clock (`MaxTime`) that passes from one
  second into the next in ticks of half a second.
* `Firmware`: two sensors, `MaxSamples` = 5, a queue of two, packets of three pieces on
  a socket that takes two, a greeting of one piece and a location of two, so that both or
  only a part may fit, and numbers that wrap after three, so that each limit is met. Calibration is evaluated at the ends of every range, +-1.

The connections in `Ersha` are interchangeable, which its safety runs use as
symmetry. A run with a liveness property uses none.
`CHECK_DEADLOCK FALSE` in `RpcConn`, `EdgeTcp`, `Registry`, `RecordRegistry` and
`Firmware`: a connection that has ended, or a behaviour that has made all its calls
or taken all its samples, takes no further step. `Ersha` has deadlock checking
on; `Stopped` is the one state in which nothing needs to happen.

### Fairness

Tokio runs every task that is ready, and timers fire: weak fairness of each task
(collector, uploader, each handler, the reader and writer tasks, the tasks that use
the buffer, the firmware's engine on its executor). tokio's RwLock is fair: it grants
requests in the order they came. `select!`
chooses at random among ready branches, so a branch that is ready again and again
is taken: strong fairness of the branches that wait for the cancellation. Nothing
is assumed of the edge, sensors, the operator, faults and restarts, nor of attempts to
connect, which have no time-out: `EventuallyUploaded` and `ShutdownCompletes` say in a
premise (`ConnectsEnd`) that none lasts for ever. `EventuallyUploaded` is also conditional
on the dispatcher, which must in the end stay active and not be cancelled. In `Firmware`
the engine takes the steps it can and the peer reads what has arrived; that the greeting
is answered, that a silent link comes back, or that the socket learns of a loss, is not
assumed.

## Proofs

Every theorem holds for all values of the constants that satisfy the named
assumptions of the modules. Where a property is not inductive the proof module states
the strengthening; TLC checked each of them on the run's instance before it was proved.

### The whole system

`ErshaProofs` proves `TypeCorrect` (`TypeOK`), `LossInvariant` (`LossInv`) and
`NothingLostSilently` (`NoSilentLoss`), the last two if prime's registries are
durable. `NoSilentLoss` is not inductive: that a record being marked is settled
depends on the reply the uploader took, which depends on what the handler did
before it sent that reply, which depends on the msg_id being unique. `LossInv`
adds exactly this chain:

1. `ClientInv`: whenever a call is awaited there is a connection and a msg_id;
2. `HandlerInv`: at each stage of a handler, every record of its batch is still
   to be looked up, valid and still to be stored, or settled;
3. `AwaitedInv`: the awaited msg_id occurs in no request but the uploader's own
   batch, and in a reply only when all of that batch is settled;
4. `MarkInv`: the batch being marked is settled.

The proof has a lemma per group of actions; those that touch neither handlers nor
the awaited call are dealt with at once (`LossQuiet`).

Its second part proves the refinement, `DeliveryImplemented`
(`ImplementsDelivery`), when the buffer and the registries are durable. Beyond
`LossInv` it needs that a record in the channel or in the collector's hand has no row
yet (`CollectInv`), since the abstract specification buffers a record once, and that
prime hears only of records that have a row (`SubmitInv`). `StepKinds` sorts the
actions by what they do to the variables of `Delivery`: nothing, store, settle, mark.

The last part proves `ReportedAtMostOnce` (`EventsAtMostOnce`) and
`EventLossBounded` (`EventsLostOnlyByFailure`), for any time-outs, reconnections and
restarts. An event has to be in one place (`OnePlaceInv`, `SentInv`: queued, taken and
unsent, in one request of one connection, or received), the next event to be queued has
to be new (`QueuedInv`), and a reply to the call of an event may exist only when prime
has that event (`ReportInv`).

### Connections and receivers

`RpcConnProofs` proves `RpcTypeCorrect` and `RpcReplyToItsCall` for any
capacities and any number of calls. The strengthening `InTransit` says that every
envelope in any queue belongs to a call already handed to the writer; without it
a reply could find the waiter of a call that has not been sent.

`EdgeTcpProofs` proves `EdgeTypeCorrect`, `EdgeDisconnectedOnce`,
`EdgeServedAreConnected`, `EdgeReadingsConserved` and the action property
`EdgeCountedUntilMalformed`, for any number of devices and of messages per read. The
properties of `connected_devices` need each other and that a sending handler has
something to send; `ReadingsConserved` counts readings in the parse buffer, with the
bijection between the positions of a sequence and those of its tail.

### The local buffer

`LocalBufferProofs` proves `BufferTypeCorrect` and the action properties
`BufferPendingKept`, `BufferCleanupByAge` and `BufferStatsOfOneInstant`, for any number
of tasks and records and any resolution of the clock. The invariant is about the lock
queues: no task is in one twice, and only tasks with an operation under way are in them,
so that leaving a queue (`Without`) takes a task's only request. `CleanupByAge` also
needs that no row was marked in the future (`MarksPast`). `StatsOfOneInstant` needs that
every request for a lock has the access its operation needs (`AccessInv`); from that,
that a lock once granted stays granted until its task returns, and that nobody writes a
table whose lock another task holds for reading. With that the numbers counted so far are
those of the present rows at every step (`StatsInv`), although every other task may take
steps between two counts.

### Prime's registries of readings and statuses

`RecordRegistryProofs` proves `RecordsAckedStored`, `RecordsStoredOnce`,
`RecordsReadWhole` and `RecordsReadCurrent` in all three back ends, for any records, any
overlapping and repeated batches and any number of handlers and readers. The invariant
`RecordInv` says how far each handler has come (`StoringInv`: the records before the
next one are whole, the next one has the rows its `pc` says), and for each reader, that
the statuses it still has to fetch are stored and those it has fetched are whole
(`ReadingInv`), and that what it has and what it is to fetch add up to what it should
return (`CurrentInv`). A step of a handler only adds rows (`StoreEffect`), a step of a
reader changes nothing but its own request and answer (`ReaderStep`). That `get_latest`
finds something when there is something, and that a list is long enough, rests on the
largest element of a finite set (`LargestKey`, by well-foundedness of inclusion) and on the
records that a query without a filter goes through (`DistinctAll`).

`RecordFiltersAgree` and `RecordListsAgree` (`RecordListAgrees`) are about filters: for
every filter in the back ends' common ground (`Portable`: no empty list, bounds that do
not cut a second, codes that a join can tell apart) list and count find what the filter
asks for, and nothing else. `JoinFound` and `StatusFound` say what the LEFT JOIN with
the errors finds, `OncePerRecord` that its rows, or those that ClickHouse keeps twice,
count as often as they are there.

### Prime's registries of dispatchers and devices

`RegistryProofs` proves the three properties of `Registry` for any ids, sensors, tasks
and number of requests, in all three back ends.

`RegistryOperationsExact` (`IsolatedOperationExact`) rests on `RegistryInvariant`.
`TypeInv` says which places in the code a request can be at in which back end, and that
the SQL back ends keep whole seconds. `ProgressInv` says what a request whose entries
nobody else has changed (`alone`) has written when it is at a given place, that suspend
carries the entry as it was, and that a row it has inserted is there unless a row with a
greater version was there before (`Superseded`). Each action has a lemma that concludes
`RequestStep`: the request continues with its progress or ends exactly (`Exact`), and
every other request about an entry the step changes is no longer alone. Nothing is assumed
of which entries a step changes: SQLite's may take a sensor from any device.

`RegistryFiltersAgree` and `RegistryListsAgree` (`ListAgrees`): for every filter in the
common ground (`Portable`) the back ends list what the filter asks for. SQL compares
whole seconds, which is the same as comparing the timestamps because only whole seconds
are stored (`SecondsInOrder`).

`RegistryWalksComplete` (`WalkComplete`) assumes that the client does not give up before
it can have seen every entry (`MaxPages > Cardinality(Ids)`). The invariant `WalkInv`
says that what was listed by offset is how the sorted list begins (`Begins`), and that
what was listed with a cursor is in order and has left out no unchanged entry that
comes before the last one listed (`Follows`). The second is stable although entries
appear, disappear and move between two pages, because it speaks of unchanged entries
only (`FollowsKept`, `WalkKept`). `OffsetNext` and `CursorNext` are the step by one page.

`QueryProofs` has what both registries' proofs use about module `Query`: whole seconds
(`KeptTwice`, `SecondBounds`), the largest key (`LargestKey`), that a sorted sequence has
every row once and in order (`SortedRows`) and is unique without ties (`SortedOnce`), and
the pages cut from it.

### The firmware

`FirmwareProofs` proves `FirmwareCalibrationNearest` (the arithmetic of `calibrate` for
any inputs, not only those at the ends of the ranges), `FirmwarePacketsWhole` and
`FirmwareSamplesAccounted`. `FirmwareInv` orders the pieces in the stream and what the
engine has of the packet in hand, and numbers packets by how many went before; a
number that wraps at every step counts modulo its range (`NextNumber`).

### Assumptions, and what is only model-checked

Assumptions are those named in the modules (`TablesDisjoint`, `WireAssumption`,
`DispatcherAssumption`, `PrimeAssumption`, `RpcConnAssumption`, `EdgeTcpAssumption`,
`BufferAssumption`, `RecordAssumption`, `ContentAssumption`, `RegistryAssumption`,
`MakerAssumption`, `TicksAssumption`, `FirmwareAssumption`): the
constants have their types, queues have at least one place, markers such as `NoConn`
are not among the values they stand apart from, timestamps are numbers, and prime calls
batch_store with records in the batch only.

Only model-checked: all liveness (`EventuallyUploaded`, `ShutdownCompletes`,
`CallReturnsUnlessClogged`, `LinkLossEndsHandler`, `HandlersShutDown`, `EveryCallReturns`,
`SampleArrives`), which is out of the prover's reach. Every invariant and every action
property that a passing run checks is a theorem.

## Not modelled

* Values: of sensors, of metrics, texts of alerts and errors. Their conversions to
  columns and back are left out, apart from timestamps, whose fractions SQL loses.
* Parsing of HTTP parameters and JSON.
* The mock edge receiver's random values, and the examples for boards.
* TLS set-up, configuration, the HTTP client library, the harness, the web UI and
  the dashboards: input and presentation without state of interest.
* The postcard encoding and the SQL engines: third-party. Of ClickHouse, the merge by
  version and its joins are modelled as far as the queries rely on them.
* Real time: a time-out may fire at any moment; the 5 s and the backoff matter
  only as an order of events.

## Plan

1. Done: the delivery path (`Ersha`), the RPC connection, the edge receiver, their
   runs and the theorems above.
2. Done: the registries with the HTTP API, the local buffer with its maintenance, the
   edge firmware, and their runs.
3. Done: the refinement and the events of `Ersha`, the action properties of the edge
   receiver and of the buffer, the registries of records, the firmware.
4. Done: proofs about `Registry`, and about the filters of `RecordRegistry`. What is left
   to TLC is liveness.

----------------------------- MODULE Dispatcher -----------------------------
(***************************************************************************)
(* ersha-dispatch/src/main.rs: the data collector, which moves what the    *)
(* edge receiver produces into the local buffer and queues alerts, and the *)
(* uploader, which on every tick of its interval connects to ersha-prime   *)
(* if it has no client, reports its status, sends the queued events and    *)
(* uploads every buffered record.  The two run concurrently and share the  *)
(* buffer (rows) and DispatcherState (pending_events).                     *)
(*                                                                         *)
(* An action is the code of one task between two awaits that another task  *)
(* can observe.  The actions leave prime's variables to module Ersha.      *)
(***************************************************************************)
EXTENDS Wire

CONSTANTS Battery,          \* battery_percent of a status
          SensorStates,     \* the states of the sensors a status lists, in order
          ChanCap,          \* capacity of the edge channel (100 in the code)
          MaxBackoff,       \* MAX_BACKOFF, in seconds (60 in the code)
          Durable,          \* TRUE: SQLite buffer, FALSE: in-memory buffer
          NoRecord

ASSUME DispatcherAssumption ==
    /\ Battery \in [Statuses -> 0..100]
    /\ SensorStates \in [Statuses -> Seq({"Active", "Faulty", "Inactive"})]
    /\ ChanCap \in Nat \ {0}
    /\ MaxBackoff \in Nat \ {0}
    /\ Durable \in BOOLEAN
    /\ NoRecord \notin Records

VARIABLES
    cancelled,          \* the CancellationToken
    sent, gone,         \* records produced, devices that left (the edge's side)
    chan,               \* the channel from the edge receiver to the collector
    rows,               \* the local buffer
    pending_events,     \* DispatcherState::pending_events
    queued,             \* every event ever queued (history)
    cpc, citem, cnext,  \* collector: control, record in hand, next check on it
    upc,                \* uploader: control
    conn,               \* the connection of its Client; NoConn: client is None
    waiting,            \* msg_id of the call it awaits, or NoMsg
    evq,                \* events taken and not yet sent
    batch,              \* ids of the records fetched for the batch
    backoff

collectorVars == <<cpc, citem, cnext>>
uploaderVars  == <<upc, conn, waiting, evq, batch, backoff>>
edgeVars      == <<sent, gone>>
dispatcherVars == <<cancelled, sent, gone, chan, rows, pending_events, queued,
                    cpc, citem, cnext, upc, conn, waiting, evq, batch, backoff>>

Calling == {"hello", "status", "event", "batch"}

DispatcherTypeOK ==
    /\ cancelled \in BOOLEAN
    /\ sent \subseteq Records
    /\ gone \subseteq Devices
    /\ chan \in Seq(Records) /\ Len(chan) <= ChanCap
    /\ rows \in Tables
    /\ pending_events \in Seq(PrimeEvent)
    /\ queued \subseteq PrimeEvent
    /\ cpc \in {"recv", "check", "store", "done"}
    /\ citem \in Records \cup {NoRecord}
    /\ cnext \in Nat
    /\ cpc = "check" => citem \in Statuses
    /\ upc \in {"tick", "connect", "sleep", "take", "events", "fetch", "markR", "markS", "done"} \cup Calling
    /\ conn \in Conns \cup {NoConn}
    /\ waiting \in MsgIds \cup {NoMsg}
    /\ evq \in Seq(PrimeEvent)
    /\ upc = "event" => evq # <<>>
    /\ batch \subseteq Records
    /\ backoff \in 1..MaxBackoff

DispatcherStart ==
    /\ chan' = <<>> /\ pending_events' = <<>> /\ cancelled' = FALSE
    /\ cpc' = "recv" /\ citem' = NoRecord /\ cnext' = 0
    /\ upc' = "tick" /\ conn' = NoConn /\ waiting' = NoMsg
    /\ evq' = <<>> /\ batch' = {} /\ backoff' = 1

DispatcherInit ==
    /\ cancelled = FALSE
    /\ sent = {} /\ gone = {} /\ chan = <<>>
    /\ rows = EmptyTables
    /\ pending_events = <<>> /\ queued = {}
    /\ cpc = "recv" /\ citem = NoRecord /\ cnext = 0
    /\ upc = "tick" /\ conn = NoConn /\ waiting = NoMsg
    /\ evq = <<>> /\ batch = {} /\ backoff = 1

-----------------------------------------------------------------------------
(* DispatcherState and the edge receiver's side of the channel.  Its tasks *)
(* may still run after the cancellation, until the process exits.          *)

Exited == cpc = "done" /\ upc = "done"

QueueEvent(e) ==
    /\ pending_events' = Append(pending_events, e)
    /\ queued' = queued \cup {e}

\* The receiver sends a new record, waiting while the channel is full.
EdgeSend(r) ==
    /\ r \notin sent /\ DeviceOf[r] \notin gone
    /\ cpc # "done" /\ Len(chan) < ChanCap
    /\ chan' = Append(chan, r)
    /\ sent' = sent \cup {r}
    /\ UNCHANGED <<wireVars, cancelled, gone, rows, pending_events, queued,
                   collectorVars, uploaderVars>>

\* DispatcherState::device_disconnected.  A device that returns has a new id.
DeviceDisconnected(d) ==
    /\ ~Exited /\ d \notin gone /\ Disturb
    /\ gone' = gone \cup {d}
    /\ QueueEvent([kind |-> "Disconnection", of |-> d, sensor |-> 0])
    /\ UNCHANGED <<up, reqs, reps, cancelled, sent, chan, rows, collectorVars, uploaderVars>>

\* Ctrl+C.
Cancel ==
    /\ ~cancelled /\ cancelled' = TRUE /\ Disturb
    /\ UNCHANGED <<up, reqs, reps, edgeVars, chan, rows, pending_events, queued,
                   collectorVars, uploaderVars>>

-----------------------------------------------------------------------------
(* run_data_collector.                                                     *)

\* edge_rx.recv(): a reading is stored at once, a status is first checked.
CollectorRecv ==
    /\ cpc = "recv" /\ chan # <<>>
    /\ citem' = Head(chan) /\ chan' = Tail(chan)
    /\ cpc' = IF citem' \in Statuses THEN "check" ELSE "store"
    /\ cnext' = 0
    /\ UNCHANGED <<wireVars, cancelled, edgeVars, rows, pending_events, queued, uploaderVars>>

\* Check 0 is the battery (below 10%), check i the state of the i-th sensor.
AlertKind == IF cnext = 0 THEN "CriticalBattery" ELSE "SensorFailure"
AlertDue  == IF cnext = 0 THEN Battery[citem] < 10 ELSE SensorStates[citem][cnext] = "Faulty"

CollectorCheck ==
    /\ cpc = "check" /\ cnext <= Len(SensorStates[citem])
    /\ IF AlertDue
         THEN QueueEvent([kind |-> AlertKind, of |-> citem, sensor |-> cnext])
         ELSE UNCHANGED <<pending_events, queued>>
    /\ cnext' = cnext + 1
    /\ cpc' = IF cnext = Len(SensorStates[citem]) THEN "store" ELSE "check"
    /\ UNCHANGED <<wireVars, cancelled, edgeVars, chan, rows, citem, uploaderVars>>

CollectorNextItem == cpc' = "recv" /\ citem' = NoRecord /\ cnext' = 0

CollectorStore ==
    /\ cpc = "store"
    /\ rows' = Store(rows, citem)
    /\ CollectorNextItem
    /\ UNCHANGED <<wireVars, cancelled, edgeVars, chan, pending_events, queued, uploaderVars>>

\* store returns an error, which is only logged: the record is dropped.
CollectorStoreFails ==
    /\ cpc = "store" /\ Durable /\ Disturb
    /\ CollectorNextItem
    /\ UNCHANGED <<up, reqs, reps, cancelled, edgeVars, chan, rows, pending_events, queued,
                   uploaderVars>>

\* cancel.cancelled() wins the select; what is still in the channel is dropped.
CollectorStop ==
    /\ cpc = "recv" /\ cancelled
    /\ cpc' = "done" /\ chan' = <<>>
    /\ UNCHANGED <<wireVars, cancelled, edgeVars, rows, pending_events, queued,
                   citem, cnext, uploaderVars>>

CollectorNext == \/ CollectorRecv \/ CollectorCheck \/ CollectorStore
                 \/ CollectorStoreFails \/ CollectorStop

-----------------------------------------------------------------------------
(* run_uploader and connect_and_register.  upc = "tick" is the select at   *)
(* the head of the loop; a value of Calling is an awaited RPC.             *)

\* Mutant: the cancellation is noticed only by an uploader that has a client.
UploaderStop_IfConnected ==
    /\ upc = "tick" /\ cancelled /\ conn # NoConn
    /\ upc' = "done" /\ conn' = NoConn
    /\ UNCHANGED <<wireVars, cancelled, edgeVars, chan, rows, pending_events, queued,
                   collectorVars, waiting, evq, batch, backoff>>

\* cancel.cancelled() wins the select; the client is dropped.
UploaderStop ==
    /\ upc = "tick" /\ cancelled
    /\ upc' = "done" /\ conn' = NoConn
    /\ UNCHANGED <<wireVars, cancelled, edgeVars, chan, rows, pending_events, queued,
                   collectorVars, waiting, evq, batch, backoff>>

\* RpcTcp::call: the request is written and its msg_id awaited at control `at`.
Call(m, at) ==
    /\ FreshIds # {}
    /\ Send(conn, m)
    /\ waiting' = m.id /\ upc' = at
    /\ UNCHANGED <<up, reps, disturbances>>

\* A tick without a client: TcpStream::connect and the TLS handshake are awaited.  They
\* have no timeout and are not raced with the cancellation.
BeginConnect ==
    /\ upc = "tick" /\ conn = NoConn
    /\ upc' = "connect"
    /\ UNCHANGED <<wireVars, cancelled, edgeVars, chan, rows, pending_events, queued,
                   collectorVars, conn, waiting, evq, batch, backoff>>

\* Both are done, on a connection not in use, and the hello call is made.
\* What is left of an abandoned connection in slot c is forgotten.
Connect(c) ==
    /\ upc = "connect" /\ FreshIds # {}
    /\ LET m == Msg("Hello", {}, NoEvent)
       IN  /\ up' = up \cup {c}
           /\ reqs' = [reqs EXCEPT ![c] = <<m>>]
           /\ reps' = [reps EXCEPT ![c] = {}]
           /\ waiting' = m.id
    /\ upc' = "hello" /\ conn' = c
    /\ UNCHANGED <<disturbances, cancelled, edgeVars, chan, rows, pending_events, queued,
                   collectorVars, evq, batch, backoff>>

\* An error of connect_and_register: sleep for the backoff, then retry.
GiveUp ==
    /\ upc' = "sleep" /\ conn' = NoConn /\ waiting' = NoMsg
    /\ UNCHANGED <<cancelled, edgeVars, chan, rows, pending_events, queued,
                   collectorVars, evq, batch, backoff>>

ConnectFails ==
    /\ upc = "connect" /\ Disturb
    /\ GiveUp
    /\ UNCHANGED <<up, reqs, reps>>

\* Mutant: the backoff is not limited.
Sleep_Unlimited ==
    /\ upc = "sleep"
    /\ upc' = "tick"
    /\ backoff' = 2 * backoff
    /\ UNCHANGED <<wireVars, cancelled, edgeVars, chan, rows, pending_events, queued,
                   collectorVars, conn, waiting, evq, batch>>

\* The sleep is not interrupted by the cancellation.
Sleep ==
    /\ upc = "sleep"
    /\ upc' = "tick"
    /\ backoff' = IF 2 * backoff < MaxBackoff THEN 2 * backoff ELSE MaxBackoff
    /\ UNCHANGED <<wireVars, cancelled, edgeVars, chan, rows, pending_events, queued,
                   collectorVars, conn, waiting, evq, batch>>

\* Mutant: the caller takes the next reply on its connection, whatever it answers.
Answer_AnyReply(p) ==
    /\ conn # NoConn /\ p \in reps[conn]
    /\ reps' = [reps EXCEPT ![conn] = @ \ {p}]
    /\ waiting' = NoMsg
    /\ UNCHANGED <<up, reqs, disturbances>>

\* The reader task hands the awaited reply p to the caller.
Answer(p) ==
    /\ conn # NoConn /\ p \in reps[conn] /\ p.to = waiting
    /\ reps' = [reps EXCEPT ![conn] = @ \ {p}]
    /\ waiting' = NoMsg
    /\ UNCHANGED <<up, reqs, disturbances>>

HelloAccepted(p) ==
    /\ upc = "hello" /\ Answer(p) /\ p.kind = "Accepted"
    /\ upc' = "take" /\ backoff' = 1
    /\ UNCHANGED <<cancelled, edgeVars, chan, rows, pending_events, queued,
                   collectorVars, conn, evq, batch>>

HelloRejected(p) ==
    /\ upc = "hello" /\ Answer(p) /\ p.kind = "Rejected"
    /\ GiveUp

\* take_pending_events and the dispatcher_status call.
SendStatus ==
    /\ upc = "take" \/ (upc = "tick" /\ conn # NoConn)
    /\ evq' = pending_events /\ pending_events' = <<>>
    /\ Call(Msg("Status", {}, NoEvent), "status")
    /\ UNCHANGED <<cancelled, edgeVars, chan, rows, queued, collectorVars, conn, batch, backoff>>

StatusAnswered(p) ==
    /\ upc = "status" /\ Answer(p)
    /\ upc' = "events"
    /\ UNCHANGED <<cancelled, edgeVars, chan, rows, pending_events, queued,
                   collectorVars, conn, evq, batch, backoff>>

\* alert or device_disconnection, for the first event taken.
SendEvent ==
    /\ upc = "events" /\ evq # <<>>
    /\ Call(Msg("Event", {}, Head(evq)), "event")
    /\ UNCHANGED <<cancelled, edgeVars, chan, rows, pending_events, queued,
                   collectorVars, conn, evq, batch, backoff>>

\* On to the next event, whether or not prime has this one.
NextEvent ==
    /\ upc' = "events" /\ evq' = Tail(evq)
    /\ UNCHANGED <<cancelled, edgeVars, chan, rows, pending_events, queued,
                   collectorVars, conn, batch, backoff>>

EventAnswered(p) == upc = "event" /\ Answer(p) /\ NextEvent

\* fetch_pending of the readings.
FetchReadings ==
    /\ upc = "events" /\ evq = <<>>
    /\ batch' = FetchPending(rows, Readings)
    /\ upc' = "fetch"
    /\ UNCHANGED <<wireVars, cancelled, edgeVars, chan, rows, pending_events, queued,
                   collectorVars, conn, waiting, evq, backoff>>

\* fetch_pending of the statuses; without any record the cycle ends here ...
FetchNothing ==
    /\ upc = "fetch" /\ batch = {} /\ FetchPending(rows, Statuses) = {}
    /\ upc' = "tick"
    /\ UNCHANGED <<wireVars, cancelled, edgeVars, chan, rows, pending_events, queued,
                   collectorVars, conn, waiting, evq, batch, backoff>>

\* ... and otherwise all of them go to prime in one batch.
SendBatch ==
    LET recs == batch \cup FetchPending(rows, Statuses)
    IN  /\ upc = "fetch" /\ recs # {}
        /\ batch' = recs
        /\ Call(Msg("Batch", recs, NoEvent), "batch")
        /\ UNCHANGED <<cancelled, edgeVars, chan, rows, pending_events, queued,
                       collectorVars, conn, evq, backoff>>

\* Either fetch_pending returns an error: the cycle is abandoned, the client kept.
FetchFails ==
    /\ (upc = "events" /\ evq = <<>>) \/ upc = "fetch"
    /\ Durable /\ Disturb
    /\ upc' = "tick" /\ batch' = {}
    /\ UNCHANGED <<up, reqs, reps, cancelled, edgeVars, chan, rows, pending_events, queued,
                   collectorVars, conn, waiting, evq, backoff>>

\* Whatever the response says was rejected, the whole batch is then marked.
BatchAnswered(p) ==
    /\ upc = "batch" /\ Answer(p)
    /\ upc' = "markR"
    /\ UNCHANGED <<cancelled, edgeVars, chan, rows, pending_events, queued,
                   collectorVars, conn, evq, batch, backoff>>

\* Mutant: the rows to mark are looked up again instead of remembered.
MarkReadings_Refetch ==
    /\ upc = "markR" /\ upc' = "markS"
    /\ rows' = MarkUploaded(rows, FetchPending(rows, Readings))
    /\ batch' = batch \cap Statuses
    /\ UNCHANGED <<wireVars, cancelled, edgeVars, chan, pending_events, queued,
                   collectorVars, conn, waiting, evq, backoff>>

\* mark_uploaded of the readings, then of the statuses.
MarkReadings ==
    /\ upc = "markR" /\ upc' = "markS"
    /\ rows' = MarkUploaded(rows, batch \cap Readings)
    /\ batch' = batch \cap Statuses
    /\ UNCHANGED <<wireVars, cancelled, edgeVars, chan, pending_events, queued,
                   collectorVars, conn, waiting, evq, backoff>>

MarkStatuses ==
    /\ upc = "markS" /\ upc' = "tick"
    /\ rows' = MarkUploaded(rows, batch)
    /\ batch' = {}
    /\ UNCHANGED <<wireVars, cancelled, edgeVars, chan, pending_events, queued,
                   collectorVars, conn, waiting, evq, backoff>>

\* An error of mark_uploaded is only logged; its transaction is rolled back.
MarkFails ==
    /\ upc \in {"markR", "markS"} /\ Durable /\ Disturb
    /\ upc' = IF upc = "markR" THEN "markS" ELSE "tick"
    /\ batch' = IF upc = "markR" THEN batch \cap Statuses ELSE {}
    /\ UNCHANGED <<up, reqs, reps, cancelled, edgeVars, chan, rows, pending_events, queued,
                   collectorVars, conn, waiting, evq, backoff>>

\* The awaited call returns an error (module Ersha says when it may).
HelloFails == upc = "hello" /\ GiveUp

\* Mutant: the client is kept although the status call failed.
StatusFails_KeepClient ==
    /\ upc = "status"
    /\ upc' = "tick" /\ waiting' = NoMsg /\ evq' = <<>>
    /\ UNCHANGED <<cancelled, edgeVars, chan, rows, pending_events, queued,
                   collectorVars, conn, batch, backoff>>

\* The events taken for this cycle are dropped with the client.
StatusFails ==
    /\ upc = "status"
    /\ upc' = "tick" /\ conn' = NoConn /\ waiting' = NoMsg /\ evq' = <<>>
    /\ UNCHANGED <<cancelled, edgeVars, chan, rows, pending_events, queued,
                   collectorVars, batch, backoff>>

\* Mutant: an event whose call failed is sent again.
EventFails_Resend ==
    /\ upc = "event"
    /\ upc' = "events" /\ waiting' = NoMsg
    /\ UNCHANGED <<cancelled, edgeVars, chan, rows, pending_events, queued,
                   collectorVars, conn, evq, batch, backoff>>

\* Mutant: the loop over the events ends with the first failing call.
EventFails_Stops ==
    /\ upc = "event"
    /\ upc' = "events" /\ waiting' = NoMsg /\ evq' = <<>>
    /\ UNCHANGED <<cancelled, edgeVars, chan, rows, pending_events, queued,
                   collectorVars, conn, batch, backoff>>

\* The event is dropped, the client kept.
EventFails == upc = "event" /\ waiting' = NoMsg /\ NextEvent

BatchFails ==
    /\ upc = "batch"
    /\ upc' = "tick" /\ conn' = NoConn /\ waiting' = NoMsg /\ batch' = {}
    /\ UNCHANGED <<cancelled, edgeVars, chan, rows, pending_events, queued,
                   collectorVars, evq, backoff>>

CallFails == HelloFails \/ StatusFails \/ EventFails \/ BatchFails

\* A reply to the client that nobody waits for any more: "no waiter found for reply".
DiscardReply(p) ==
    /\ conn # NoConn /\ p \in reps[conn] /\ p.to # waiting
    /\ reps' = [reps EXCEPT ![conn] = @ \ {p}]
    /\ UNCHANGED <<up, reqs, disturbances, dispatcherVars>>

\* The process dies or has exited, and starts again: only a durable buffer survives.
\* keep[c] requests of connection c had reached prime.  A device has to connect
\* again, under a new id.
Restart(keep) ==
    /\ Disturb
    /\ up' = {}
    /\ reqs' = [c \in Conns |-> SubSeq(reqs[c], 1, keep[c])]
    /\ reps' = [c \in Conns |-> {}]
    /\ rows' = IF Durable THEN rows ELSE EmptyTables
    /\ gone' = gone \cup {DeviceOf[r] : r \in sent}
    /\ DispatcherStart
    /\ UNCHANGED <<sent, queued>>

UploaderNext ==
    \/ UploaderStop \/ BeginConnect \/ ConnectFails \/ Sleep
    \/ SendStatus \/ SendEvent \/ FetchReadings \/ FetchNothing \/ SendBatch \/ FetchFails
    \/ MarkReadings \/ MarkStatuses \/ MarkFails
    \/ \E c \in Conns : \E p \in reps[c] :
          \/ HelloAccepted(p) \/ HelloRejected(p) \/ StatusAnswered(p)
          \/ EventAnswered(p) \/ BatchAnswered(p)
          \/ DiscardReply(p)

EdgeNext ==
    \/ \E r \in Records : EdgeSend(r)
    \/ \E d \in Devices : DeviceDisconnected(d)
    \/ Cancel

=============================================================================

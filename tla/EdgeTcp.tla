------------------------------- MODULE EdgeTcp -------------------------------
(***************************************************************************)
(* The TCP edge receiver of the dispatcher (ersha-dispatch/src/edge/tcp.rs)*)
(* with the device bookkeeping of DispatcherState (state.rs): an accept    *)
(* loop, one handler task per connection, the bounded channel to the data  *)
(* collector, and shutdown.                                                *)
(*                                                                         *)
(* A handler gives its device a fresh id, so a device is named by the      *)
(* handler that serves it.                                                 *)
(***************************************************************************)
EXTENDS Naturals, Sequences, FiniteSets

CONSTANTS Handlers,     \* the connections that may be accepted
          EdgeChanCap,  \* capacity of the channel (100 in the code)
          MaxChunk,     \* bound on the messages one read returns
          MaxMsgs       \* bound on the messages a device sends

ASSUME EdgeTcpAssumption ==
    EdgeChanCap \in Nat \ {0} /\ MaxChunk \in Nat /\ MaxMsgs \in Nat

\* What postcard and the checks of the handler make of a message.  partial is one
\* whose bytes have not all arrived: take_from_bytes fails with UnexpectedEnd.
Complete == {"reading", "bad_frame", "bad_preamble", "bad_payload"}
Kinds    == Complete \cup {"partial"}
Reasons  == {"GracefulClose", "Error"}

VARIABLES
    listening,          \* run_server_loop runs
    stopping,           \* the CancellationToken
    hpc, buf,           \* the handlers: control, received and not yet parsed
    arrived, passed,    \* readings a handler received, and passed to the channel
    connected_devices, disconnections,  \* the fields of DispatcherState
    edge_chan, rx       \* the channel to the collector; its receiver exists

vars == <<listening, stopping, hpc, buf, arrived, passed,
          connected_devices, disconnections, edge_chan, rx>>

TypeOK ==
    /\ listening \in BOOLEAN /\ stopping \in BOOLEAN /\ rx \in BOOLEAN
    /\ hpc \in [Handlers -> {"free", "handshake", "serving", "sending", "ended"}]
    /\ buf \in [Handlers -> Seq(Kinds)]
    /\ arrived \in [Handlers -> Nat] /\ passed \in [Handlers -> Nat]
    /\ connected_devices \subseteq Handlers
    /\ disconnections \in Seq([device: Handlers, reason: Reasons])
    /\ edge_chan \in Seq(Handlers) /\ Len(edge_chan) <= EdgeChanCap

Init ==
    /\ listening = TRUE /\ stopping = FALSE /\ rx = TRUE
    /\ hpc = [h \in Handlers |-> "free"] /\ buf = [h \in Handlers |-> <<>>]
    /\ arrived = [h \in Handlers |-> 0] /\ passed = [h \in Handlers |-> 0]
    /\ connected_devices = {} /\ disconnections = <<>>
    /\ edge_chan = <<>>

Live(h) == hpc[h] \in {"serving", "sending"}

\* device_disconnected, after which the handler returns.
device_disconnected(h, reason) ==
    /\ connected_devices' = connected_devices \ {h}
    /\ disconnections' = Append(disconnections, [device |-> h, reason |-> reason])
    /\ hpc' = [hpc EXCEPT ![h] = "ended"]
    /\ buf' = [buf EXCEPT ![h] = <<>>]

-----------------------------------------------------------------------------
(* The accept loop.                                                        *)

Accept(h) ==
    /\ listening /\ hpc[h] = "free"
    /\ hpc' = [hpc EXCEPT ![h] = "handshake"]
    /\ UNCHANGED <<listening, stopping, buf, arrived, passed,
                   connected_devices, disconnections, edge_chan, rx>>

\* The loop ends at shutdown, and at an accept error that is not transient: devices
\* can no longer connect, and nobody is told.  After a transient error it goes on.
AcceptEnds ==
    /\ listening /\ listening' = FALSE
    /\ UNCHANGED <<stopping, hpc, buf, arrived, passed,
                   connected_devices, disconnections, edge_chan, rx>>

-----------------------------------------------------------------------------
(* handle_edge_device.                                                     *)

\* A wrong or missing greeting, or an error while the id is written, ends the handler
\* before the device is recorded.  It does not look at the cancellation meanwhile.
HandshakeFails(h) ==
    /\ hpc[h] = "handshake"
    /\ hpc' = [hpc EXCEPT ![h] = "ended"]
    /\ UNCHANGED <<listening, stopping, buf, arrived, passed,
                   connected_devices, disconnections, edge_chan, rx>>

Handshake(h) ==
    /\ hpc[h] = "handshake"
    /\ hpc' = [hpc EXCEPT ![h] = "serving"]
    /\ connected_devices' = connected_devices \cup {h}
    /\ UNCHANGED <<listening, stopping, buf, arrived, passed, disconnections, edge_chan, rx>>

\* The handler waits at its select: it has parsed all it could.
AtSelect(h) == hpc[h] = "serving" /\ buf[h] \in {<<>>, <<"partial">>}

\* The device closes the connection, or the dispatcher shuts down ...
HandlerCloses(h) ==
    /\ AtSelect(h)
    /\ device_disconnected(h, "GracefulClose")
    /\ UNCHANGED <<listening, stopping, arrived, passed, edge_chan, rx>>

\* MUTANT: the handler returns without device_disconnected.
ReadFails_Forgets(h) ==
    /\ AtSelect(h)
    /\ hpc' = [hpc EXCEPT ![h] = "ended"]
    /\ buf' = [buf EXCEPT ![h] = <<>>]
    /\ UNCHANGED <<listening, stopping, arrived, passed,
                   connected_devices, disconnections, edge_chan, rx>>

\* ... or the read fails.
ReadFails(h) ==
    /\ AtSelect(h)
    /\ device_disconnected(h, "Error")
    /\ UNCHANGED <<listening, stopping, arrived, passed, edge_chan, rx>>

\* One read returns the rest of a partial message, if there is one, and more
\* messages, the last of which may again be partial.
Chunks == {c \in UNION {[1..k -> Kinds] : k \in 1..MaxChunk} :
              \A i \in DOMAIN c : c[i] = "partial" => i = Len(c)}

ReadingsIn(c) == Cardinality({i \in DOMAIN c : c[i] = "reading"})

Read(h, c) ==
    /\ AtSelect(h)
    /\ arrived' = [arrived EXCEPT ![h] = @ + ReadingsIn(c)]
    /\ arrived'[h] <= MaxMsgs
    /\ buf' = [buf EXCEPT ![h] = c]
    /\ UNCHANGED <<listening, stopping, hpc, passed,
                   connected_devices, disconnections, edge_chan, rx>>

\* MUTANT: the handler goes on after it has reported the end of the connection.
RefuseMessage_GoesOn(h) ==
    /\ hpc[h] = "serving" /\ buf[h] # <<>>
    /\ Head(buf[h]) \in {"bad_frame", "bad_preamble"}
    /\ connected_devices' = connected_devices \ {h}
    /\ disconnections' = Append(disconnections, [device |-> h, reason |-> "Error"])
    /\ buf' = [buf EXCEPT ![h] = Tail(@)]
    /\ UNCHANGED <<listening, stopping, hpc, arrived, passed, edge_chan, rx>>

\* A message that is not well formed, or has another preamble, ends the connection.
RefuseMessage(h) ==
    /\ hpc[h] = "serving" /\ buf[h] # <<>>
    /\ Head(buf[h]) \in {"bad_frame", "bad_preamble"}
    /\ device_disconnected(h, "Error")
    /\ UNCHANGED <<listening, stopping, arrived, passed, edge_chan, rx>>

\* A payload that is not a ReadingPacket makes the handler return through `?`.
MalformedPayload(h) ==
    /\ hpc[h] = "serving" /\ buf[h] # <<>> /\ Head(buf[h]) = "bad_payload"
    /\ hpc' = [hpc EXCEPT ![h] = "ended"]
    /\ buf' = [buf EXCEPT ![h] = <<>>]
    /\ UNCHANGED <<listening, stopping, arrived, passed,
                   connected_devices, disconnections, edge_chan, rx>>

TakeReading(h) ==
    /\ hpc[h] = "serving" /\ buf[h] # <<>> /\ Head(buf[h]) = "reading"
    /\ hpc' = [hpc EXCEPT ![h] = "sending"]
    /\ UNCHANGED <<listening, stopping, buf, arrived, passed,
                   connected_devices, disconnections, edge_chan, rx>>

\* MUTANT: the rest of buf is dropped with the message.
Send_ClearsBuf(h) ==
    /\ hpc[h] = "sending" /\ rx /\ Len(edge_chan) < EdgeChanCap
    /\ edge_chan' = Append(edge_chan, h)
    /\ passed' = [passed EXCEPT ![h] = @ + 1]
    /\ hpc' = [hpc EXCEPT ![h] = "serving"]
    /\ buf' = [buf EXCEPT ![h] = <<>>]
    /\ UNCHANGED <<listening, stopping, arrived, connected_devices, disconnections, rx>>

\* MUTANT: the channel is not bounded.
Send_Unbounded(h) ==
    /\ hpc[h] = "sending" /\ rx
    /\ edge_chan' = Append(edge_chan, h)
    /\ passed' = [passed EXCEPT ![h] = @ + 1]
    /\ hpc' = [hpc EXCEPT ![h] = "serving"]
    /\ buf' = [buf EXCEPT ![h] = Tail(@)]
    /\ UNCHANGED <<listening, stopping, arrived, connected_devices, disconnections, rx>>

\* tx.send waits for a place in the channel, then the message is cut off buf.
Send(h) ==
    /\ hpc[h] = "sending" /\ rx /\ Len(edge_chan) < EdgeChanCap
    /\ edge_chan' = Append(edge_chan, h)
    /\ passed' = [passed EXCEPT ![h] = @ + 1]
    /\ hpc' = [hpc EXCEPT ![h] = "serving"]
    /\ buf' = [buf EXCEPT ![h] = Tail(@)]
    /\ UNCHANGED <<listening, stopping, arrived, connected_devices, disconnections, rx>>

\* MUTANT: the handler leaves its loop instead of returning, and reports again.
SendFails_ReportsTwice(h) ==
    /\ hpc[h] = "sending" /\ ~rx
    /\ connected_devices' = connected_devices \ {h}
    /\ disconnections' = disconnections \o
           <<[device |-> h, reason |-> "Error"], [device |-> h, reason |-> "Error"]>>
    /\ hpc' = [hpc EXCEPT ![h] = "ended"]
    /\ buf' = [buf EXCEPT ![h] = <<>>]
    /\ UNCHANGED <<listening, stopping, arrived, passed, edge_chan, rx>>

\* The collector is gone.
SendFails(h) ==
    /\ hpc[h] = "sending" /\ ~rx
    /\ device_disconnected(h, "Error")
    /\ UNCHANGED <<listening, stopping, arrived, passed, edge_chan, rx>>

-----------------------------------------------------------------------------
(* The environment: the collector at the other end of the channel (module  *)
(* Dispatcher) and the shutdown signal.                                    *)

CollectorRecv ==
    /\ rx /\ edge_chan # <<>>
    /\ edge_chan' = Tail(edge_chan)
    /\ UNCHANGED <<listening, stopping, hpc, buf, arrived, passed,
                   connected_devices, disconnections, rx>>

\* MUTANT: the collector ends but the receiver of the channel lives on.
CollectorStop_KeepsReceiver ==
    /\ rx /\ stopping
    /\ UNCHANGED vars

CollectorStop ==
    /\ rx /\ stopping
    /\ rx' = FALSE /\ edge_chan' = <<>>
    /\ UNCHANGED <<listening, stopping, hpc, buf, arrived, passed,
                   connected_devices, disconnections>>

Shutdown ==
    /\ ~stopping /\ stopping' = TRUE
    /\ UNCHANGED <<listening, hpc, buf, arrived, passed,
                   connected_devices, disconnections, edge_chan, rx>>

-----------------------------------------------------------------------------

ParseStep(h) ==
    RefuseMessage(h) \/ MalformedPayload(h) \/ TakeReading(h) \/ Send(h) \/ SendFails(h)

HandlerStep(h) ==
    \/ Accept(h) \/ HandshakeFails(h) \/ Handshake(h)
    \/ HandlerCloses(h) \/ ReadFails(h) \/ ParseStep(h)
    \/ \E c \in Chunks : Read(h, c)

Next ==
    \/ \E h \in Handlers : HandlerStep(h)
    \/ AcceptEnds \/ CollectorRecv \/ CollectorStop \/ Shutdown

Spec == Init /\ [][Next]_vars

\* A handler with messages to parse goes on, a cancelled one leaves its select, and
\* the collector stops when told to.  select! picks at random among the branches that
\* are ready, so the cancellation is not passed over for ever (strong fairness).
Fairness ==
    /\ \A h \in Handlers : WF_vars(ParseStep(h)) /\ SF_vars(stopping /\ HandlerCloses(h))
    /\ WF_vars(CollectorStop)

FairSpec == Spec /\ Fairness

-----------------------------------------------------------------------------
(* Properties.                                                             *)

\* The end of a connection is reported at most once, and only of a device that is no
\* longer counted and whose handler has returned (tcp.rs has five ways out).
DisconnectedOnce ==
    /\ \A i, j \in DOMAIN disconnections :
           disconnections[i].device = disconnections[j].device => i = j
    /\ \A i \in DOMAIN disconnections :
           LET h == disconnections[i].device
           IN  hpc[h] = "ended" /\ h \notin connected_devices

\* Every device that is being served is counted in connected_devices.
ServedAreConnected == \A h \in Handlers : Live(h) => h \in connected_devices

\* However messages are split over reads, a serving handler loses and repeats no
\* reading: those received are those passed on and those still in buf.
ReadingsConserved ==
    \A h \in Handlers : Live(h) => arrived[h] = passed[h] + ReadingsIn(buf[h])

\* At shutdown every handler that serves a device ends, also one that waits for a
\* place in a full channel.
HandlersShutDown == \A h \in Handlers : stopping /\ Live(h) ~> hpc[h] = "ended"

\* connected_count stays right: of all the ways out of a handler, only the return
\* through `?` on a malformed payload leaves the device in connected_devices.
CountedUntilMalformed ==
    [][\A h \in connected_devices' :
          Live(h) /\ ~Live(h)' => buf[h] # <<>> /\ Head(buf[h]) = "bad_payload"]_vars

=============================================================================

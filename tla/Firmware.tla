------------------------------ MODULE Firmware ------------------------------
(***************************************************************************)
(* The edge firmware library (ersha-edge): sensor tasks put samples into a *)
(* bounded queue and drop them when it is full; the engine provisions the  *)
(* device once over its socket, and then sends one framed packet per       *)
(* sample, numbered by a wrapping u16.  The socket takes what fits into    *)
(* its buffer, so that a packet goes out in pieces.  It has no time-out:   *)
(* on a link that has gone silent a write waits until the link is back or  *)
(* the socket learns that the connection is lost, possibly for ever.       *)
(* Nothing opens the connection again once it is lost.                     *)
(***************************************************************************)
EXTENDS Calibration, Sequences, Functions

CONSTANTS Sensors,       \* the sensor tasks
          QueueDepth,    \* READING_QUEUE_DEPTH
          TxCap,         \* size of the socket's send buffer, in pieces
          PacketLen,     \* pieces of one framed packet
          HelloLen,      \* pieces of HELLO
          LocationLen,   \* pieces of the location that follows it
          IdCount,       \* number of values of ReadingId, 2^16 in the code
          MaxSamples,    \* bound on the samples taken
          Edges          \* integers at which the calibration is evaluated

ASSUME FirmwareAssumption ==
    /\ QueueDepth \in Nat \ {0} /\ TxCap \in Nat \ {0} /\ PacketLen \in Nat \ {0}
    /\ HelloLen \in Nat \ {0} /\ LocationLen \in Nat \ {0}
    /\ IdCount \in Nat \ {0} /\ MaxSamples \in Nat
    /\ Edges \subseteq Int

VARIABLES taken,       \* number of samples taken so far; they are numbered from 1
          queue,       \* READING_CHANNEL
          pc,          \* where the engine is
          link,        \* "closed", "up", "silent" (nothing gets through, and nobody
                       \* knows) or "down" (the socket has learnt that it is lost)
          packet,      \* the packet being sent: <<>> or <<its samples and number>>
          written,     \* pieces of packet the socket has taken
          seq,         \* reading_seq
          tx,          \* pieces in the socket and on the way
          rx,          \* pieces of an incomplete packet at the peer
          delivered,   \* packets the peer has received whole
          dropped,     \* samples refused by a full queue
          discarded    \* samples whose uplink failed

vars == <<taken, queue, pc, link, packet, written, seq, tx, rx, delivered, dropped, discarded>>

engine == <<pc, packet, written, seq, discarded>>

Init ==
    /\ taken = 0
    /\ queue = <<>>
    /\ pc = "connect" /\ link = "closed"
    /\ packet = <<>> /\ written = 0 /\ seq = 0
    /\ tx = <<>> /\ rx = <<>>
    /\ delivered = <<>>
    /\ dropped = {} /\ discarded = {}

-----------------------------------------------------------------------------
(* Sensor tasks. *)

\* Mutant: the newest sample pushes the oldest out of a full queue.
Sample_Overwrites(s) ==
    /\ taken < MaxSamples
    /\ taken' = taken + 1
    /\ LET sample == [sensor |-> s, n |-> taken + 1]
       IN queue' = IF Len(queue) < QueueDepth THEN Append(queue, sample)
                                              ELSE Append(Tail(queue), sample)
    /\ UNCHANGED <<link, tx, rx, delivered, dropped, engine>>

\* A successful read: try_send into the queue, or a warning.  A failed read changes nothing.
Sample(s) ==
    /\ taken < MaxSamples
    /\ taken' = taken + 1
    /\ LET sample == [sensor |-> s, n |-> taken + 1]
       IN IF Len(queue) < QueueDepth
          THEN queue' = Append(queue, sample) /\ UNCHANGED dropped
          ELSE dropped' = dropped \cup {sample} /\ UNCHANGED queue
    /\ UNCHANGED <<link, tx, rx, delivered, engine>>

-----------------------------------------------------------------------------
(* The engine. *)

Goto(label) == pc' = label /\ UNCHANGED <<taken, queue, rx, delivered, dropped>>

\* Wifi::provision connects, or Engine::new returns the error and nothing runs.
Connect ==
    /\ pc = "connect"
    /\ link = "closed"
    /\ \/ link' = "up" /\ Goto("provision")
       \/ link' = "down" /\ Goto("failed")
    /\ UNCHANGED <<packet, written, seq, tx, discarded>>

\* HELLO and the location, each in one write into a buffer that has room for all of
\* it, and the device id in answer.
Provision ==
    /\ pc = "provision"
    /\ link = "up"
    /\ HelloLen <= TxCap /\ LocationLen <= TxCap
    /\ Goto("receive")
    /\ UNCHANGED <<link, packet, written, seq, tx, discarded>>

\* One of the two writes takes only what there is room for, and the rest is never
\* sent: the engine waits for an answer, and the peer for the rest of the greeting.
ProvisionCutShort ==
    /\ pc = "provision"
    /\ link # "down"
    /\ HelloLen + LocationLen > TxCap
    /\ Goto("unanswered")
    /\ UNCHANGED <<link, packet, written, seq, tx, discarded>>

\* The connection is lost before the answer, and Engine::new returns the error.
ProvisionFails ==
    /\ pc \in {"provision", "unanswered"}
    /\ link = "down"
    /\ Goto("failed")
    /\ UNCHANGED <<link, packet, written, seq, tx, discarded>>

Receive ==
    /\ pc = "receive"
    /\ queue # <<>>
    /\ packet' = <<[sample |-> Head(queue), id |-> seq]>>
    /\ written' = 0
    /\ queue' = Tail(queue)
    /\ pc' = "send"
    /\ UNCHANGED <<taken, link, seq, tx, rx, delivered, dropped, discarded>>

Pieces(p, from, to) == [k \in 1 .. to - from |-> [packet |-> p, piece |-> from + k]]

\* Mutant: write instead of write_all, so that the rest of the packet is forgotten.
Write_Once ==
    /\ pc = "send" /\ link # "down"
    /\ written < PacketLen
    /\ Len(tx) < TxCap
    /\ LET n == IF PacketLen < TxCap - Len(tx) THEN PacketLen ELSE TxCap - Len(tx)
       IN tx' = tx \o Pieces(packet[1], 0, n)
    /\ written' = PacketLen
    /\ Goto("send")
    /\ UNCHANGED <<link, packet, seq, discarded>>

\* One turn of write_all: the socket takes what there is room for.
Write ==
    /\ pc = "send" /\ link # "down"
    /\ written < PacketLen
    /\ Len(tx) < TxCap
    /\ LET room == TxCap - Len(tx)
           upto == IF PacketLen - written < room THEN PacketLen ELSE written + room
       IN /\ tx' = tx \o Pieces(packet[1], written, upto)
          /\ written' = upto
    /\ Goto("send")
    /\ UNCHANGED <<link, packet, seq, discarded>>

\* send_reading has returned, with or without error; the number is used up and the
\* engine waits before it takes the next sample.
Sent ==
    /\ pc = "send"
    /\ written = PacketLen
    /\ packet' = <<>>
    /\ written' = 0
    /\ seq' = (seq + 1) % IdCount
    /\ Goto("receive")
    /\ UNCHANGED <<link, tx, discarded>>

\* Mutant: a send is given up as soon as nothing gets through.
SendFails_OnSilence ==
    /\ pc = "send" /\ link # "up"
    /\ written < PacketLen
    /\ packet' = <<>>
    /\ written' = 0
    /\ seq' = (seq + 1) % IdCount
    /\ Goto("receive")
    /\ UNCHANGED <<link, tx, discarded>>

\* The socket reports an error: it is logged and the sample is gone.
SendFails ==
    /\ pc = "send" /\ link = "down"
    /\ written < PacketLen
    /\ discarded' = discarded \cup {packet[1].sample}
    /\ packet' = <<>>
    /\ written' = 0
    /\ seq' = (seq + 1) % IdCount
    /\ Goto("receive")
    /\ UNCHANGED <<link, tx>>

\* Engine::new and Engine::run.
EngineStarts == Connect \/ Provision \/ ProvisionCutShort \/ ProvisionFails
EngineStep == Receive \/ Write \/ Sent \/ SendFails

-----------------------------------------------------------------------------
(* The network and the peer. *)

\* The peer reads a stream: it has a packet whenever it has the bytes of one.
PeerReads ==
    /\ link = "up"
    /\ tx # <<>>
    /\ tx' = Tail(tx)
    /\ LET got == Append(rx, Head(tx))
       IN IF Len(got) = PacketLen
          THEN delivered' = Append(delivered, got) /\ rx' = <<>>
          ELSE rx' = got /\ UNCHANGED delivered
    /\ UNCHANGED <<taken, queue, link, dropped, engine>>

\* Nothing gets through, and neither end knows ...
LinkStalls ==
    /\ link = "up"
    /\ link' = "silent"
    /\ UNCHANGED <<taken, queue, tx, rx, delivered, dropped, engine>>

\* ... until the link is back, and TCP sends again what was not acknowledged,
LinkResumes ==
    /\ link = "silent"
    /\ link' = "up"
    /\ UNCHANGED <<taken, queue, tx, rx, delivered, dropped, engine>>

\* or the socket learns that the connection is lost, with whatever is on the way.
LinkFails ==
    /\ link \in {"up", "silent"}
    /\ link' = "down"
    /\ tx' = <<>>
    /\ UNCHANGED <<taken, queue, rx, delivered, dropped, engine>>

Network == PeerReads \/ LinkStalls \/ LinkResumes \/ LinkFails

Next ==
    \/ \E s \in Sensors : Sample(s)
    \/ EngineStarts \/ EngineStep \/ Network

Spec == Init /\ [][Next]_vars

\* The executor polls the engine, and the peer reads its socket.  Nothing obliges a
\* sensor to take a sample, the connection to be made or the greeting to be answered,
\* nor a silent link to come back or its socket to notice.
FairSpec == Spec /\ WF_vars(EngineStep) /\ WF_vars(PeerReads)

-----------------------------------------------------------------------------
(* Properties. *)

InQueue == {queue[i] : i \in DOMAIN queue}
InHand == {packet[i].sample : i \in {j \in DOMAIN packet : written < PacketLen}}
OnTheWay == {p.packet.sample : p \in Range(tx) \cup Range(rx)} \ InHand
Arrived == {delivered[i][1].packet.sample : i \in DOMAIN delivered}

\* While the connection holds, a sample that was taken is in exactly one place: it was
\* refused by the full queue, waits in it, is being sent, is on the way or has arrived.
\* No uplink fails before the connection does (engine.rs:45 drops such a sample).
SamplesAccounted ==
    link # "down" =>
        LET places == <<dropped, InQueue, InHand, OnTheWay, Arrived>>
        IN /\ {x.n : x \in UNION Range(places)} = 1 .. taken
           /\ \A i, j \in DOMAIN places : i # j => places[i] \cap places[j] = {}
           /\ discarded = {}

\* Whatever the sizes of the socket's buffer and of a packet, the peer finds packet
\* boundaries where the engine put them, in the order the samples were taken; the
\* numbers of what arrives have no gap and wrap around, since a failed uplink, which
\* uses a number up, is never followed by another packet.
PacketsWhole ==
    \A i \in DOMAIN delivered :
        LET p == delivered[i][1].packet
        IN /\ \A k \in 1 .. PacketLen : delivered[i][k] = [packet |-> p, piece |-> k]
           /\ p.id = (i - 1) % IdCount
           /\ i > 1 => delivered[i - 1][1].packet.sample.n < p.sample.n

\* Whatever silences the link goes through, once it holds for good every sample of the
\* queue arrives: the engine of a provisioned device never stops taking samples and gives
\* none up before the socket reports that the connection is lost.
SampleArrives ==
    <>[](link = "up" /\ pc \in {"receive", "send"}) =>
        \A n \in 1 .. MaxSamples :
            (\E x \in InQueue : x.n = n) ~> (\E x \in Arrived : x.n = n)

Distance(x, y) == IF x < y THEN y - x ELSE x - y

\* What a driver hands to its sensor task after calibrate is the value of the metric's
\* range nearest to the exact sum, except where the i16 sum of a percentage overflows: a
\* release build then reports 0 for a sum far above 100 (sensor.rs:32), a debug build
\* panics.  The inputs are all pairs of Edges; the function has no state, so they are
\* tried once, while the engine waits for its first sample.
CalibrationNearest ==
    pc = "receive" /\ taken = 0 =>
        \A val \in Edges, offset \in Edges \cap I16 :
            LET sum == val + offset
                Nearest(r, range) ==
                    /\ r \in range
                    /\ \A w \in Edges \cap range : Distance(r, sum) <= Distance(w, sum)
            IN /\ val \in U8 =>
                      IF Overflows(val, offset)
                      THEN CalibratePercent(val, offset) = 0
                      ELSE Nearest(CalibratePercent(val, offset), 0 .. 100)
               /\ val \in I16 => Nearest(CalibrateTemp(val, offset), I16)
               /\ val \in U16 => Nearest(CalibrateRainfall(val, offset), U16)

=============================================================================

---------------------------- MODULE FirmwareProofs ----------------------------
(***************************************************************************)
(* Proofs about the edge firmware (modules Firmware and Calibration), for  *)
(* any number of samples and any sizes of the queue, of the socket's       *)
(* buffer and of a packet.                                                 *)
(***************************************************************************)
EXTENDS Firmware, SequenceTheorems, TLAPS

(***************************************************************************)
(* SensorMetric::calibrate.                                                *)
(***************************************************************************)

\* The limits of the integer types are integers, and so are their elements.
LEMMA RangeMembers ==
    /\ MinI16 \in Int /\ MaxI16 \in Int /\ MaxU16 \in Int
    /\ MinI16 <= MaxI16 /\ 0 <= MaxU16
    /\ U8 \subseteq Int /\ I16 \subseteq Int /\ U16 \subseteq Int
    /\ \A v \in Int : /\ v \in I16 <=> MinI16 <= v /\ v <= MaxI16
                      /\ v \in U16 <=> 0 <= v /\ v <= MaxU16
  <1>1. /\ MinI16 \in Int /\ MaxI16 \in Int /\ MaxU16 \in Int
        /\ MinI16 <= MaxI16 /\ 0 <= MaxU16
    BY DEF MinI16, MaxI16, MaxU16
  <1> QED  BY <1>1 DEF U8, I16, U16

\* An i16 sum of a percentage and an offset wraps to a negative number when it does
\* not fit, and is exact otherwise.
LEMMA PercentSum ==
    ASSUME NEW val \in U8, NEW offset \in I16
    PROVE  /\ ~Overflows(val, offset) => WrapI16(val + offset) = val + offset
           /\ Overflows(val, offset) => WrapI16(val + offset) < 0
  <1>1. /\ val \in Int /\ 0 <= val /\ val <= 255
        /\ offset \in Int /\ -32768 <= offset /\ offset <= 32767
    BY RangeMembers DEF U8, MinI16, MaxI16
  <1>2. PICK s \in Int : s = val + offset
    BY <1>1
  <1>3. -32768 <= s /\ s <= 33022
    BY <1>1, <1>2
  <1>4. s <= 32767 => (s + 32768) % 65536 = s + 32768
    BY <1>2, <1>3
  <1>5. s > 32767 => (s + 32768) % 65536 = s + 32768 - 65536
    BY <1>2, <1>3
  <1>6. Overflows(val, offset) <=> s > 32767
    <2>1. Overflows(val, offset) <=> s \notin I16
      BY <1>2 DEF Overflows
    <2>2. s \in I16 <=> MinI16 <= s /\ s <= MaxI16
      BY <1>2, RangeMembers
    <2> QED  BY <1>2, <1>3, <2>1, <2>2 DEF MinI16, MaxI16
  <1>7. WrapI16(s) = ((s + 32768) % 65536) - 32768
    BY DEF WrapI16
  <1> QED  BY <1>2, <1>3, <1>4, <1>5, <1>6, <1>7

\* What calibrate computes for each of the metrics.
LEMMA CalibrateNearest ==
    ASSUME NEW val \in Int, NEW offset \in I16
    PROVE  /\ val \in U8 /\ Overflows(val, offset) => CalibratePercent(val, offset) = 0
           /\ val \in U8 /\ ~Overflows(val, offset) =>
                 /\ CalibratePercent(val, offset) \in 0 .. 100
                 /\ \A w \in 0 .. 100 :
                       Distance(CalibratePercent(val, offset), val + offset)
                           <= Distance(w, val + offset)
           /\ val \in I16 =>
                 /\ CalibrateTemp(val, offset) \in I16
                 /\ \A w \in I16 : Distance(CalibrateTemp(val, offset), val + offset)
                                       <= Distance(w, val + offset)
           /\ val \in U16 =>
                 /\ CalibrateRainfall(val, offset) \in U16
                 /\ \A w \in U16 : Distance(CalibrateRainfall(val, offset), val + offset)
                                       <= Distance(w, val + offset)
  <1>0. offset \in Int /\ val + offset \in Int
    BY RangeMembers
  <1>1. ASSUME val \in U8, Overflows(val, offset)
        PROVE  CalibratePercent(val, offset) = 0
    <2>1. WrapI16(val + offset) < 0 /\ WrapI16(val + offset) \in Int
      BY <1>0, <1>1, PercentSum DEF WrapI16
    <2> QED  BY <2>1 DEF CalibratePercent, Clamp
  <1>2. ASSUME val \in U8, ~Overflows(val, offset)
        PROVE  CalibratePercent(val, offset) = Clamp(val + offset, 0, 100)
    BY <1>2, PercentSum DEF CalibratePercent
  <1>4. /\ Clamp(val + offset, 0, 100) \in 0 .. 100
        /\ \A w \in 0 .. 100 : Distance(Clamp(val + offset, 0, 100), val + offset)
                                    <= Distance(w, val + offset)
    BY <1>0 DEF Clamp, Distance
  <1>5. ASSUME val \in I16
        PROVE  /\ CalibrateTemp(val, offset) \in I16
               /\ \A w \in I16 : Distance(CalibrateTemp(val, offset), val + offset)
                                     <= Distance(w, val + offset)
    <2>1. PICK s \in Int : s = val + offset
      BY <1>0
    <2>2. CalibrateTemp(val, offset) = Clamp(s, MinI16, MaxI16)
      BY <2>1 DEF CalibrateTemp
    <2>3. Clamp(s, MinI16, MaxI16) \in I16
      BY <2>1, RangeMembers DEF Clamp
    <2>4. ASSUME NEW w \in I16
          PROVE  Distance(Clamp(s, MinI16, MaxI16), s) <= Distance(w, s)
      <3>1. w \in Int
        BY RangeMembers
      <3> QED  BY <2>1, <3>1, RangeMembers DEF Clamp, Distance
    <2> QED  BY <2>1, <2>2, <2>3, <2>4
  <1>6. ASSUME val \in U16
        PROVE  /\ CalibrateRainfall(val, offset) \in U16
               /\ \A w \in U16 : Distance(CalibrateRainfall(val, offset), val + offset)
                                     <= Distance(w, val + offset)
    <2>1. PICK s \in Int : s = val + offset
      BY <1>0
    <2>2. CalibrateRainfall(val, offset) = Clamp(s, 0, MaxU16)
      BY <2>1 DEF CalibrateRainfall
    <2>3. Clamp(s, 0, MaxU16) \in U16
      BY <2>1, RangeMembers DEF Clamp
    <2>4. ASSUME NEW w \in U16
          PROVE  Distance(Clamp(s, 0, MaxU16), s) <= Distance(w, s)
      <3>1. w \in Int
        BY RangeMembers
      <3> QED  BY <2>1, <3>1, RangeMembers DEF Clamp, Distance
    <2> QED  BY <2>1, <2>2, <2>3, <2>4
  <1> QED  BY <1>1, <1>2, <1>4, <1>5, <1>6

\* For any set of inputs, and so for all of them: calibrate gives the nearest value of
\* the metric's range, but for a percentage whose i16 sum overflows (sensor.rs).
THEOREM FirmwareCalibrationNearest == Spec => []CalibrationNearest
  <1>1. CalibrationNearest
    <2> SUFFICES ASSUME NEW val \in Edges, NEW offset \in Edges \cap I16
                 PROVE  /\ val \in U8 =>
                               IF Overflows(val, offset)
                               THEN CalibratePercent(val, offset) = 0
                               ELSE /\ CalibratePercent(val, offset) \in 0 .. 100
                                    /\ \A w \in Edges \cap (0 .. 100) :
                                          Distance(CalibratePercent(val, offset), val + offset)
                                              <= Distance(w, val + offset)
                        /\ val \in I16 =>
                               /\ CalibrateTemp(val, offset) \in I16
                               /\ \A w \in Edges \cap I16 :
                                     Distance(CalibrateTemp(val, offset), val + offset)
                                         <= Distance(w, val + offset)
                        /\ val \in U16 =>
                               /\ CalibrateRainfall(val, offset) \in U16
                               /\ \A w \in Edges \cap U16 :
                                     Distance(CalibrateRainfall(val, offset), val + offset)
                                         <= Distance(w, val + offset)
      BY DEF CalibrationNearest
    <2> QED  BY FirmwareAssumption, CalibrateNearest
  <1> QED  BY <1>1, PTL

(***************************************************************************)
(* The inductive invariant.  The pieces at the peer, on the way and still  *)
(* to be written form one stream, in which every piece is the successor of *)
(* the one before it.                                                      *)
(***************************************************************************)

SampleType == [sensor : Sensors, n : Nat]
PacketType == [sample : SampleType, id : 0 .. IdCount - 1]
PieceType == [packet : PacketType, piece : 1 .. PacketLen]

Types ==
    /\ taken \in Nat
    /\ queue \in Seq(SampleType)
    /\ pc \in {"connect", "provision", "unanswered", "failed", "receive", "send"}
    /\ link \in {"closed", "up", "silent", "down"}
    /\ packet \in Seq(PacketType) /\ Len(packet) <= 1
    /\ written \in 0 .. PacketLen
    /\ seq \in 0 .. IdCount - 1
    /\ tx \in Seq(PieceType) /\ rx \in Seq(PieceType)
    /\ delivered \in Seq(Seq(PieceType))
    /\ dropped \subseteq SampleType
    /\ pc = "send" <=> packet # <<>>
    /\ pc = "connect" <=> link = "closed"
    /\ link \in {"closed", "down"} => tx = <<>>

\* y is the piece after x.
Follows(x, y) ==
    IF x.piece < PacketLen
    THEN y.packet = x.packet /\ y.piece = x.piece + 1
    ELSE y.piece = 1 /\ y.packet.id = (x.packet.id + 1) % IdCount

\* y is the piece after what the peer has read.
Starts(y) ==
    IF rx # <<>>
    THEN y.packet = rx[1].packet /\ y.piece = Len(rx) + 1
    ELSE y.piece = 1 /\ y.packet.id = Len(delivered) % IdCount

\* y is the piece after what the socket has taken.
Continues(y) == IF tx # <<>> THEN Follows(tx[Len(tx)], y) ELSE Starts(y)

\* The socket has taken whole packets, the last of them numbered id - 1.
Boundary(id) ==
    IF tx # <<>>
    THEN tx[Len(tx)].piece = PacketLen /\ id = (tx[Len(tx)].packet.id + 1) % IdCount
    ELSE rx = <<>> /\ id = Len(delivered) % IdCount

NextPiece == [packet |-> packet[1], piece |-> written + 1]

\* The peer's side of the stream.
Chain ==
    /\ \A i \in 1 .. Len(delivered) :
          /\ Len(delivered[i]) = PacketLen
          /\ \A k \in 1 .. PacketLen :
                delivered[i][k].packet = delivered[i][1].packet /\ delivered[i][k].piece = k
          /\ delivered[i][1].packet.id = (i - 1) % IdCount
    /\ Len(rx) < PacketLen
    /\ \A k \in 1 .. Len(rx) : rx[k].packet = rx[1].packet /\ rx[k].piece = k
    /\ rx # <<>> => rx[1].packet.id = Len(delivered) % IdCount
    /\ tx # <<>> => Starts(tx[1])
    /\ \A k \in 1 .. Len(tx) : k > 1 => Follows(tx[k - 1], tx[k])

\* The engine's side of it, as long as the connection holds.
Sending ==
    link # "down" =>
        /\ pc = "send" => packet[1].id = seq
        /\ pc = "send" /\ written < PacketLen => Continues(NextPiece)
        /\ pc = "send" /\ written = PacketLen => Boundary((seq + 1) % IdCount)
        /\ pc # "send" => Boundary(seq)

Num(x) == x.packet.sample.n

Before(x, y) == Num(x) < Num(y) \/ (x.packet = y.packet /\ x.piece < y.piece)

\* Samples keep the order in which they were taken.
StreamOrder ==
    /\ \A i, j \in 1 .. Len(delivered) : i < j => Num(delivered[i][1]) < Num(delivered[j][1])
    /\ \A i \in 1 .. Len(delivered), k \in 1 .. Len(rx) : Num(delivered[i][1]) < Num(rx[k])
    /\ \A i \in 1 .. Len(delivered), k \in 1 .. Len(tx) : Num(delivered[i][1]) < Num(tx[k])
    /\ \A j \in 1 .. Len(rx), k \in 1 .. Len(tx) : Before(rx[j], tx[k])
    /\ \A j, k \in 1 .. Len(tx) : j < k => Before(tx[j], tx[k])

EngineOrder ==
    link # "down" =>
        /\ \A j \in 1 .. Len(queue) :
              /\ queue[j].n <= taken
              /\ \A i \in 1 .. Len(queue) : i < j => queue[i].n < queue[j].n
              /\ \A i \in 1 .. Len(delivered) : Num(delivered[i][1]) < queue[j].n
              /\ \A i \in 1 .. Len(rx) : Num(rx[i]) < queue[j].n
              /\ \A i \in 1 .. Len(tx) : Num(tx[i]) < queue[j].n
              /\ pc = "send" => packet[1].sample.n < queue[j].n
        /\ pc = "send" => packet[1].sample.n <= taken
        /\ pc = "send" /\ written < PacketLen =>
              /\ \A i \in 1 .. Len(delivered) : Num(delivered[i][1]) < packet[1].sample.n
              /\ \A i \in 1 .. Len(rx) : Before(rx[i], NextPiece)
              /\ \A i \in 1 .. Len(tx) : Before(tx[i], NextPiece)

\* A sample with number m has not been dropped by the queue.
Kept(m) ==
    \/ \E i \in 1 .. Len(queue) : queue[i].n = m
    \/ pc = "send" /\ written < PacketLen /\ packet[1].sample.n = m
    \/ \E i \in 1 .. Len(tx) : Num(tx[i]) = m
    \/ \E i \in 1 .. Len(rx) : Num(rx[i]) = m
    \/ \E i \in 1 .. Len(delivered) : Num(delivered[i][1]) = m

Refused(m) == \E x \in dropped : x.n = m

\* As long as the connection holds every sample is in one of the places.
Placed ==
    link # "down" =>
        /\ discarded = {}
        /\ \A m \in Nat : Kept(m) \/ Refused(m) => 1 <= m /\ m <= taken
        /\ \A m \in Nat : ~(Kept(m) /\ Refused(m))
        /\ \A m \in 1 .. taken : Kept(m) \/ Refused(m)

FirmwareInv == Types /\ Chain /\ Sending /\ StreamOrder /\ EngineOrder /\ Placed

(***************************************************************************)
(* Reading ids wrap around.                                                *)
(***************************************************************************)

LEMMA QuotientRemainder ==
    ASSUME NEW a \in Nat, NEW N \in Nat \ {0}
    PROVE  /\ a % N \in 0 .. N - 1
           /\ a \div N \in Nat
           /\ a % N = a - N * (a \div N)
  <1>1. a % N \in 0 .. N - 1
    OBVIOUS
  <1>2. a \div N \in Nat
    OBVIOUS
  <1>3. a % N = a - N * (a \div N)
    BY Z3
  <1> QED  BY <1>1, <1>2, <1>3

LEMMA RemainderOf ==
    ASSUME NEW N \in Nat \ {0}, NEW a \in Nat, NEW q \in Nat, NEW r \in Nat,
           r < N, a = N * q + r
    PROVE  a % N = r
  OBVIOUS

\* Wrapping at every increment counts modulo N.
LEMMA NextNumber ==
    ASSUME NEW a \in Nat, NEW N \in Nat \ {0}
    PROVE  ((a % N) + 1) % N = (a + 1) % N
  <1> DEFINE q == a \div N
             r == a % N
             b == a + 1
  <1>1. q \in Nat /\ r \in Nat /\ r < N /\ b \in Nat
    BY QuotientRemainder
  <1>2. a = N * q + r
    BY QuotientRemainder
  <1>3. b = N * q + r + 1
    BY <1>2
  <1> HIDE DEF q, r, b
  <1>4. CASE r + 1 < N
    <2>1. PICK s \in Nat : s = r + 1
      BY <1>1
    <2>2. b = N * q + s /\ s < N
      BY <1>1, <1>3, <1>4, <2>1
    <2>3. b % N = s
      BY <1>1, <2>2, RemainderOf
    <2>4. (r + 1) % N = r + 1
      BY <1>1, <1>4
    <2> QED  BY <2>1, <2>3, <2>4 DEF r, b
  <1>5. CASE r + 1 = N
    <2>1. PICK p \in Nat : p = q + 1
      BY <1>1
    <2>2. b = N * p + 0
      BY <1>1, <1>3, <1>5, <2>1
    <2>3. b % N = 0
      BY <1>1, <2>2, RemainderOf
    <2>4. N % N = 0
      OBVIOUS
    <2> QED  BY <1>5, <2>3, <2>4 DEF r, b
  <1> QED  BY <1>1, <1>4, <1>5

(***************************************************************************)
(* Every action keeps the invariant.                                       *)
(***************************************************************************)

USE FirmwareAssumption

LEMMA FirmwareInit == Init => FirmwareInv
  <1> SUFFICES ASSUME Init PROVE FirmwareInv
    OBVIOUS
  <1> USE DEF Init
  <1>1. Types  BY DEF Types
  <1>2. Chain  BY DEF Chain
  <1>3. Sending
    <2>1. 0 % IdCount = 0
      OBVIOUS
    <2> QED  BY <2>1 DEF Sending, Boundary
  <1>4. StreamOrder  BY DEF StreamOrder
  <1>5. EngineOrder  BY DEF EngineOrder
  <1>6. Placed  BY DEF Placed, Kept, Refused
  <1> QED  BY <1>1, <1>2, <1>3, <1>4, <1>5, <1>6 DEF FirmwareInv

LEMMA StreamUnchanged ==
    ASSUME Chain, StreamOrder, UNCHANGED <<delivered, rx, tx>>
    PROVE  Chain' /\ StreamOrder'
  BY DEF Chain, StreamOrder, Starts, Follows, Before, Num

LEMMA SampleNumber == \A x \in SampleType : x.n \in Nat
  BY DEF SampleType

LEMMA PieceFields ==
    \A x \in PieceType : /\ x.packet \in PacketType
                         /\ x.packet.id \in 0 .. IdCount - 1
                         /\ x.piece \in 1 .. PacketLen
                         /\ Num(x) \in Nat
  BY SampleNumber DEF PieceType, PacketType, Num

\* All the numbers in the stream are natural numbers.
LEMMA Numbers ==
    ASSUME Types, Chain
    PROVE  /\ Len(queue) \in Nat /\ Len(delivered) \in Nat /\ Len(rx) \in Nat /\ Len(tx) \in Nat
           /\ \A i \in 1 .. Len(queue) : queue[i] \in SampleType /\ queue[i].n \in Nat
           /\ \A i \in 1 .. Len(delivered) : delivered[i][1] \in PieceType
                                             /\ Num(delivered[i][1]) \in Nat
           /\ \A i \in 1 .. Len(rx) : rx[i] \in PieceType /\ Num(rx[i]) \in Nat
           /\ \A i \in 1 .. Len(tx) : tx[i] \in PieceType /\ Num(tx[i]) \in Nat
           /\ pc = "send" => /\ Len(packet) = 1 /\ packet[1] \in PacketType
                             /\ packet[1].sample \in SampleType /\ packet[1].sample.n \in Nat
  <1>1. /\ Len(queue) \in Nat
        /\ \A i \in 1 .. Len(queue) : queue[i] \in SampleType
    BY DEF Types
  <1>2. /\ Len(tx) \in Nat
        /\ \A i \in 1 .. Len(tx) : tx[i] \in PieceType
    BY DEF Types
  <1>3. /\ Len(rx) \in Nat
        /\ \A i \in 1 .. Len(rx) : rx[i] \in PieceType
    BY DEF Types
  <1>4. /\ Len(delivered) \in Nat
        /\ \A i \in 1 .. Len(delivered) : delivered[i][1] \in PieceType
    <2>1. delivered \in Seq(Seq(PieceType))
      BY DEF Types
    <2>2. ASSUME NEW i \in 1 .. Len(delivered)
          PROVE  delivered[i] \in Seq(PieceType) /\ Len(delivered[i]) = PacketLen
      BY <2>1 DEF Chain
    <2> QED  BY <2>1, <2>2
  <1>5. pc = "send" => Len(packet) = 1 /\ packet[1] \in PacketType
    <2>1. /\ packet \in Seq(PacketType) /\ Len(packet) <= 1
          /\ pc = "send" => packet # <<>>
      BY DEF Types
    <2>2. packet # <<>> => Len(packet) # 0
      BY <2>1, EmptySeq, Zenon
    <2>3. Len(packet) \in Nat
      BY <2>1
    <2>4. pc = "send" => Len(packet) # 0
      BY <2>1, <2>2, Zenon
    <2>5. ASSUME Len(packet) # 0 PROVE Len(packet) = 1
      BY <2>1, <2>3, <2>5
    <2>6. ASSUME Len(packet) = 1 PROVE packet[1] \in PacketType
      <3>1. packet \in Seq(PacketType) /\ 1 \in 1 .. Len(packet)
        BY <2>1, <2>6
      <3> QED  BY <3>1, ElementOfSeq
    <2> QED  BY <2>4, <2>5, <2>6, Zenon
  <1>6. pc = "send" => packet[1].sample \in SampleType
    BY <1>5 DEF PacketType
  <1> QED  BY <1>1, <1>2, <1>3, <1>4, <1>5, <1>6, SampleNumber, PieceFields

\* What Append does to a sequence.
LEMMA AppendAt ==
    ASSUME NEW S, NEW q \in Seq(S), NEW x \in S
    PROVE  /\ Append(q, x) \in Seq(S)
           /\ Len(Append(q, x)) = Len(q) + 1
           /\ Len(q) \in Nat
           /\ \A i \in 1 .. Len(q) : Append(q, x)[i] = q[i]
           /\ Append(q, x)[Len(q) + 1] = x
  OBVIOUS

LEMMA SampleStep ==
    ASSUME FirmwareInv, NEW s \in Sensors, Sample(s)
    PROVE  FirmwareInv'
  <1>w. taken \in Nat
    BY DEF FirmwareInv, Types
  <1>v. [sensor |-> s, n |-> taken + 1] \in SampleType
    BY <1>w DEF SampleType
  <1>x. PICK sample \in SampleType : sample = [sensor |-> s, n |-> taken + 1]
    BY <1>v, Zenon
  <1> USE DEF FirmwareInv
  <1>0. /\ UNCHANGED <<link, tx, rx, delivered, pc, packet, written, seq, discarded>>
        /\ taken' = taken + 1 /\ taken \in Nat /\ sample.n = taken + 1
    BY <1>x DEF Sample, engine, Types
  <1>q. \/ queue' = Append(queue, sample) /\ dropped' = dropped
        \/ queue' = queue /\ dropped' = dropped \cup {sample}
    BY <1>x DEF Sample
  <1>t. queue \in Seq(SampleType) /\ dropped \subseteq SampleType
    BY DEF Types
  <1>a. ASSUME queue' = Append(queue, sample)
        PROVE  /\ queue' \in Seq(SampleType)
               /\ Len(queue') = Len(queue) + 1 /\ Len(queue) \in Nat
               /\ \A i \in 1 .. Len(queue) : queue'[i] = queue[i]
               /\ queue'[Len(queue) + 1] = sample
    BY <1>t, <1>a, AppendAt
  <1>1. Types'
    <2>1. queue' \in Seq(SampleType) /\ dropped' \subseteq SampleType
      BY <1>q, <1>t, <1>a
    <2> QED  BY <1>0, <2>1 DEF Types
  <1>2. Chain' /\ StreamOrder'
    BY <1>0, StreamUnchanged
  <1>3. Sending'
    BY <1>0 DEF Sending, Boundary, Continues, Starts, Follows, NextPiece
  <1>4. ASSUME NEW m \in Nat
        PROVE  \/ /\ Kept(m)' <=> Kept(m) \/ m = taken + 1
                  /\ Refused(m)' <=> Refused(m)
               \/ /\ Kept(m)' <=> Kept(m)
                  /\ Refused(m)' <=> Refused(m) \/ m = taken + 1
    <2>1. CASE queue' = Append(queue, sample) /\ dropped' = dropped
      <3>1. (\E i \in 1 .. Len(queue') : queue'[i].n = m)
               <=> (\E i \in 1 .. Len(queue) : queue[i].n = m) \/ m = taken + 1
        <4>1. ASSUME NEW i \in 1 .. Len(queue'), queue'[i].n = m
              PROVE  (\E k \in 1 .. Len(queue) : queue[k].n = m) \/ m = taken + 1
          BY <1>0, <1>a, <2>1, <4>1
        <4>2. ASSUME NEW i \in 1 .. Len(queue), queue[i].n = m
              PROVE  i \in 1 .. Len(queue') /\ queue'[i].n = m
          BY <1>a, <2>1, <4>2
        <4>3. Len(queue) + 1 \in 1 .. Len(queue') /\ queue'[Len(queue) + 1].n = taken + 1
          BY <1>0, <1>a, <2>1
        <4> QED  BY <4>1, <4>2, <4>3
      <3>2. Refused(m)' <=> Refused(m)
        BY <2>1 DEF Refused
      <3>3. Kept(m)' <=> Kept(m) \/ m = taken + 1
        BY <1>0, <3>1 DEF Kept, Num
      <3> QED  BY <3>2, <3>3
    <2>2. CASE queue' = queue /\ dropped' = dropped \cup {sample}
      <3>1. Kept(m)' <=> Kept(m)
        BY <1>0, <2>2 DEF Kept, Num
      <3>2. Refused(m)' <=> Refused(m) \/ m = taken + 1
        BY <1>0, <2>2 DEF Refused
      <3> QED  BY <3>1, <3>2
    <2> QED  BY <1>q, <2>1, <2>2
  <1>5. EngineOrder'
    <2> SUFFICES ASSUME link # "down" PROVE EngineOrder'
      BY <1>0 DEF EngineOrder
    <2>1. CASE queue' = queue
      <3>1. \A j \in 1 .. Len(queue) : queue[j].n \in Nat /\ queue[j].n <= taken + 1
        BY <1>0, Numbers DEF EngineOrder
      <3>2. pc = "send" => packet[1].sample.n <= taken + 1
        BY <1>0, Numbers DEF EngineOrder
      <3> QED  BY <1>0, <2>1, <3>1, <3>2 DEF EngineOrder, NextPiece, Before, Num
    <2>2. CASE queue' = Append(queue, sample)
      <3>0. \A j \in 1 .. Len(queue) : queue[j].n \in Nat
        BY Numbers
      <3>1. /\ \A i \in 1 .. Len(queue) : queue[i].n < taken + 1
            /\ \A i \in 1 .. Len(delivered) : Num(delivered[i][1]) < taken + 1
            /\ \A i \in 1 .. Len(rx) : Num(rx[i]) < taken + 1
            /\ \A i \in 1 .. Len(tx) : Num(tx[i]) < taken + 1
        <4>1. taken \in Nat
          BY DEF Types
        <4>2. ASSUME NEW m \in Nat, Kept(m)
              PROVE  m < taken + 1
          <5>1. m <= taken
            BY <4>2 DEF Placed
          <5> QED  BY <4>1, <5>1
        <4>3. \A i \in 1 .. Len(queue) : queue[i].n \in Nat /\ Kept(queue[i].n)
          BY Numbers DEF Kept
        <4>4. \A i \in 1 .. Len(delivered) : Num(delivered[i][1]) \in Nat /\ Kept(Num(delivered[i][1]))
          BY Numbers DEF Kept
        <4>5. \A i \in 1 .. Len(rx) : Num(rx[i]) \in Nat /\ Kept(Num(rx[i]))
          BY Numbers DEF Kept
        <4>6. \A i \in 1 .. Len(tx) : Num(tx[i]) \in Nat /\ Kept(Num(tx[i]))
          BY Numbers DEF Kept
        <4> QED  BY <4>2, <4>3, <4>4, <4>5, <4>6, Zenon
      <3>2. pc = "send" => packet[1].sample.n < taken + 1
        BY <1>0, Numbers DEF EngineOrder
      <3>3. ASSUME NEW j \in 1 .. Len(queue')
            PROVE  \/ j \in 1 .. Len(queue) /\ queue'[j] = queue[j]
                   \/ j = Len(queue) + 1 /\ queue'[j].n = taken + 1
        BY <1>0, <1>a, <2>2
      <3>4. ASSUME NEW j \in 1 .. Len(queue')
            PROVE  /\ queue'[j].n <= taken'
                   /\ \A i \in 1 .. Len(queue') : i < j => queue'[i].n < queue'[j].n
        <4>1. \A i \in 1 .. Len(queue) : queue[i].n <= taken + 1
          BY <1>0, <3>0, <3>1
        <4>2. ASSUME NEW i \in 1 .. Len(queue'), i < j
              PROVE  i \in 1 .. Len(queue)
          BY <1>a, <2>2, <4>2
        <4> QED  BY <1>0, <3>1, <3>3, <4>1, <4>2, SMTT(30) DEF EngineOrder
      <3>5. ASSUME NEW j \in 1 .. Len(queue')
            PROVE  /\ \A i \in 1 .. Len(delivered) : Num(delivered[i][1]) < queue'[j].n
                   /\ \A i \in 1 .. Len(rx) : Num(rx[i]) < queue'[j].n
                   /\ \A i \in 1 .. Len(tx) : Num(tx[i]) < queue'[j].n
                   /\ pc = "send" => packet[1].sample.n < queue'[j].n
        BY <3>1, <3>2, <3>3 DEF EngineOrder
      <3>6. pc = "send" => packet[1].sample.n <= taken'
        BY <1>0, Numbers DEF EngineOrder
      <3> QED  BY <1>0, <3>4, <3>5, <3>6 DEF EngineOrder, NextPiece, Before, Num
    <2> QED  BY <1>q, <2>1, <2>2
  <1>6. Placed'
    <2> SUFFICES ASSUME link # "down" PROVE Placed'
      BY <1>0 DEF Placed
    <2>1. ~Kept(taken + 1) /\ ~Refused(taken + 1)
      BY <1>0 DEF Placed
    <2>2. discarded' = {}
      BY <1>0 DEF Placed
    <2>3. \A m \in Nat : Kept(m)' \/ Refused(m)' => 1 <= m /\ m <= taken'
      BY <1>0, <1>4 DEF Placed
    <2>4. \A m \in Nat : ~(Kept(m)' /\ Refused(m)')
      BY <1>4, <2>1 DEF Placed
    <2>5. \A m \in 1 .. taken' : Kept(m)' \/ Refused(m)'
      BY <1>0, <1>4 DEF Placed
    <2> QED  BY <2>2, <2>3, <2>4, <2>5 DEF Placed
  <1> QED  BY <1>1, <1>2, <1>3, <1>5, <1>6

LEMMA StartStep == FirmwareInv /\ (EngineStarts \/ LinkStalls \/ LinkResumes) => FirmwareInv'
  <1> SUFFICES ASSUME FirmwareInv, EngineStarts \/ LinkStalls \/ LinkResumes PROVE FirmwareInv'
    OBVIOUS
  <1> USE DEF FirmwareInv
  <1>0. /\ UNCHANGED <<taken, queue, packet, written, seq, tx, rx, delivered, dropped, discarded>>
        /\ pc' \in {"connect", "provision", "unanswered", "receive", "send", "failed"}
        /\ (pc = "send") = (pc' = "send") /\ pc' # "connect"
        /\ link' \in {"up", "silent", "down"} /\ (link = "down" => link' = "down")
    BY DEF EngineStarts, Connect, Provision, ProvisionCutShort, ProvisionFails, LinkStalls,
           LinkResumes, engine, Goto, Types
  <1>2. Types'
    <2>1. link' = "down" => tx = <<>>
      BY DEF EngineStarts, Connect, Provision, ProvisionCutShort, ProvisionFails, LinkStalls,
             LinkResumes, Goto, Types
    <2> QED  BY <1>0, <2>1 DEF Types
  <1>3. Chain' /\ StreamOrder'
    BY <1>0, StreamUnchanged
  <1>4. Sending'
    BY <1>0 DEF Sending, Boundary, Continues, Starts, Follows, NextPiece
  <1>5. EngineOrder'
    BY <1>0 DEF EngineOrder, Num, Before, NextPiece
  <1>6. Placed'
    BY <1>0 DEF Placed, Kept, Refused, Num
  <1> QED  BY <1>2, <1>3, <1>4, <1>5, <1>6

LEMMA SentStep == FirmwareInv /\ Sent => FirmwareInv'
  <1> SUFFICES ASSUME FirmwareInv, Sent PROVE FirmwareInv'
    OBVIOUS
  <1> USE DEF FirmwareInv
  <1>0. /\ UNCHANGED <<taken, queue, link, tx, rx, delivered, dropped, discarded>>
        /\ pc = "send" /\ pc' = "receive" /\ written = PacketLen
        /\ packet' = <<>> /\ written' = 0 /\ seq' = (seq + 1) % IdCount
    BY DEF Sent, Goto
  <1>1. Types'
    <2>1. seq' \in 0 .. IdCount - 1
      <3>1. seq + 1 \in Nat
        BY DEF Types
      <3> QED  BY <1>0, <3>1, QuotientRemainder
    <2> QED  BY <1>0, <2>1 DEF Types
  <1>2. Chain' /\ StreamOrder'
    BY <1>0, StreamUnchanged
  <1>3. Sending'
    BY <1>0 DEF Sending, Boundary
  <1>4. EngineOrder'
    BY <1>0 DEF EngineOrder, Num
  <1>5. Placed'
    BY <1>0 DEF Placed, Kept, Refused, Num
  <1> QED  BY <1>1, <1>2, <1>3, <1>4, <1>5

LEMMA FailedStep == FirmwareInv /\ (SendFails \/ LinkFails) => FirmwareInv'
  <1> SUFFICES ASSUME FirmwareInv, SendFails \/ LinkFails PROVE FirmwareInv'
    OBVIOUS
  <1> USE DEF FirmwareInv
  <1>0. UNCHANGED <<taken, queue, rx, delivered, dropped>> /\ tx' = <<>> /\ link' = "down"
    BY DEF SendFails, LinkFails, Goto, Types
  <1>1. Types'
    <2>1. CASE SendFails
      <3>1. seq' \in 0 .. IdCount - 1
        <4>1. seq + 1 \in Nat
          BY DEF Types
        <4> QED  BY <2>1, <4>1, QuotientRemainder DEF SendFails
      <3> QED  BY <1>0, <2>1, <3>1 DEF Types, SendFails, Goto
    <2>2. CASE LinkFails
      BY <1>0, <2>2 DEF Types, LinkFails, engine
    <2> QED  BY <2>1, <2>2
  <1>2. Chain' /\ StreamOrder'
    BY <1>0 DEF Chain, StreamOrder, Num
  <1>3. Sending' /\ EngineOrder' /\ Placed'
    BY <1>0 DEF Sending, EngineOrder, Placed
  <1> QED  BY <1>1, <1>2, <1>3

LEMMA ReceiveStep == FirmwareInv /\ Receive => FirmwareInv'
  <1> SUFFICES ASSUME FirmwareInv, Receive PROVE FirmwareInv'
    OBVIOUS
  <1> USE DEF FirmwareInv
  <1>0. /\ UNCHANGED <<taken, link, seq, tx, rx, delivered, dropped, discarded>>
        /\ pc = "receive" /\ pc' = "send" /\ written' = 0
        /\ queue' = Tail(queue) /\ queue # <<>>
        /\ packet' = <<[sample |-> Head(queue), id |-> seq]>>
    BY DEF Receive
  <1>a. /\ queue' \in Seq(SampleType) /\ Len(queue') = Len(queue) - 1 /\ Len(queue) \in Nat \ {0}
        /\ \A i \in 1 .. Len(queue') : queue'[i] = queue[i + 1]
        /\ Head(queue) = queue[1] /\ queue[1] \in SampleType
    <2>1. queue \in Seq(SampleType)
      BY DEF Types
    <2> QED  BY <1>0, <2>1
  <1>b. /\ packet'[1] = [sample |-> queue[1], id |-> seq]
        /\ packet'[1].sample = queue[1] /\ packet'[1].id = seq
        /\ packet' \in Seq(PacketType) /\ Len(packet') = 1 /\ packet' # <<>>
    <2>1. [sample |-> queue[1], id |-> seq] \in PacketType
      BY <1>a DEF PacketType, Types
    <2> QED  BY <1>0, <1>a, <2>1
  <1>1. Types'
    <2>1. link # "closed"
      BY <1>0 DEF Types
    <2> QED  BY <1>0, <1>a, <1>b, <2>1 DEF Types
  <1>2. Chain' /\ StreamOrder'
    BY <1>0, StreamUnchanged
  <1>c. /\ NextPiece'.packet = packet'[1] /\ NextPiece'.piece = 1
    BY <1>0 DEF NextPiece
  <1>3. Sending'
    <2> SUFFICES ASSUME link # "down" PROVE Sending'
      BY <1>0 DEF Sending
    <2>1. Boundary(seq)
      BY <1>0 DEF Sending
    <2>2. Continues(NextPiece)'
      <3>1. CASE tx # <<>>
        <4>1. ~(tx[Len(tx)].piece < PacketLen)
          BY <2>1, <3>1 DEF Boundary
        <4> QED  BY <1>0, <1>b, <1>c, <2>1, <3>1, <4>1 DEF Boundary, Continues, Follows
      <3>2. CASE tx = <<>>
        BY <1>0, <1>b, <1>c, <2>1, <3>2 DEF Boundary, Continues, Starts
      <3> QED  BY <3>1, <3>2
    <2> QED  BY <1>0, <1>b, <2>2 DEF Sending
  <1>4. EngineOrder'
    <2> SUFFICES ASSUME link # "down" PROVE EngineOrder'
      BY <1>0 DEF EngineOrder
    <2>1. ASSUME NEW j \in 1 .. Len(queue')
          PROVE  /\ j + 1 \in 1 .. Len(queue) /\ queue'[j] = queue[j + 1]
                 /\ 1 \in 1 .. Len(queue) /\ 1 < j + 1
      BY <1>a
    <2>2. ASSUME NEW j \in 1 .. Len(queue'), NEW i \in 1 .. Len(queue'), i < j
          PROVE  queue'[i].n < queue'[j].n
      <3>1. i + 1 < j + 1
        BY <1>a, <2>2
      <3> QED  BY <2>1, <3>1 DEF EngineOrder
    <2>3. ASSUME NEW j \in 1 .. Len(queue')
          PROVE  /\ queue'[j].n <= taken
                 /\ \A i \in 1 .. Len(delivered) : Num(delivered[i][1]) < queue'[j].n
                 /\ \A i \in 1 .. Len(rx) : Num(rx[i]) < queue'[j].n
                 /\ \A i \in 1 .. Len(tx) : Num(tx[i]) < queue'[j].n
                 /\ packet'[1].sample.n < queue'[j].n
      BY <1>b, <2>1 DEF EngineOrder
    <2>4. 1 \in 1 .. Len(queue)
      BY <1>a
    <2>5. /\ queue[1].n <= taken
          /\ \A i \in 1 .. Len(delivered) : Num(delivered[i][1]) < queue[1].n
          /\ \A i \in 1 .. Len(rx) : Num(rx[i]) < queue[1].n
          /\ \A i \in 1 .. Len(tx) : Num(tx[i]) < queue[1].n
      BY <2>4 DEF EngineOrder
    <2> QED  BY <1>0, <1>b, <1>c, <2>2, <2>3, <2>5 DEF EngineOrder, Before, Num
  <1>5. Placed'
    <2>1. 0 < PacketLen
      OBVIOUS
    <2>2. ASSUME NEW m \in Nat PROVE Kept(m)' <=> Kept(m)
      <3>1. (\E i \in 1 .. Len(queue) : queue[i].n = m)
               <=> (\E i \in 1 .. Len(queue') : queue'[i].n = m) \/ queue[1].n = m
        <4>1. ASSUME NEW i \in 1 .. Len(queue)
              PROVE  i = 1 \/ (i - 1 \in 1 .. Len(queue') /\ queue'[i - 1] = queue[i])
          BY <1>a
        <4>2. ASSUME NEW i \in 1 .. Len(queue')
              PROVE  i + 1 \in 1 .. Len(queue) /\ queue[i + 1] = queue'[i]
          BY <1>a
        <4>3. 1 \in 1 .. Len(queue)
          BY <1>a
        <4> QED  BY <4>1, <4>2, <4>3
      <3> QED  BY <1>0, <1>b, <2>1, <3>1 DEF Kept, Num
    <2> QED  BY <1>0, <2>2 DEF Placed, Refused
  <1> QED  BY <1>1, <1>2, <1>3, <1>4, <1>5

\* The socket takes some of the packet's pieces, in order.
LEMMA WriteShape ==
    ASSUME Types, Write
    PROVE  \E upto \in written + 1 .. PacketLen :
               /\ written' = upto
               /\ tx' \in Seq(PieceType)
               /\ Len(tx') = Len(tx) + (upto - written)
               /\ \A k \in 1 .. Len(tx) : tx'[k] = tx[k]
               /\ \A k \in Nat : Len(tx) < k /\ k <= Len(tx') =>
                     tx'[k].packet = packet[1] /\ tx'[k].piece = written + (k - Len(tx))
  <1> DEFINE room == TxCap - Len(tx)
             upto == IF PacketLen - written < room THEN PacketLen ELSE written + room
             new == Pieces(packet[1], written, upto)
  <1>1. /\ pc = "send" /\ written < PacketLen /\ Len(tx) < TxCap
        /\ tx' = tx \o new /\ written' = upto
    BY DEF Write
  <1>2. tx \in Seq(PieceType) /\ Len(tx) \in Nat /\ written \in 0 .. PacketLen
    BY DEF Types
  <1>3. upto \in written + 1 .. PacketLen
    BY <1>1, <1>2
  <1>4. packet[1] \in PacketType
    <2>1. packet \in Seq(PacketType) /\ packet # <<>>
      BY <1>1 DEF Types
    <2>2. Len(packet) # 0 /\ Len(packet) \in Nat
      BY <2>1, EmptySeq
    <2>3. 1 \in 1 .. Len(packet)
      BY <2>2
    <2> QED  BY <2>1, <2>3, ElementOfSeq
  <1> HIDE DEF upto
  <1>5. PICK d \in Nat : d = upto - written
    BY <1>2, <1>3
  <1>6. new = [k \in 1 .. d |-> [packet |-> packet[1], piece |-> written + k]]
    BY <1>5 DEF Pieces
  <1> HIDE DEF new
  <1>7. ASSUME NEW k \in 1 .. d
        PROVE  [packet |-> packet[1], piece |-> written + k] \in PieceType
    <2>1. written + k \in 1 .. PacketLen
      BY <1>2, <1>3, <1>5
    <2> QED  BY <1>4, <2>1 DEF PieceType
  <1>8. new \in Seq(PieceType) /\ Len(new) = d
    BY <1>5, <1>6, <1>7
  <1>9. /\ tx' \in Seq(PieceType)
        /\ Len(tx') = Len(tx) + Len(new)
        /\ \A k \in 1 .. Len(tx) + Len(new) : tx'[k] = IF k <= Len(tx) THEN tx[k]
                                                       ELSE new[k - Len(tx)]
    BY <1>1, <1>2, <1>8, ConcatProperties
  <1>10. ASSUME NEW k \in Nat, Len(tx) < k, k <= Len(tx')
         PROVE  tx'[k].packet = packet[1] /\ tx'[k].piece = written + (k - Len(tx))
    <2>1. /\ k \in 1 .. Len(tx) + Len(new) /\ ~(k <= Len(tx)) /\ k - Len(tx) \in 1 .. d
      BY <1>2, <1>5, <1>8, <1>9, <1>10
    <2>2. tx'[k] = new[k - Len(tx)]
      BY <1>9, <2>1
    <2> QED  BY <1>6, <2>1, <2>2
  <1>11. ASSUME NEW k \in 1 .. Len(tx) PROVE tx'[k] = tx[k]
    BY <1>2, <1>5, <1>8, <1>9
  <1> QED  BY <1>1, <1>3, <1>5, <1>8, <1>9, <1>10, <1>11

LEMMA WriteStep == FirmwareInv /\ Write => FirmwareInv'
  <1> SUFFICES ASSUME FirmwareInv, Write PROVE FirmwareInv'
    OBVIOUS
  <1> USE DEF FirmwareInv
  <1>0. /\ UNCHANGED <<taken, queue, link, packet, seq, rx, delivered, dropped, discarded>>
        /\ pc = "send" /\ pc' = "send" /\ link \in {"up", "silent"}
        /\ written \in Nat /\ written < PacketLen
    BY DEF Write, Goto, Types
  <1>1. PICK upto \in written + 1 .. PacketLen :
               /\ written' = upto
               /\ tx' \in Seq(PieceType)
               /\ Len(tx') = Len(tx) + (upto - written)
               /\ \A k \in 1 .. Len(tx) : tx'[k] = tx[k]
               /\ \A k \in Nat : Len(tx) < k /\ k <= Len(tx') =>
                     tx'[k].packet = packet[1] /\ tx'[k].piece = written + (k - Len(tx))
    BY WriteShape
  <1> DEFINE new == {k \in Nat : Len(tx) < k /\ k <= Len(tx')}
  <1>n. /\ Len(tx) \in Nat /\ Len(rx) \in Nat /\ Len(delivered) \in Nat /\ Len(queue) \in Nat
        /\ Len(tx') \in Nat /\ Len(tx') > Len(tx) /\ upto \in Nat /\ tx' # <<>>
        /\ tx # <<>> => Len(tx) > 0
    <2>1. Len(tx) \in Nat /\ Len(rx) \in Nat /\ Len(delivered) \in Nat /\ Len(queue) \in Nat
      BY Numbers
    <2>2. tx # <<>> => Len(tx) > 0
      BY <2>1, EmptySeq DEF Types
    <2>3. Len(tx') \in Nat /\ Len(tx') > Len(tx) /\ upto \in Nat
      BY <1>0, <1>1, <2>1
    <2>4. tx' # <<>>
      BY <1>1, <2>1, <2>3, EmptySeq
    <2> QED  BY <2>1, <2>2, <2>3, <2>4
  <1>a. ASSUME NEW k \in 1 .. Len(tx')
        PROVE  \/ k \in 1 .. Len(tx) /\ tx'[k] = tx[k]
               \/ /\ k \in new
                  /\ tx'[k].packet = packet[1] /\ tx'[k].piece = written + (k - Len(tx))
    BY <1>1, <1>n
  <1>b. tx'[Len(tx')].packet = packet[1] /\ tx'[Len(tx')].piece = upto
    <2>1. /\ tx'[Len(tx')].packet = packet[1]
          /\ tx'[Len(tx')].piece = written + (Len(tx') - Len(tx))
      BY <1>n, <1>a
    <2>2. written + (Len(tx') - Len(tx)) = upto
      BY <1>0, <1>1, <1>n
    <2> QED  BY <2>1, <2>2
  <1>2. Types'
    <2>1. written' \in 0 .. PacketLen
      BY <1>0, <1>1
    <2> QED  BY <1>0, <1>1, <2>1 DEF Types
  <1>c. tx'[Len(tx) + 1].packet = packet[1] /\ tx'[Len(tx) + 1].piece = written + 1
    <2>1. Len(tx) + 1 \in 1 .. Len(tx') /\ Len(tx) + 1 \notin 1 .. Len(tx)
      BY <1>n
    <2>2. /\ tx'[Len(tx) + 1].packet = packet[1]
          /\ tx'[Len(tx) + 1].piece = written + ((Len(tx) + 1) - Len(tx))
      BY <1>a, <2>1
    <2>3. written + ((Len(tx) + 1) - Len(tx)) = written + 1
      BY <1>0, <1>n
    <2> QED  BY <2>2, <2>3
  <1>d. Continues(NextPiece) /\ NextPiece.packet = packet[1] /\ NextPiece.piece = written + 1
    BY <1>0 DEF Sending, NextPiece
  <1>3. Chain'
    <2>1. Starts(tx[1])'
      <3>1. CASE tx = <<>>
        <4>1. Len(tx) = 0
          BY <3>1
        <4> QED  BY <1>0, <1>c, <1>d, <3>1, <4>1 DEF Continues, Starts
      <3>2. CASE tx # <<>>
        <4>1. tx'[1] = tx[1]
          BY <1>1, <1>n, <3>2
        <4> QED  BY <1>0, <3>2, <4>1 DEF Chain, Starts
      <3> QED  BY <3>1, <3>2
    <2>2. ASSUME NEW k \in 1 .. Len(tx'), k > 1
          PROVE  Follows(tx'[k - 1], tx'[k])
      <3>1. CASE k \in 1 .. Len(tx)
        <4>1. k - 1 \in 1 .. Len(tx)
          BY <1>n, <2>2, <3>1
        <4> QED  BY <1>1, <2>2, <3>1, <4>1 DEF Chain
      <3>2. CASE k = Len(tx) + 1
        <4>1. tx # <<>> /\ k - 1 = Len(tx) /\ Len(tx) \in 1 .. Len(tx)
          BY <1>n, <2>2, <3>2
        <4>2. tx'[k - 1] = tx[Len(tx)]
          BY <1>1, <4>1
        <4> QED  BY <1>c, <1>d, <3>2, <4>1, <4>2 DEF Continues, Follows
      <3>3. CASE k > Len(tx) + 1
        <4>1. k \in new /\ k - 1 \in new
          BY <1>n, <3>3
        <4>2. /\ tx'[k].packet = packet[1] /\ tx'[k].piece = written + (k - Len(tx))
              /\ tx'[k - 1].packet = packet[1]
              /\ tx'[k - 1].piece = written + (k - 1 - Len(tx))
          BY <1>1, <4>1
        <4>3. written + (k - 1 - Len(tx)) < PacketLen
          BY <1>0, <1>1, <1>n, <4>1
        <4> QED  BY <1>0, <1>n, <4>2, <4>3 DEF Follows
      <3> QED  BY <1>n, <3>1, <3>2, <3>3
    <2>3. \A k \in 1 .. Len(tx') : k > 1 => Follows(tx[k - 1], tx[k])'
      BY <2>2 DEF Follows
    <2> QED  BY <1>0, <2>1, <2>3 DEF Chain
  <1>4. Sending'
    <2>1. packet'[1].id = seq'
      BY <1>0 DEF Sending
    <2>2. ASSUME written' < PacketLen PROVE Continues(NextPiece)'
      BY <1>0, <1>1, <1>b, <1>n, <2>2 DEF Continues, Follows, NextPiece
    <2>3. ASSUME written' = PacketLen PROVE Boundary((seq + 1) % IdCount)'
      BY <1>0, <1>1, <1>b, <1>n, <2>1, <2>3 DEF Boundary
    <2> QED  BY <1>0, <2>1, <2>2, <2>3 DEF Sending
  <1>e. /\ \A i \in 1 .. Len(delivered) : Num(delivered[i][1]) < packet[1].sample.n
        /\ \A i \in 1 .. Len(rx) : Before(rx[i], NextPiece)
        /\ \A i \in 1 .. Len(tx) : Before(tx[i], NextPiece)
    BY <1>0 DEF EngineOrder
  <1>f. ASSUME NEW x \in PieceType, NEW y, Before(x, NextPiece), y.packet = packet[1],
               y.piece \in Nat, y.piece >= written + 1
        PROVE  Before(x, y)
    BY <1>0, <1>d, <1>f, PieceFields DEF Before, Num
  <1>5. StreamOrder'
    <2>1. \A i \in 1 .. Len(delivered), k \in 1 .. Len(tx') : Num(delivered[i][1]) < Num(tx'[k])
      BY <1>a, <1>e DEF StreamOrder, Num
    <2>2. ASSUME NEW k \in new
          PROVE  tx'[k].packet = packet[1] /\ tx'[k].piece \in Nat /\ tx'[k].piece >= written + 1
      <3>1. k \in Nat /\ Len(tx) < k /\ k <= Len(tx')
        OBVIOUS
      <3>2. tx'[k].packet = packet[1] /\ tx'[k].piece = written + (k - Len(tx))
        BY <1>1, <3>1
      <3>3. written + (k - Len(tx)) \in Nat /\ written + (k - Len(tx)) >= written + 1
        <4>1. \A w, n, l \in Nat : l < n => w + (n - l) \in Nat /\ w + (n - l) >= w + 1
          OBVIOUS
        <4> QED  BY <1>0, <1>n, <3>1, <4>1, Zenon
      <3> QED  BY <3>2, <3>3
    <2>3. ASSUME NEW j \in 1 .. Len(rx), NEW k \in 1 .. Len(tx') PROVE Before(rx[j], tx'[k])
      <3>1. CASE k \in 1 .. Len(tx)
        BY <1>1, <3>1 DEF StreamOrder
      <3>2. CASE k \in new
        BY <1>e, <1>f, <2>2, <3>2, Numbers
      <3> QED  BY <1>a, <3>1, <3>2
    <2>4. ASSUME NEW j \in 1 .. Len(tx'), NEW k \in 1 .. Len(tx'), j < k
          PROVE  Before(tx'[j], tx'[k])
      <3>1. CASE k \in 1 .. Len(tx)
        <4>1. j \in 1 .. Len(tx)
          BY <1>n, <2>4, <3>1
        <4> QED  BY <1>1, <2>4, <3>1, <4>1 DEF StreamOrder
      <3>2. CASE k \in new /\ j \in 1 .. Len(tx)
        BY <1>1, <1>e, <1>f, <2>2, <3>2, Numbers
      <3>3. CASE k \in new /\ j \in new
        <4>1. /\ tx'[j].packet = packet[1] /\ tx'[j].piece = written + (j - Len(tx))
              /\ tx'[k].packet = packet[1] /\ tx'[k].piece = written + (k - Len(tx))
          BY <1>1, <3>3
        <4> QED  BY <1>0, <1>n, <2>4, <4>1 DEF Before
      <3> QED  BY <1>a, <3>1, <3>2, <3>3
    <2> QED  BY <1>0, <2>1, <2>3, <2>4 DEF StreamOrder, Before, Num
  <1>6. EngineOrder'
    <2>1. ASSUME NEW j \in 1 .. Len(queue), NEW i \in 1 .. Len(tx')
          PROVE  Num(tx'[i]) < queue[j].n
      BY <1>0, <1>a DEF EngineOrder, Num
    <2>3. ASSUME NEW i \in 1 .. Len(tx') PROVE Before(tx'[i], NextPiece')
      <3>1. CASE i \in 1 .. Len(tx)
        <4>1. Before(tx[i], NextPiece')
          <5>1. NextPiece'.packet = packet[1] /\ NextPiece'.piece = upto + 1
            BY <1>0, <1>1 DEF NextPiece
          <5>2. NextPiece'.piece \in Nat /\ NextPiece'.piece >= written + 1
            BY <1>0, <1>1, <1>n, <5>1
          <5>3. tx[i] \in PieceType /\ Before(tx[i], NextPiece)
            BY <1>e, <3>1, Numbers
          <5> QED  BY <1>f, <5>1, <5>2, <5>3
        <4> QED  BY <1>1, <3>1, <4>1
      <3>2. CASE i \in new
        <4>1. tx'[i].packet = packet[1] /\ tx'[i].piece = written + (i - Len(tx))
          BY <1>1, <3>2
        <4>2. NextPiece'.packet = packet[1] /\ NextPiece'.piece = upto + 1
          BY <1>0, <1>1 DEF NextPiece
        <4> QED  BY <1>0, <1>1, <1>n, <3>2, <4>1, <4>2 DEF Before
      <3> QED  BY <1>a, <3>1, <3>2
    <2>4. ASSUME NEW i \in 1 .. Len(rx) PROVE Before(rx[i], NextPiece')
      <3>1. NextPiece'.packet = packet[1] /\ NextPiece'.piece = upto + 1
        BY <1>0, <1>1 DEF NextPiece
      <3>2. NextPiece'.piece \in Nat /\ NextPiece'.piece >= written + 1
        BY <1>0, <1>1, <1>n, <3>1
      <3>3. rx[i] \in PieceType /\ Before(rx[i], NextPiece)
        BY <1>e, Numbers
      <3> QED  BY <1>f, <3>1, <3>2, <3>3
    <2>5. /\ \A i \in 1 .. Len(tx') : Before(tx[i], NextPiece)'
          /\ \A i \in 1 .. Len(rx) : Before(rx[i], NextPiece)'
      BY <1>0, <2>3, <2>4 DEF Before, Num
    <2> QED  BY <1>0, <1>e, <2>1, <2>5 DEF EngineOrder, Num
  <1>7. Placed'
    <2>1. ASSUME NEW m \in Nat PROVE Kept(m)' <=> Kept(m)
      <3>1. (\E i \in 1 .. Len(tx') : Num(tx'[i]) = m)
               <=> (\E i \in 1 .. Len(tx) : Num(tx[i]) = m) \/ packet[1].sample.n = m
        <4>1. ASSUME NEW i \in 1 .. Len(tx), Num(tx[i]) = m
              PROVE  i \in 1 .. Len(tx') /\ Num(tx'[i]) = m
          BY <1>1, <1>n, <4>1
        <4>2. Len(tx) + 1 \in 1 .. Len(tx') /\ Num(tx'[Len(tx) + 1]) = packet[1].sample.n
          BY <1>c, <1>n DEF Num
        <4>3. ASSUME NEW i \in 1 .. Len(tx'), Num(tx'[i]) = m
              PROVE  (\E k \in 1 .. Len(tx) : Num(tx[k]) = m) \/ packet[1].sample.n = m
          BY <1>a, <4>3 DEF Num
        <4> QED  BY <4>1, <4>2, <4>3
      <3> QED  BY <1>0, <3>1 DEF Kept, Num
    <2> QED  BY <1>0, <2>1 DEF Placed, Refused
  <1> QED  BY <1>2, <1>3, <1>4, <1>5, <1>6, <1>7

\* What the peer has after a read, and what is still on the way.
LEMMA ReadShape ==
    ASSUME Types, Chain, PeerReads
    PROVE  /\ Len(tx) \in Nat \ {0} /\ Len(rx) \in Nat /\ Len(delivered) \in Nat
           /\ tx' \in Seq(PieceType) /\ Len(tx') = Len(tx) - 1
           /\ \A k \in 1 .. Len(tx') : tx'[k] = tx[k + 1]
           /\ tx[1] \in PieceType
           /\ tx[1].piece = Len(rx) + 1 /\ tx[1].packet.id = Len(delivered) % IdCount
           /\ rx' \in Seq(PieceType) /\ delivered' \in Seq(Seq(PieceType))
           /\ \/ /\ Len(rx) + 1 = PacketLen /\ rx' = <<>> /\ Len(rx') = 0
                 /\ Len(delivered') = Len(delivered) + 1
                 /\ \A i \in 1 .. Len(delivered) : delivered'[i] = delivered[i]
                 /\ Len(delivered'[Len(delivered) + 1]) = PacketLen
                 /\ \A k \in 1 .. PacketLen :
                       /\ delivered'[Len(delivered) + 1][k].packet = tx[1].packet
                       /\ delivered'[Len(delivered) + 1][k].piece = k
              \/ /\ Len(rx) + 1 < PacketLen /\ delivered' = delivered
                 /\ rx' # <<>> /\ Len(rx') = Len(rx) + 1
                 /\ \A k \in 1 .. Len(rx') : rx'[k].packet = tx[1].packet /\ rx'[k].piece = k
  <1> DEFINE got == Append(rx, Head(tx))
  <1>1. /\ tx # <<>> /\ tx' = Tail(tx)
        /\ \/ Len(got) = PacketLen /\ delivered' = Append(delivered, got) /\ rx' = <<>>
           \/ Len(got) # PacketLen /\ rx' = got /\ delivered' = delivered
    BY DEF PeerReads
  <1>2. tx \in Seq(PieceType) /\ rx \in Seq(PieceType) /\ delivered \in Seq(Seq(PieceType))
    BY DEF Types
  <1>3. /\ Len(tx) \in Nat \ {0} /\ tx' \in Seq(PieceType) /\ Len(tx') = Len(tx) - 1
        /\ \A k \in 1 .. Len(tx') : tx'[k] = tx[k + 1]
        /\ Head(tx) = tx[1] /\ tx[1] \in PieceType
    BY <1>1, <1>2
  <1>4. /\ Len(rx) \in Nat /\ got \in Seq(PieceType) /\ Len(got) = Len(rx) + 1
        /\ \A k \in 1 .. Len(rx) : got[k] = rx[k]
        /\ got[Len(rx) + 1] = tx[1]
    BY <1>2, <1>3, AppendAt
  <1>5. rx # <<>> => Len(rx) > 0
    BY <1>2, <1>4, EmptySeq
  <1>6. tx[1].piece = Len(rx) + 1 /\ tx[1].packet.id = Len(delivered) % IdCount
    <2>1. Starts(tx[1])
      BY <1>1 DEF Chain
    <2>2. CASE rx = <<>>
      <3>1. Len(rx) = 0
        BY <2>2
      <3> QED  BY <2>1, <2>2, <3>1 DEF Starts
    <2>3. CASE rx # <<>>
      BY <2>1, <2>3 DEF Starts, Chain
    <2> QED  BY <2>2, <2>3
  <1> HIDE DEF got
  <1>7. ASSUME NEW k \in 1 .. Len(rx) + 1
        PROVE  got[k].packet = tx[1].packet /\ got[k].piece = k
    <2>1. CASE k \in 1 .. Len(rx)
      <3>1. rx # <<>>
        BY <1>4, <2>1
      <3>2. Starts(tx[1])
        BY <1>1 DEF Chain
      <3>3. tx[1].packet = rx[1].packet
        BY <3>1, <3>2 DEF Starts
      <3> QED  BY <1>4, <2>1, <3>3 DEF Chain
    <2>2. CASE k = Len(rx) + 1
      BY <1>4, <1>6, <2>2
    <2> QED  BY <1>4, <2>1, <2>2
  <1>8. CASE Len(got) = PacketLen /\ delivered' = Append(delivered, got) /\ rx' = <<>>
    <2>1. /\ delivered' \in Seq(Seq(PieceType)) /\ Len(delivered) \in Nat
          /\ Len(delivered') = Len(delivered) + 1
          /\ \A i \in 1 .. Len(delivered) : delivered'[i] = delivered[i]
          /\ delivered'[Len(delivered) + 1] = got
      BY <1>2, <1>4, <1>8, AppendAt
    <2>2. rx' \in Seq(PieceType) /\ Len(rx') = 0 /\ Len(rx) + 1 = PacketLen
      BY <1>4, <1>8
    <2>3. /\ Len(delivered'[Len(delivered) + 1]) = PacketLen
          /\ \A k \in 1 .. PacketLen :
                /\ delivered'[Len(delivered) + 1][k].packet = tx[1].packet
                /\ delivered'[Len(delivered) + 1][k].piece = k
      BY <1>7, <1>8, <2>1, <2>2
    <2> QED  BY <1>3, <1>4, <1>6, <1>8, <2>1, <2>2, <2>3
  <1>9. CASE Len(got) # PacketLen /\ rx' = got /\ delivered' = delivered
    <2>1. Len(rx) + 1 < PacketLen
      BY <1>4, <1>9 DEF Chain
    <2>2. rx' # <<>> /\ Len(delivered) \in Nat
      BY <1>2, <1>4, <1>9, EmptySeq
    <2> QED  BY <1>2, <1>3, <1>4, <1>6, <1>7, <1>9, <2>1, <2>2
  <1> QED  BY <1>1, <1>8, <1>9

LEMMA PeerReadsStep == FirmwareInv /\ PeerReads => FirmwareInv'
  <1> SUFFICES ASSUME FirmwareInv, PeerReads PROVE FirmwareInv'
    OBVIOUS
  <1> USE DEF FirmwareInv
  <1>0. UNCHANGED <<taken, queue, link, dropped, pc, packet, written, seq, discarded>>
    BY DEF PeerReads, engine
  <1> DEFINE h == tx[1]
             Whole == /\ Len(rx) + 1 = PacketLen /\ rx' = <<>> /\ Len(rx') = 0
                      /\ Len(delivered') = Len(delivered) + 1
                      /\ \A i \in 1 .. Len(delivered) : delivered'[i] = delivered[i]
                      /\ Len(delivered'[Len(delivered) + 1]) = PacketLen
                      /\ \A k \in 1 .. PacketLen :
                            /\ delivered'[Len(delivered) + 1][k].packet = h.packet
                            /\ delivered'[Len(delivered) + 1][k].piece = k
             Part == /\ Len(rx) + 1 < PacketLen /\ delivered' = delivered
                     /\ rx' # <<>> /\ Len(rx') = Len(rx) + 1
                     /\ \A k \in 1 .. Len(rx') : rx'[k].packet = h.packet /\ rx'[k].piece = k
  <1>1. /\ Len(tx) \in Nat \ {0} /\ Len(rx) \in Nat /\ Len(delivered) \in Nat
        /\ tx' \in Seq(PieceType) /\ Len(tx') = Len(tx) - 1
        /\ \A k \in 1 .. Len(tx') : tx'[k] = tx[k + 1]
        /\ h \in PieceType
        /\ h.piece = Len(rx) + 1 /\ h.packet.id = Len(delivered) % IdCount
        /\ rx' \in Seq(PieceType) /\ delivered' \in Seq(Seq(PieceType))
    BY ReadShape
  <1>w. Whole \/ Part
    BY ReadShape
  <1>n. ((Len(delivered) % IdCount) + 1) % IdCount = (Len(delivered) + 1) % IdCount
    BY <1>1, NextNumber
  <1>f. h.packet \in PacketType /\ Num(h) \in Nat /\ h.piece \in 1 .. PacketLen
    BY <1>1, PieceFields
  <1>i. \A k \in 1 .. Len(tx') : k + 1 \in 1 .. Len(tx) /\ 1 < k + 1 /\ tx'[k] = tx[k + 1]
    BY <1>1
  <1>o. 1 \in 1 .. Len(tx)
    BY <1>1
  <1>2. Types'
    <2>1. link = "up"
      BY DEF PeerReads
    <2> QED  BY <1>0, <1>1, <2>1 DEF Types
  <1> DEFINE StartsNow(y) == IF rx' # <<>>
                             THEN y.packet = rx'[1].packet /\ y.piece = Len(rx') + 1
                             ELSE y.piece = 1 /\ y.packet.id = Len(delivered') % IdCount
  <1>3. ASSUME NEW y, Follows(h, y) PROVE StartsNow(y)
    <2>1. CASE Whole
      <3>1. ~(h.piece < PacketLen)
        BY <1>1, <2>1
      <3> QED  BY <1>1, <1>3, <1>n, <2>1, <3>1 DEF Follows
    <2>2. CASE Part
      <3>1. h.piece < PacketLen /\ rx'[1].packet = h.packet
        BY <1>1, <2>2
      <3> QED  BY <1>1, <1>3, <2>2, <3>1 DEF Follows
    <2> QED  BY <1>w, <2>1, <2>2
  <1>4. Chain'
    <2>1. ASSUME NEW i \in 1 .. Len(delivered')
          PROVE  /\ Len(delivered'[i]) = PacketLen
                 /\ \A k \in 1 .. PacketLen : /\ delivered'[i][k].packet = delivered'[i][1].packet
                                              /\ delivered'[i][k].piece = k
                 /\ delivered'[i][1].packet.id = (i - 1) % IdCount
      <3>1. CASE i \in 1 .. Len(delivered)
        BY <1>w, <3>1, SMTT(30) DEF Chain
      <3>2. CASE i \notin 1 .. Len(delivered)
        <4>1. Whole
          BY <1>w, <3>2
        <4>2. i = Len(delivered) + 1 /\ i - 1 = Len(delivered)
          BY <1>1, <3>2, <4>1
        <4>3. 1 \in 1 .. PacketLen
          OBVIOUS
        <4>4. /\ Len(delivered'[i]) = PacketLen
              /\ \A k \in 1 .. PacketLen : /\ delivered'[i][k].packet = h.packet
                                           /\ delivered'[i][k].piece = k
          BY <4>1, <4>2
        <4>5. h.packet.id = (i - 1) % IdCount
          BY <1>1, <4>2
        <4> QED  BY <4>3, <4>4, <4>5
      <3> QED  BY <3>1, <3>2
    <2>2. Len(rx') < PacketLen
      BY <1>1, <1>w
    <2>3. /\ \A k \in 1 .. Len(rx') : rx'[k].packet = rx'[1].packet /\ rx'[k].piece = k
          /\ rx' # <<>> => rx'[1].packet.id = Len(delivered') % IdCount
      BY <1>1, <1>w
    <2>4. ASSUME tx' # <<>> PROVE StartsNow(tx'[1])
      <3>1. 1 \in 1 .. Len(tx')
        BY <1>1, <2>4, EmptySeq
      <3>2. Follows(tx[1], tx[2])
        BY <1>1, <3>1 DEF Chain
      <3> QED  BY <1>1, <1>3, <3>1, <3>2
    <2>5. tx' # <<>> => Starts(tx[1])'
      BY <2>4 DEF Starts
    <2>6. ASSUME NEW k \in 1 .. Len(tx'), k > 1 PROVE Follows(tx'[k - 1], tx'[k])
      <3>1. /\ k \in Nat /\ k - 1 \in 1 .. Len(tx') /\ k + 1 \in 1 .. Len(tx) /\ k + 1 > 1
            /\ (k + 1) - 1 = k /\ (k - 1) + 1 = k
        BY <1>1, <2>6
      <3>2. Follows(tx[k], tx[k + 1])
        BY <3>1 DEF Chain
      <3> QED  BY <1>1, <3>1, <3>2
    <2>7. \A k \in 1 .. Len(tx') : k > 1 => Follows(tx[k - 1], tx[k])'
      BY <2>6 DEF Follows
    <2> QED  BY <2>1, <2>2, <2>3, <2>5, <2>7 DEF Chain
  <1>l. \/ tx' = <<>> /\ Len(tx) = 1
        \/ tx' # <<>> /\ tx'[Len(tx')] = tx[Len(tx)]
    <2>1. CASE Len(tx') = 0
      BY <1>1, <2>1, EmptySeq
    <2>2. CASE Len(tx') # 0
      <3>1. Len(tx') \in 1 .. Len(tx') /\ Len(tx') + 1 = Len(tx)
        BY <1>1, <2>2
      <3> QED  BY <1>1, <2>2, <3>1, EmptySeq
    <2> QED  BY <2>1, <2>2
  <1>m. tx # <<>>
    BY DEF PeerReads
  <1>5. Sending'
    <2>1. ASSUME Continues(NextPiece) PROVE Continues(NextPiece)'
      <3>1. Follows(tx[Len(tx)], NextPiece)
        BY <1>m, <2>1 DEF Continues
      <3>2. NextPiece' = NextPiece
        BY <1>0 DEF NextPiece
      <3>3. CASE tx' # <<>> /\ tx'[Len(tx')] = tx[Len(tx)]
        BY <3>1, <3>2, <3>3 DEF Continues, Follows
      <3>4. CASE tx' = <<>> /\ Len(tx) = 1
        <4>1. StartsNow(NextPiece)
          BY <1>3, <3>1, <3>4
        <4> QED  BY <3>2, <3>4, <4>1 DEF Continues, Starts
      <3> QED  BY <1>l, <3>3, <3>4
    <2>2. ASSUME NEW id, Boundary(id)
          PROVE  IF tx' # <<>>
                 THEN /\ tx'[Len(tx')].piece = PacketLen
                      /\ id = (tx'[Len(tx')].packet.id + 1) % IdCount
                 ELSE rx' = <<>> /\ id = Len(delivered') % IdCount
      <3>1. /\ tx[Len(tx)].piece = PacketLen
            /\ id = (tx[Len(tx)].packet.id + 1) % IdCount
        BY <1>m, <2>2 DEF Boundary
      <3>2. CASE tx' # <<>> /\ tx'[Len(tx')] = tx[Len(tx)]
        BY <3>1, <3>2
      <3>3. CASE tx' = <<>> /\ Len(tx) = 1
        <4>1. Whole
          BY <1>1, <1>w, <3>1, <3>3
        <4> QED  BY <1>1, <1>n, <3>1, <3>3, <4>1
      <3> QED  BY <1>l, <3>2, <3>3
    <2>3. Boundary(seq) => Boundary(seq)'
      BY <1>0, <2>2 DEF Boundary
    <2>4. Boundary((seq + 1) % IdCount) => Boundary((seq + 1) % IdCount)'
      BY <1>0, <2>2 DEF Boundary
    <2> QED  BY <1>0, <2>1, <2>3, <2>4 DEF Sending
  <1> HIDE DEF StartsNow
  <1>p. ASSUME Whole PROVE Num(delivered'[Len(delivered) + 1][1]) = Num(h)
    <2>1. 1 \in 1 .. PacketLen
      OBVIOUS
    <2> QED  BY <1>p, <2>1 DEF Num
  <1>q. ASSUME Part, NEW k \in 1 .. Len(rx')
        PROVE  \/ k \in 1 .. Len(rx) /\ rx'[k].packet = rx[k].packet /\ rx'[k].piece = rx[k].piece
               \/ rx'[k].packet = h.packet /\ rx'[k].piece = h.piece
    <2>1. CASE k \in 1 .. Len(rx)
      <3>1. rx # <<>>
        BY <1>1, <2>1
      <3>2. Starts(h)
        BY <1>m DEF Chain
      <3> QED  BY <1>q, <2>1, <3>1, <3>2 DEF Starts, Chain
    <2>2. CASE k = Len(rx) + 1
      BY <1>1, <1>q, <2>2
    <2> QED  BY <1>1, <1>q, <2>1, <2>2
  <1>r. ASSUME NEW i \in 1 .. Len(delivered')
        PROVE  \/ i \in 1 .. Len(delivered) /\ delivered'[i] = delivered[i]
               \/ Whole /\ i = Len(delivered) + 1 /\ Num(delivered'[i][1]) = Num(h)
    <2>1. CASE i \in 1 .. Len(delivered)
      BY <1>w, <2>1
    <2>2. CASE i \notin 1 .. Len(delivered)
      <3>1. Whole
        BY <1>w, <2>2
      <3>2. i = Len(delivered) + 1
        BY <1>1, <2>2, <3>1
      <3> QED  BY <1>p, <3>1, <3>2
    <2> QED  BY <2>1, <2>2
  <1>6. StreamOrder'
    <2>1. ASSUME NEW i \in 1 .. Len(delivered'), NEW j \in 1 .. Len(delivered'), i < j
          PROVE  Num(delivered'[i][1]) < Num(delivered'[j][1])
      <3>1. i \in 1 .. Len(delivered) /\ delivered'[i] = delivered[i]
        <4>1. Len(delivered') \in Nat /\ Len(delivered') <= Len(delivered) + 1
          <5>1. CASE Whole
            BY <1>1, <5>1
          <5>2. CASE Part
            BY <1>1, <5>2
          <5> QED  BY <1>w, <5>1, <5>2
        <4>2. i # Len(delivered) + 1
          BY <1>1, <2>1, <4>1
        <4> QED  BY <1>r, <4>2
      <3>2. CASE j \in 1 .. Len(delivered) /\ delivered'[j] = delivered[j]
        BY <2>1, <3>1, <3>2 DEF StreamOrder
      <3>3. CASE Num(delivered'[j][1]) = Num(h)
        BY <1>o, <3>1, <3>3 DEF StreamOrder
      <3> QED  BY <1>r, <3>2, <3>3
    <2>2. ASSUME NEW i \in 1 .. Len(delivered'), NEW k \in 1 .. Len(rx')
          PROVE  Num(delivered'[i][1]) < Num(rx'[k])
      <3>1. Part
        BY <1>w, <2>2
      <3>2. i \in 1 .. Len(delivered) /\ delivered'[i] = delivered[i]
        BY <3>1
      <3> QED  BY <1>o, <1>q, <3>1, <3>2 DEF StreamOrder, Num
    <2>3. ASSUME NEW i \in 1 .. Len(delivered'), NEW k \in 1 .. Len(tx')
          PROVE  Num(delivered'[i][1]) < Num(tx'[k])
      <3>1. CASE i \in 1 .. Len(delivered) /\ delivered'[i] = delivered[i]
        BY <1>i, <3>1 DEF StreamOrder
      <3>2. CASE Whole /\ i = Len(delivered) + 1 /\ Num(delivered'[i][1]) = Num(h)
        <4>1. Before(h, tx[k + 1])
          BY <1>i, <1>o DEF StreamOrder
        <4>2. tx[k + 1].piece \in 1 .. PacketLen
          BY <1>i, Numbers, PieceFields
        <4>3. ~(h.piece < tx[k + 1].piece)
          BY <1>1, <3>2, <4>2
        <4> QED  BY <1>i, <3>2, <4>1, <4>3 DEF Before
      <3> QED  BY <1>r, <3>1, <3>2
    <2>4. ASSUME NEW j \in 1 .. Len(rx'), NEW k \in 1 .. Len(tx') PROVE Before(rx'[j], tx'[k])
      <3>1. Part
        BY <1>w, <2>4
      <3>2. Before(h, tx[k + 1]) /\ tx'[k] = tx[k + 1]
        BY <1>i, <1>o DEF StreamOrder
      <3>3. \A l \in 1 .. Len(rx) : Before(rx[l], tx[k + 1])
        BY <1>i DEF StreamOrder
      <3> QED  BY <1>q, <3>1, <3>2, <3>3 DEF Before, Num
    <2>5. ASSUME NEW j \in 1 .. Len(tx'), NEW k \in 1 .. Len(tx'), j < k
          PROVE  Before(tx'[j], tx'[k])
      <3>1. j + 1 < k + 1
        BY <1>1, <2>5
      <3> QED  BY <1>i, <3>1 DEF StreamOrder
    <2> QED  BY <2>1, <2>2, <2>3, <2>4, <2>5 DEF StreamOrder, Before, Num
  <1>7. EngineOrder'
    <2> SUFFICES ASSUME link # "down" PROVE EngineOrder'
      BY <1>0 DEF EngineOrder
    <2>1. ASSUME NEW j \in 1 .. Len(queue)
          PROVE  /\ \A i \in 1 .. Len(delivered') : Num(delivered'[i][1]) < queue[j].n
                 /\ \A i \in 1 .. Len(rx') : Num(rx'[i]) < queue[j].n
                 /\ \A i \in 1 .. Len(tx') : Num(tx'[i]) < queue[j].n
      <3>1. Num(h) < queue[j].n
        BY <1>o DEF EngineOrder
      <3>2. \A i \in 1 .. Len(delivered') : Num(delivered'[i][1]) < queue[j].n
        BY <1>r, <3>1 DEF EngineOrder
      <3>3. \A i \in 1 .. Len(tx') : Num(tx'[i]) < queue[j].n
        BY <1>i DEF EngineOrder
      <3>4. ASSUME NEW i \in 1 .. Len(rx') PROVE Num(rx'[i]) < queue[j].n
        <4>1. Part
          BY <1>w, <3>4
        <4> QED  BY <1>q, <3>1, <4>1 DEF EngineOrder, Num
      <3> QED  BY <3>2, <3>3, <3>4
    <2>2. ASSUME pc = "send", written < PacketLen
          PROVE  /\ \A i \in 1 .. Len(delivered') : Num(delivered'[i][1]) < packet[1].sample.n
                 /\ \A i \in 1 .. Len(rx') : Before(rx'[i], NextPiece)
                 /\ \A i \in 1 .. Len(tx') : Before(tx'[i], NextPiece)
      <3>1. Before(h, NextPiece)
        BY <1>o, <2>2 DEF EngineOrder
      <3>2. ASSUME Whole PROVE Num(h) < packet[1].sample.n
        <4>1. NextPiece.piece = written + 1 /\ NextPiece.packet = packet[1] /\ written \in Nat
          BY DEF NextPiece, Types
        <4>2. ~(h.piece < NextPiece.piece)
          BY <1>1, <2>2, <3>2, <4>1
        <4> QED  BY <3>1, <4>1, <4>2 DEF Before, Num
      <3>3. \A i \in 1 .. Len(delivered') : Num(delivered'[i][1]) < packet[1].sample.n
        BY <1>r, <2>2, <3>2 DEF EngineOrder
      <3>4. \A i \in 1 .. Len(tx') : Before(tx'[i], NextPiece)
        BY <1>i, <2>2 DEF EngineOrder
      <3>5. ASSUME NEW i \in 1 .. Len(rx') PROVE Before(rx'[i], NextPiece)
        <4>1. Part
          BY <1>w, <3>5
        <4>2. \A k \in 1 .. Len(rx) : Before(rx[k], NextPiece)
          BY <2>2 DEF EngineOrder
        <4> QED  BY <1>q, <3>1, <4>1, <4>2 DEF Before, Num
      <3> QED  BY <3>3, <3>4, <3>5
    <2>3. NextPiece' = NextPiece
      BY <1>0 DEF NextPiece
    <2> QED  BY <1>0, <2>1, <2>2, <2>3 DEF EngineOrder, Before, Num
  <1>8. Placed'
    <2>1. ASSUME NEW m \in Nat PROVE Kept(m)' <=> Kept(m)
      <3> DEFINE InTx == \E i \in 1 .. Len(tx) : Num(tx[i]) = m
                 InRx == \E i \in 1 .. Len(rx) : Num(rx[i]) = m
                 Has  == \E i \in 1 .. Len(delivered) : Num(delivered[i][1]) = m
                 InTxNow == \E i \in 1 .. Len(tx') : Num(tx'[i]) = m
                 InRxNow == \E i \in 1 .. Len(rx') : Num(rx'[i]) = m
                 HasNow  == \E i \in 1 .. Len(delivered') : Num(delivered'[i][1]) = m
      <3>1. InTx <=> InTxNow \/ Num(h) = m
        <4>1. ASSUME NEW i \in 1 .. Len(tx)
              PROVE  i = 1 \/ (i - 1 \in 1 .. Len(tx') /\ tx'[i - 1] = tx[i])
          BY <1>1
        <4> QED  BY <1>i, <1>o, <4>1
      <3>2. CASE Whole
        <4>1. HasNow <=> Has \/ Num(h) = m
          <5>1. ASSUME NEW i \in 1 .. Len(delivered)
                PROVE  i \in 1 .. Len(delivered') /\ delivered'[i] = delivered[i]
            BY <1>1, <3>2
          <5>2. Len(delivered) + 1 \in 1 .. Len(delivered')
            BY <1>1, <3>2
          <5> QED  BY <1>p, <1>r, <3>2, <5>1, <5>2
        <4>2. InRx => Num(h) = m
          <5>1. ASSUME NEW i \in 1 .. Len(rx) PROVE rx[i].packet = h.packet
            <6>1. rx # <<>> /\ Starts(h)
              BY <1>1, <1>m DEF Chain
            <6> QED  BY <6>1 DEF Starts, Chain
          <5> QED  BY <5>1 DEF Num
        <4>3. ~InRxNow
          BY <3>2
        <4> QED  BY <1>0, <3>1, <4>1, <4>2, <4>3 DEF Kept, Num
      <3>3. CASE Part
        <4>1. InRxNow <=> InRx \/ Num(h) = m
          <5>1. ASSUME NEW i \in 1 .. Len(rx)
                PROVE  i \in 1 .. Len(rx') /\ Num(rx'[i]) = Num(h) /\ Num(rx[i]) = Num(h)
            <6>1. rx # <<>> /\ Starts(h)
              BY <1>1, <1>m DEF Chain
            <6>2. rx[i].packet = h.packet
              BY <6>1 DEF Starts, Chain
            <6>3. i \in 1 .. Len(rx')
              BY <1>1, <3>3
            <6> QED  BY <3>3, <6>2, <6>3 DEF Num
          <5>2. ASSUME NEW i \in 1 .. Len(rx') PROVE Num(rx'[i]) = Num(h)
            BY <3>3 DEF Num
          <5>3. Len(rx) + 1 \in 1 .. Len(rx')
            BY <1>1, <3>3
          <5> QED  BY <5>1, <5>2, <5>3
        <4> QED  BY <1>0, <3>1, <3>3, <4>1 DEF Kept, Num
      <3> QED  BY <1>w, <3>2, <3>3
    <2> QED  BY <1>0, <2>1 DEF Placed, Refused
  <1> QED  BY <1>2, <1>4, <1>5, <1>6, <1>7, <1>8

LEMMA FirmwareStep == FirmwareInv /\ [Next]_vars => FirmwareInv'
  <1> SUFFICES ASSUME FirmwareInv, [Next]_vars PROVE FirmwareInv'
    OBVIOUS
  <1>1. CASE UNCHANGED vars
    <2> USE <1>1 DEF vars, FirmwareInv
    <2>1. Types'  BY DEF Types
    <2>2. Chain' /\ StreamOrder'
      <3>1. UNCHANGED <<delivered, rx, tx>>
        OBVIOUS
      <3> QED  BY <3>1, StreamUnchanged
    <2>3. Sending'
      BY DEF Sending, Boundary, Continues, Starts, Follows, NextPiece
    <2>4. EngineOrder'
      BY DEF EngineOrder, NextPiece, Before, Num
    <2>5. Placed'
      BY DEF Placed, Kept, Refused, Num
    <2> QED  BY <2>1, <2>2, <2>3, <2>4, <2>5
  <1>2. CASE Next
    BY <1>2, SampleStep, StartStep, ReceiveStep, WriteStep, SentStep, FailedStep, PeerReadsStep
       DEF Next, EngineStep, Network
  <1> QED  BY <1>1, <1>2

(***************************************************************************)
(* The theorems.                                                           *)
(***************************************************************************)

LEMMA FirmwareInvariant == Spec => []FirmwareInv
  BY FirmwareInit, FirmwareStep, PTL DEF Spec

\* For every number of samples and every size of the socket's buffer and of a packet:
\* what the peer frames out of the stream (engine.rs and the socket's write_all) are the
\* packets the engine sent, whole, in order and numbered without a gap.
THEOREM FirmwarePacketsWhole == Spec => []PacketsWhole
  <1>1. FirmwareInv => PacketsWhole
    <2> SUFFICES ASSUME FirmwareInv, NEW i \in DOMAIN delivered
                 PROVE  LET p == delivered[i][1].packet
                        IN /\ \A k \in 1 .. PacketLen :
                                 delivered[i][k] = [packet |-> p, piece |-> k]
                           /\ p.id = (i - 1) % IdCount
                           /\ i > 1 => delivered[i - 1][1].packet.sample.n < p.sample.n
      BY DEF PacketsWhole
    <2> USE DEF FirmwareInv
    <2>1. delivered \in Seq(Seq(PieceType))
      BY DEF Types
    <2>2. i \in 1 .. Len(delivered) /\ Len(delivered) \in Nat
      BY <2>1
    <2>3. delivered[i] \in Seq(PieceType) /\ Len(delivered[i]) = PacketLen
      BY <2>1, <2>2 DEF Chain
    <2>4. ASSUME NEW k \in 1 .. PacketLen
          PROVE  delivered[i][k] = [packet |-> delivered[i][1].packet, piece |-> k]
      <3>1. delivered[i][k] \in PieceType
        BY <2>3
      <3>2. /\ delivered[i][k].packet = delivered[i][1].packet
            /\ delivered[i][k].piece = k
        BY <2>2 DEF Chain
      <3> QED  BY <3>1, <3>2 DEF PieceType
    <2>5. delivered[i][1].packet.id = (i - 1) % IdCount
      BY <2>2 DEF Chain
    <2>6. ASSUME i > 1
          PROVE  delivered[i - 1][1].packet.sample.n < delivered[i][1].packet.sample.n
      <3>1. i - 1 \in 1 .. Len(delivered) /\ i - 1 < i
        BY <2>2, <2>6
      <3> QED  BY <2>2, <3>1 DEF StreamOrder, Num
    <2> QED  BY <2>4, <2>5, <2>6
  <1> QED  BY <1>1, FirmwareInvariant, PTL

\* For every queue depth and number of samples: while the connection holds a sample that
\* was taken is in exactly one place (the queue of engine.rs, the packet in hand, the
\* stream, the peer) or was refused by the full queue, and none is lost without a trace.
THEOREM FirmwareSamplesAccounted == Spec => []SamplesAccounted
  <1>1. FirmwareInv => SamplesAccounted
    <2> SUFFICES ASSUME FirmwareInv, link # "down"
                 PROVE  LET places == <<dropped, InQueue, InHand, OnTheWay, Arrived>>
                        IN /\ {x.n : x \in UNION Range(places)} = 1 .. taken
                           /\ \A i, j \in DOMAIN places :
                                 i # j => places[i] \cap places[j] = {}
                           /\ discarded = {}
      BY DEF SamplesAccounted
    <2> USE DEF FirmwareInv
    <2> DEFINE places == <<dropped, InQueue, InHand, OnTheWay, Arrived>>
    <2>n. /\ taken \in Nat /\ written \in Nat
          /\ DOMAIN queue = 1 .. Len(queue) /\ DOMAIN tx = 1 .. Len(tx)
          /\ DOMAIN rx = 1 .. Len(rx) /\ DOMAIN delivered = 1 .. Len(delivered)
          /\ dropped \subseteq SampleType
      BY DEF Types
    <2>q. InQueue = {queue[i] : i \in 1 .. Len(queue)}
      BY <2>n DEF InQueue
    <2>a. Arrived = {delivered[i][1].packet.sample : i \in 1 .. Len(delivered)}
      BY <2>n DEF Arrived
    <2>h. InHand = IF pc = "send" /\ written < PacketLen THEN {packet[1].sample} ELSE {}
      <3>1. DOMAIN packet = IF pc = "send" THEN {1} ELSE {}
        <4>1. packet \in Seq(PacketType) /\ (pc # "send" => packet = <<>>)
          BY DEF Types
        <4>2. pc = "send" => Len(packet) = 1
          BY Numbers
        <4> QED  BY <4>1, <4>2
      <3> QED  BY <3>1 DEF InHand
    <2>o. OnTheWay = ({tx[i].packet.sample : i \in 1 .. Len(tx)}
                          \cup {rx[i].packet.sample : i \in 1 .. Len(rx)}) \ InHand
      BY <2>n DEF OnTheWay, Range
    <2>1. discarded = {}
      BY DEF Placed
    <2>t. \A x \in dropped \cup InQueue \cup InHand \cup OnTheWay \cup Arrived : x.n \in Nat
      BY <2>n, <2>q, <2>a, <2>h, <2>o, Numbers, SampleNumber DEF Num
    <2>2. \A m \in Nat : /\ Refused(m) <=> \E x \in dropped : x.n = m
                         /\ Kept(m) <=> \E x \in InQueue \cup InHand \cup OnTheWay \cup Arrived :
                                           x.n = m
      BY <2>q, <2>a, <2>h, <2>o DEF Kept, Refused, Num
    <2>3. UNION Range(places) = dropped \cup InQueue \cup InHand \cup OnTheWay \cup Arrived
      BY DEF Range
    <2>4. {x.n : x \in UNION Range(places)} = 1 .. taken
      <3>1. ASSUME NEW x \in UNION Range(places) PROVE x.n \in 1 .. taken
        <4>1. x.n \in Nat
          BY <2>t, <2>3
        <4>2. Kept(x.n) \/ Refused(x.n)
          BY <2>2, <2>3, <4>1
        <4> QED  BY <2>n, <4>1, <4>2 DEF Placed
      <3>2. ASSUME NEW m \in 1 .. taken PROVE \E x \in UNION Range(places) : x.n = m
        BY <2>n, <2>2, <2>3 DEF Placed
      <3> QED  BY <3>1, <3>2
    <2>5. ASSUME NEW x \in dropped
          PROVE  x \notin InQueue /\ x \notin InHand /\ x \notin OnTheWay /\ x \notin Arrived
      BY <2>t, <2>2 DEF Placed
    <2>6. ASSUME NEW x \in InQueue
          PROVE  x \notin InHand /\ x \notin OnTheWay /\ x \notin Arrived
      <3>1. PICK j \in 1 .. Len(queue) : x = queue[j]
        BY <2>q
      <3>2. /\ x.n \in Nat
            /\ \A i \in 1 .. Len(delivered) : delivered[i][1].packet.sample.n < x.n
            /\ \A i \in 1 .. Len(rx) : rx[i].packet.sample.n < x.n
            /\ \A i \in 1 .. Len(tx) : tx[i].packet.sample.n < x.n
            /\ pc = "send" => packet[1].sample.n < x.n
        BY <3>1, Numbers DEF EngineOrder, Num
      <3> QED  BY <2>a, <2>h, <2>o, <3>2
    <2>7. ASSUME NEW x \in InHand PROVE x \notin OnTheWay /\ x \notin Arrived
      <3>1. /\ x = packet[1].sample /\ x.n \in Nat
            /\ \A i \in 1 .. Len(delivered) : delivered[i][1].packet.sample.n < x.n
        BY <2>h, Numbers DEF EngineOrder, Num
      <3> QED  BY <2>a, <2>o, <3>1
    <2>8. ASSUME NEW x \in Arrived PROVE x \notin OnTheWay
      <3>1. PICK i \in 1 .. Len(delivered) : x = delivered[i][1].packet.sample
        BY <2>a
      <3>2. /\ x.n \in Nat
            /\ \A k \in 1 .. Len(rx) : x.n < rx[k].packet.sample.n
            /\ \A k \in 1 .. Len(tx) : x.n < tx[k].packet.sample.n
        BY <3>1, Numbers DEF StreamOrder, Num
      <3> QED  BY <2>o, <3>2
    <2>9. \A i, j \in DOMAIN places : i # j => places[i] \cap places[j] = {}
      <3>1. /\ dropped \cap InQueue = {} /\ dropped \cap InHand = {}
            /\ dropped \cap OnTheWay = {} /\ dropped \cap Arrived = {}
            /\ InQueue \cap InHand = {} /\ InQueue \cap OnTheWay = {}
            /\ InQueue \cap Arrived = {} /\ InHand \cap OnTheWay = {}
            /\ InHand \cap Arrived = {} /\ OnTheWay \cap Arrived = {}
        BY <2>5, <2>6, <2>7, <2>8
      <3>2. DOMAIN places = 1 .. 5
        OBVIOUS
      <3> QED  BY <3>1, <3>2
    <2> QED  BY <2>1, <2>4, <2>9
  <1> QED  BY <1>1, FirmwareInvariant, PTL

=============================================================================

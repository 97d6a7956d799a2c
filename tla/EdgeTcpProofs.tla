---------------------------- MODULE EdgeTcpProofs ----------------------------
(***************************************************************************)
(* Proofs about module EdgeTcp, for any number of handlers and messages and*)
(* any capacity of the channel.                                            *)
(***************************************************************************)
EXTENDS EdgeTcp, FiniteSetTheorems, TLAPS

Disconnection == [device: Handlers, reason: Reasons]

\* Appending to a sequence.
LEMMA AppendElement ==
    ASSUME NEW S, NEW s \in Seq(S), NEW e \in S
    PROVE  /\ Append(s, e) \in Seq(S)
           /\ Len(Append(s, e)) = Len(s) + 1
           /\ DOMAIN s = 1..Len(s) /\ DOMAIN Append(s, e) = 1..(Len(s) + 1)
           /\ \A i \in 1..Len(s) : Append(s, e)[i] = s[i]
           /\ Append(s, e)[Len(s) + 1] = e
  OBVIOUS

\* Dropping the head of a sequence.
LEMMA TailElements ==
    ASSUME NEW S, NEW s \in Seq(S), s # <<>>
    PROVE  Head(s) \in S /\ Tail(s) \in Seq(S) /\ Len(Tail(s)) = Len(s) - 1
  OBVIOUS

\* The elements of a sequence.
LEMMA Element ==
    ASSUME NEW S, NEW s \in Seq(S), NEW i \in DOMAIN s
    PROVE  s[i] \in S
  OBVIOUS

\* What one read returns is a sequence of messages with a number of readings in it.
LEMMA ChunkType ==
    ASSUME NEW c \in Chunks
    PROVE  c \in Seq(Kinds) /\ ReadingsIn(c) \in Nat
  <1>1. PICK k \in 1..MaxChunk : c \in [1..k -> Kinds]
    BY DEF Chunks
  <1>2. k \in Nat
    BY EdgeTcpAssumption, <1>1
  <1>3. c \in Seq(Kinds)
    BY <1>1, <1>2
  <1>4. IsFiniteSet(DOMAIN c)
    BY <1>1, <1>2, FS_Interval
  <1>5. IsFiniteSet({i \in DOMAIN c : c[i] = "reading"})
    BY <1>4, FS_Subset
  <1> QED  BY <1>3, <1>5, FS_CardinalityType DEF ReadingsIn

\* The strengthening that is inductive: who is being served is counted, and who has
\* been reported has ended and is not counted.  A handler that sends has what it
\* sends in buf.
SendsFromBuf == \A h \in Handlers : hpc[h] = "sending" => buf[h] # <<>>
EdgeInv == TypeOK /\ DisconnectedOnce /\ ServedAreConnected /\ SendsFromBuf

\* Initially no device is connected and none has been reported.
LEMMA EdgeInit == Init => EdgeInv
  <1> SUFFICES ASSUME Init PROVE EdgeInv
    OBVIOUS
  <1>1. /\ buf \in [Handlers -> Seq(Kinds)]
        /\ disconnections \in Seq(Disconnection) /\ DOMAIN disconnections = {}
        /\ edge_chan \in Seq(Handlers) /\ Len(edge_chan) <= EdgeChanCap
    BY EdgeTcpAssumption DEF Init
  <1>2. TypeOK
    BY <1>1 DEF Init, TypeOK, Disconnection
  <1> QED  BY <1>1, <1>2
           DEF EdgeInv, Init, DisconnectedOnce, ServedAreConnected, SendsFromBuf, Live

\* Every way out through device_disconnected reports a device that had not been
\* reported, because its handler was still serving it.
LEMMA Disconnects ==
    ASSUME EdgeInv, NEW h \in Handlers, NEW r \in Reasons, Live(h),
           device_disconnected(h, r),
           UNCHANGED <<listening, stopping, arrived, passed, edge_chan, rx>>
    PROVE  EdgeInv'
  <1> DEFINE e == [device |-> h, reason |-> r]
  <1>1. disconnections \in Seq(Disconnection) /\ e \in Disconnection
        /\ disconnections' = Append(disconnections, e)
    BY DEF EdgeInv, TypeOK, Disconnection, device_disconnected
  <1>2. /\ disconnections' \in Seq(Disconnection)
        /\ DOMAIN disconnections = 1..Len(disconnections)
        /\ DOMAIN disconnections' = 1..(Len(disconnections) + 1)
        /\ \A i \in 1..Len(disconnections) : disconnections'[i] = disconnections[i]
        /\ disconnections'[Len(disconnections) + 1] = e
        /\ Len(disconnections) \in Nat
    BY <1>1, AppendElement
  <1>3. <<>> \in Seq(Kinds)
    OBVIOUS
  <1>4. TypeOK'
    BY <1>2, <1>3 DEF EdgeInv, TypeOK, Disconnection, device_disconnected
  <1>5. ASSUME NEW i \in 1..Len(disconnections)
        PROVE  disconnections[i].device \in Handlers \ {h}
    <2>1. disconnections[i] \in Disconnection
      BY <1>1, <1>2, Element
    <2>2. hpc[disconnections[i].device] = "ended"
      BY <1>2 DEF EdgeInv, DisconnectedOnce
    <2> QED  BY <2>1, <2>2 DEF Disconnection, Live
  <1>6. DisconnectedOnce'
    <2>1. ASSUME NEW i \in DOMAIN disconnections', NEW j \in DOMAIN disconnections',
                 disconnections'[i].device = disconnections'[j].device
          PROVE  i = j
      <3>1. CASE i \in 1..Len(disconnections) /\ j \in 1..Len(disconnections)
        BY <1>2, <2>1, <3>1 DEF EdgeInv, DisconnectedOnce
      <3>2. CASE i = Len(disconnections) + 1 \/ j = Len(disconnections) + 1
        BY <1>2, <1>5, <2>1, <3>2
      <3> QED  BY <1>2, <2>1, <3>1, <3>2
    <2>2. ASSUME NEW i \in DOMAIN disconnections'
          PROVE  /\ hpc'[disconnections'[i].device] = "ended"
                 /\ disconnections'[i].device \notin connected_devices'
      <3>1. CASE i \in 1..Len(disconnections)
        BY <1>2, <1>5, <3>1 DEF EdgeInv, TypeOK, DisconnectedOnce, device_disconnected
      <3>2. CASE i = Len(disconnections) + 1
        BY <1>2, <3>2 DEF EdgeInv, TypeOK, device_disconnected
      <3> QED  BY <1>2, <2>2, <3>1, <3>2
    <2> QED  BY <2>1, <2>2 DEF DisconnectedOnce
  <1>7. ServedAreConnected'
    BY DEF EdgeInv, TypeOK, ServedAreConnected, Live, device_disconnected
  <1>8. SendsFromBuf'
    BY DEF EdgeInv, TypeOK, SendsFromBuf, device_disconnected
  <1> QED  BY <1>4, <1>6, <1>7, <1>8 DEF EdgeInv

\* A step that reports nobody, takes no served device off the count and moves no
\* ended handler keeps the two safety parts.
LEMMA ReportsNobody ==
    ASSUME EdgeInv, TypeOK', disconnections' = disconnections,
           \A g \in Handlers : hpc[g] = "ended" => hpc'[g] = "ended",
           \A g \in connected_devices' : g \in connected_devices \/ hpc[g] # "ended",
           \A g \in Handlers : Live(g)' => g \in connected_devices',
           SendsFromBuf'
    PROVE  EdgeInv'
  <1>1. DisconnectedOnce'
    <2>1. ASSUME NEW i \in DOMAIN disconnections
          PROVE  /\ disconnections[i].device \in Handlers
                 /\ hpc[disconnections[i].device] = "ended"
                 /\ disconnections[i].device \notin connected_devices
      <3>1. disconnections[i] \in Disconnection
        BY Element DEF EdgeInv, TypeOK, Disconnection
      <3> QED  BY <3>1 DEF EdgeInv, DisconnectedOnce, Disconnection
    <2> QED  BY <2>1 DEF EdgeInv, DisconnectedOnce
  <1> QED  BY <1>1 DEF EdgeInv, ServedAreConnected

\* Every step keeps the invariant.
LEMMA EdgeStep == EdgeInv /\ [Next]_vars => EdgeInv'
  <1> SUFFICES ASSUME EdgeInv, [Next]_vars PROVE EdgeInv'
    OBVIOUS
  <1> USE DEF EdgeInv
  <1>1. ASSUME NEW h \in Handlers, Accept(h) \/ HandshakeFails(h) \/ Handshake(h)
        PROVE  EdgeInv'
    <2>1. TypeOK'
      BY <1>1 DEF TypeOK, Accept, HandshakeFails, Handshake
    <2> QED  BY <1>1, <2>1, ReportsNobody
             DEF TypeOK, ServedAreConnected, SendsFromBuf, Live, Accept, HandshakeFails, Handshake
  <1>2. ASSUME NEW h \in Handlers,
               HandlerCloses(h) \/ ReadFails(h) \/ RefuseMessage(h) \/ SendFails(h)
        PROVE  EdgeInv'
    BY <1>2, Disconnects
       DEF HandlerCloses, ReadFails, RefuseMessage, SendFails, AtSelect, Live, Reasons
  <1>3. ASSUME NEW h \in Handlers, NEW c \in Chunks, Read(h, c)
        PROVE  EdgeInv'
    <2>1. TypeOK'
      BY <1>3, ChunkType DEF TypeOK, Read
    <2> QED  BY <1>3, <2>1, ReportsNobody
             DEF TypeOK, ServedAreConnected, SendsFromBuf, Live, Read, AtSelect
  <1>4. ASSUME NEW h \in Handlers, MalformedPayload(h) \/ TakeReading(h)
        PROVE  EdgeInv'
    <2>1. <<>> \in Seq(Kinds)
      OBVIOUS
    <2>2. TypeOK'
      BY <1>4, <2>1 DEF TypeOK, MalformedPayload, TakeReading
    <2> QED  BY <1>4, <2>2, ReportsNobody
             DEF TypeOK, ServedAreConnected, SendsFromBuf, Live, MalformedPayload, TakeReading
  <1>5. ASSUME NEW h \in Handlers, Send(h)
        PROVE  EdgeInv'
    <2>1. edge_chan' \in Seq(Handlers) /\ Len(edge_chan') <= EdgeChanCap
      BY <1>5, AppendElement, EdgeTcpAssumption DEF TypeOK, Send
    <2>2. buf' \in [Handlers -> Seq(Kinds)]
      BY <1>5, TailElements DEF TypeOK, SendsFromBuf, Send
    <2>3. TypeOK'
      BY <1>5, <2>1, <2>2 DEF TypeOK, Send
    <2> QED  BY <1>5, <2>3, ReportsNobody
             DEF TypeOK, ServedAreConnected, SendsFromBuf, Live, Send
  <1>6. ASSUME AcceptEnds \/ CollectorStop \/ Shutdown \/ CollectorRecv \/ UNCHANGED vars
        PROVE  EdgeInv'
    <2>1. <<>> \in Seq(Handlers) /\ Len(<<>>) <= EdgeChanCap
      BY EdgeTcpAssumption
    <2>2. CollectorRecv => edge_chan' \in Seq(Handlers) /\ Len(edge_chan') <= EdgeChanCap
      BY TailElements, EdgeTcpAssumption DEF TypeOK, CollectorRecv
    <2>3. TypeOK'
      BY <1>6, <2>1, <2>2
         DEF TypeOK, AcceptEnds, CollectorStop, Shutdown, CollectorRecv, vars
    <2> QED  BY <1>6, <2>3, ReportsNobody
             DEF TypeOK, ServedAreConnected, SendsFromBuf, Live, AcceptEnds, CollectorStop, Shutdown,
                 CollectorRecv, vars
  <1> QED  BY <1>1, <1>2, <1>3, <1>4, <1>5, <1>6 DEF Next, HandlerStep, ParseStep

\* The end of a connection is reported at most once, and only of a device that is no
\* longer counted and whose handler has returned.
THEOREM EdgeDisconnectedOnce == Spec => []DisconnectedOnce
  <1>1. EdgeInv => DisconnectedOnce
    BY DEF EdgeInv
  <1> QED  BY <1>1, EdgeInit, EdgeStep, PTL DEF Spec

\* The type invariant of the receiver: in particular, the channel to the collector
\* never holds more than its capacity, however many handlers send.
THEOREM EdgeTypeCorrect == Spec => []TypeOK
  <1>1. EdgeInv => TypeOK
    BY DEF EdgeInv
  <1> QED  BY <1>1, EdgeInit, EdgeStep, PTL DEF Spec

\* A device that is being served is counted in connected_devices.
THEOREM EdgeServedAreConnected == Spec => []ServedAreConnected
  <1>1. EdgeInv => ServedAreConnected
    BY DEF EdgeInv
  <1> QED  BY <1>1, EdgeInit, EdgeStep, PTL DEF Spec

(***************************************************************************)
(* Readings are neither lost nor repeated.                                 *)
(***************************************************************************)

\* The positions of the readings of a sequence of messages.
At(b) == {i \in DOMAIN b : b[i] = "reading"}

LEMMA AtFinite ==
    ASSUME NEW b \in Seq(Kinds)
    PROVE  IsFiniteSet(At(b)) /\ ReadingsIn(b) = Cardinality(At(b)) /\ ReadingsIn(b) \in Nat
  <1>1. DOMAIN b = 1..Len(b) /\ Len(b) \in Nat
    OBVIOUS
  <1>2. IsFiniteSet(At(b))
    <2>1. IsFiniteSet(DOMAIN b)
      BY <1>1, FS_Interval
    <2>2. At(b) \subseteq DOMAIN b
      BY DEF At
    <2> QED  BY <2>1, <2>2, FS_Subset
  <1> QED  BY <1>2, FS_CardinalityType DEF At, ReadingsIn

\* Cutting a reading off the front leaves one reading less: position i of the tail is
\* position i + 1 of the whole.
LEMMA ReadingsInTail ==
    ASSUME NEW b \in Seq(Kinds), b # <<>>, Head(b) = "reading"
    PROVE  ReadingsIn(b) = ReadingsIn(Tail(b)) + 1
  <1>1. /\ Tail(b) \in Seq(Kinds) /\ Len(b) \in Nat \ {0}
        /\ DOMAIN b = 1..Len(b) /\ DOMAIN Tail(b) = 1..(Len(b) - 1)
        /\ \A i \in 1..(Len(b) - 1) : Tail(b)[i] = b[i + 1]
        /\ b[1] = "reading"
    OBVIOUS
  <1> DEFINE T == At(Tail(b))
             S == At(b) \ {1}
             f == [i \in T |-> i + 1]
  <1>2. \A i : i \in T <=> i \in 1..(Len(b) - 1) /\ b[i + 1] = "reading"
    BY <1>1 DEF At
  <1>3. \A j : j \in S <=> j \in 2..Len(b) /\ b[j] = "reading"
    BY <1>1 DEF At
  <1>4. f \in [T -> S]
    BY <1>1, <1>2, <1>3
  <1>5. \A i, j \in T : f[i] = f[j] => i = j
    BY <1>2
  <1>6. \A j \in S : \E i \in T : f[i] = j
    <2> TAKE j \in S
    <2>1. j - 1 \in T /\ f[j - 1] = j
      BY <1>1, <1>2, <1>3
    <2> QED  BY <2>1
  <1>7. ExistsBijection(T, S)
    <2> HIDE DEF T, S, f
    <2>1. f \in Bijection(T, S)
      BY <1>4, <1>5, <1>6 DEF Bijection, Injection, Surjection, IsInjective
    <2> QED  BY <2>1 DEF ExistsBijection
  <1>8. IsFiniteSet(T) /\ ReadingsIn(Tail(b)) = Cardinality(T)
    BY <1>1, AtFinite
  <1>9. Cardinality(S) = Cardinality(T)
    <2> HIDE DEF T, S
    <2> QED  BY <1>7, <1>8, FS_Bijection
  <1>10. Cardinality(S) = Cardinality(At(b)) - 1
    <2>1. 1 \in At(b)
      BY <1>1 DEF At
    <2>2. IsFiniteSet(At(b))
      BY AtFinite
    <2> QED  BY <2>1, <2>2, FS_RemoveElement
  <1> QED  BY <1>1, <1>8, <1>9, <1>10, AtFinite

\* A sequence without complete messages holds no reading.
LEMMA NoReadings == ReadingsIn(<<>>) = 0 /\ ReadingsIn(<<"partial">>) = 0
  <1>1. {i \in DOMAIN <<>> : <<>>[i] = "reading"} = {}
    OBVIOUS
  <1>2. {i \in DOMAIN <<"partial">> : <<"partial">>[i] = "reading"} = {}
    OBVIOUS
  <1> QED  BY <1>1, <1>2, FS_EmptySet DEF ReadingsIn

\* What is inductive: a handler that serves nobody yet has received nothing, and one
\* that sends is sending the reading at the front of buf.
Unused(h)    == hpc[h] \in {"free", "handshake"} => buf[h] = <<>> /\ arrived[h] = passed[h]
SendsHead(h) == hpc[h] = "sending" => buf[h] # <<>> /\ Head(buf[h]) = "reading"
Conserved(h) == Live(h) => arrived[h] = passed[h] + ReadingsIn(buf[h])
ConserveInv  == \A h \in Handlers : Unused(h) /\ SendsHead(h) /\ Conserved(h)

\* Initially no handler has received anything.
LEMMA ConserveInit == Init => ConserveInv
  BY DEF Init, ConserveInv, Unused, SendsHead, Conserved, Live

\* Every step keeps the balance of every handler.
LEMMA ConserveStep == TypeOK /\ ConserveInv /\ [Next]_vars => ConserveInv'
  <1> SUFFICES ASSUME TypeOK, ConserveInv, [Next]_vars, NEW g \in Handlers
               PROVE  (Unused(g) /\ SendsHead(g) /\ Conserved(g))'
    BY DEF ConserveInv
  <1> USE DEF ConserveInv, Unused, SendsHead, Conserved, Live
  <1>1. ASSUME NEW h \in Handlers, Accept(h) \/ HandshakeFails(h)
        PROVE  (Unused(g) /\ SendsHead(g) /\ Conserved(g))'
    BY <1>1 DEF TypeOK, Accept, HandshakeFails
  <1>2. ASSUME NEW h \in Handlers, Handshake(h)
        PROVE  (Unused(g) /\ SendsHead(g) /\ Conserved(g))'
    BY <1>2, NoReadings DEF TypeOK, Handshake
  <1>3. ASSUME NEW h \in Handlers,
               \/ HandlerCloses(h) \/ ReadFails(h) \/ RefuseMessage(h) \/ SendFails(h)
               \/ MalformedPayload(h)
        PROVE  (Unused(g) /\ SendsHead(g) /\ Conserved(g))'
    BY <1>3 DEF TypeOK, HandlerCloses, ReadFails, RefuseMessage, SendFails,
                MalformedPayload, device_disconnected
  <1>4. ASSUME NEW h \in Handlers, NEW c \in Chunks, Read(h, c)
        PROVE  (Unused(g) /\ SendsHead(g) /\ Conserved(g))'
    <2>1. ReadingsIn(buf[h]) = 0 /\ hpc[h] = "serving"
      BY <1>4, NoReadings DEF Read, AtSelect
    <2>2. ReadingsIn(c) \in Nat
      BY ChunkType
    <2> QED  BY <1>4, <2>1, <2>2 DEF TypeOK, Read
  <1>5. ASSUME NEW h \in Handlers, TakeReading(h)
        PROVE  (Unused(g) /\ SendsHead(g) /\ Conserved(g))'
    BY <1>5 DEF TypeOK, TakeReading
  <1>6. ASSUME NEW h \in Handlers, Send(h)
        PROVE  (Unused(g) /\ SendsHead(g) /\ Conserved(g))'
    <2>1. /\ buf[h] \in Seq(Kinds) /\ buf[h] # <<>> /\ Head(buf[h]) = "reading"
          /\ Tail(buf[h]) \in Seq(Kinds)
      BY <1>6, TailElements DEF TypeOK, Send
    <2>2. /\ ReadingsIn(buf[h]) = ReadingsIn(Tail(buf[h])) + 1
          /\ ReadingsIn(Tail(buf[h])) \in Nat
      BY <2>1, ReadingsInTail, AtFinite
    <2> QED  BY <1>6, <2>2 DEF TypeOK, Send
  <1>7. ASSUME AcceptEnds \/ CollectorStop \/ Shutdown \/ CollectorRecv \/ UNCHANGED vars
        PROVE  (Unused(g) /\ SendsHead(g) /\ Conserved(g))'
    BY <1>7 DEF AcceptEnds, CollectorStop, Shutdown, CollectorRecv, vars
  <1> QED  BY <1>1, <1>2, <1>3, <1>4, <1>5, <1>6, <1>7 DEF Next, HandlerStep, ParseStep

\* However messages are split over reads, a serving handler loses and repeats no
\* reading.
THEOREM EdgeReadingsConserved == Spec => []ReadingsConserved
  <1>1. EdgeInv => TypeOK
    BY DEF EdgeInv
  <1>2. ConserveInv => ReadingsConserved
    BY DEF ConserveInv, Conserved, ReadingsConserved
  <1> QED  BY <1>1, <1>2, EdgeInit, EdgeStep, ConserveInit, ConserveStep, PTL DEF Spec

(***************************************************************************)
(* The count of connected devices.                                         *)
(***************************************************************************)

\* What a step may do to the count of a device whose handler returns.
CountedStep ==
    \A h \in connected_devices' :
        Live(h) /\ ~Live(h)' => buf[h] # <<>> /\ Head(buf[h]) = "bad_payload"

\* Every way out of a handler takes its device off connected_devices, but for the
\* return through `?` on a malformed payload (tcp.rs).
THEOREM EdgeCountedUntilMalformed == Spec => CountedUntilMalformed
  <1>1. EdgeInv /\ [Next]_vars => [CountedStep]_vars
    <2> SUFFICES ASSUME EdgeInv, Next, NEW g \in connected_devices', Live(g), ~Live(g)'
                 PROVE  buf[g] # <<>> /\ Head(buf[g]) = "bad_payload"
      BY DEF CountedStep
    <2> USE DEF EdgeInv, TypeOK, Live
    <2>1. ASSUME NEW h \in Handlers, Accept(h) \/ HandshakeFails(h) \/ Handshake(h)
          PROVE  FALSE
      BY <2>1 DEF Accept, HandshakeFails, Handshake
    <2>2. ASSUME NEW h \in Handlers,
                 HandlerCloses(h) \/ ReadFails(h) \/ RefuseMessage(h) \/ SendFails(h)
          PROVE  FALSE
      BY <2>2 DEF HandlerCloses, ReadFails, RefuseMessage, SendFails, device_disconnected
    <2>3. ASSUME NEW h \in Handlers, MalformedPayload(h)
          PROVE  buf[g] # <<>> /\ Head(buf[g]) = "bad_payload"
      BY <2>3 DEF MalformedPayload
    <2>4. ASSUME NEW h \in Handlers, TakeReading(h) \/ Send(h) \/ \E c \in Chunks : Read(h, c)
          PROVE  FALSE
      BY <2>4 DEF TakeReading, Send, Read
    <2>5. ASSUME AcceptEnds \/ CollectorRecv \/ CollectorStop \/ Shutdown
          PROVE  FALSE
      BY <2>5 DEF AcceptEnds, CollectorRecv, CollectorStop, Shutdown
    <2> QED  BY <2>1, <2>2, <2>3, <2>4, <2>5 DEF Next, HandlerStep, ParseStep
  <1> QED  BY <1>1, EdgeInit, EdgeStep, PTL DEF Spec, CountedUntilMalformed, CountedStep

=============================================================================

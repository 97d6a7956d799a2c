----------------------------- MODULE ErshaProofs -----------------------------
(***************************************************************************)
(* Proofs about module Ersha, for any number of records, connections,      *)
(* message ids and disturbances.                                           *)
(***************************************************************************)
EXTENDS Ersha, TLAPS

(***************************************************************************)
(* Sequences and message ids.                                              *)
(***************************************************************************)

\* Consuming the head of a non-empty sequence.
LEMMA HeadTail ==
    ASSUME NEW S, NEW s \in Seq(S), s # <<>>
    PROVE  /\ Head(s) \in S
           /\ Tail(s) \in Seq(S)
           /\ 1 \in DOMAIN s /\ Head(s) = s[1]
           /\ \A i \in DOMAIN Tail(s) : i + 1 \in DOMAIN s /\ Tail(s)[i] = s[i + 1]
  OBVIOUS

\* Putting an element at the end.
LEMMA AppendLast ==
    ASSUME NEW S, NEW s \in Seq(S), NEW e \in S
    PROVE  /\ Append(s, e) \in Seq(S) /\ Append(s, e) # <<>>
           /\ s # <<>> => Head(Append(s, e)) = Head(s)
           /\ \A i \in DOMAIN Append(s, e) :
                 Append(s, e)[i] = e \/ (i \in DOMAIN s /\ Append(s, e)[i] = s[i])
  OBVIOUS

\* A prefix, as left of a connection's requests when its link fails.
LEMMA Prefix ==
    ASSUME NEW S, NEW s \in Seq(S), NEW k \in 0..Len(s)
    PROVE  /\ SubSeq(s, 1, k) \in Seq(S)
           /\ \A i \in DOMAIN SubSeq(s, 1, k) : i \in DOMAIN s /\ SubSeq(s, 1, k)[i] = s[i]
           /\ k > 0 => SubSeq(s, 1, k) # <<>> /\ Head(SubSeq(s, 1, k)) = Head(s)
  OBVIOUS

\* A new message id (MessageId::new) is one that occurs nowhere.
LEMMA NewIdFresh == FreshIds # {} => NewId \in MsgIds /\ NewId \in FreshIds
  BY DEF NewId, FreshIds

\* What Call sends is a request with that id.
LEMMA MsgType ==
    ASSUME FreshIds # {},
           NEW k \in {"Hello", "Status", "Event", "Batch"},
           NEW recs \in SUBSET Records, NEW e \in PrimeEvent \cup {NoEvent},
           k = "Event" => e \in PrimeEvent
    PROVE  /\ Msg(k, recs, e) \in Request
           /\ Msg(k, recs, e).id = NewId /\ Msg(k, recs, e).kind = k
           /\ Msg(k, recs, e).recs = recs /\ Msg(k, recs, e).event = e
  BY NewIdFresh DEF Msg, Request

\* What a failing link leaves of a connection's requests.
LEMMA CutType ==
    ASSUME WireTypeOK, NEW c \in Conns, NEW k \in 0..Len(reqs[c])
    PROVE  /\ SubSeq(reqs[c], 1, k) \in Seq(Request)
           /\ \A i \in DOMAIN SubSeq(reqs[c], 1, k) :
                 i \in DOMAIN reqs[c] /\ SubSeq(reqs[c], 1, k)[i] = reqs[c][i]
           /\ k > 0 => /\ SubSeq(reqs[c], 1, k) # <<>>
                       /\ Head(SubSeq(reqs[c], 1, k)) = Head(reqs[c])
  <1> DEFINE q == reqs[c]
             S == Request
  <1>1. q \in Seq(S) /\ k \in 0..Len(q)
    BY DEF WireTypeOK
  <1> HIDE DEF q, S
  <1>2. /\ SubSeq(q, 1, k) \in Seq(S)
        /\ \A i \in DOMAIN SubSeq(q, 1, k) : i \in DOMAIN q /\ SubSeq(q, 1, k)[i] = q[i]
        /\ k > 0 => SubSeq(q, 1, k) # <<>> /\ Head(SubSeq(q, 1, k)) = Head(q)
    BY <1>1, Prefix
  <1> QED  BY <1>2 DEF q, S

\* A request is sent.
LEMMA SendType ==
    ASSUME WireTypeOK, NEW c \in Conns \cup {NoConn}, NEW m \in Request, Send(c, m)
    PROVE  /\ reqs' \in [Conns -> Seq(Request)]
           /\ \A d \in Conns : reqs[d] # <<>> => reqs'[d] # <<>> /\ Head(reqs'[d]) = Head(reqs[d])
           /\ \A d \in Conns : \A i \in DOMAIN reqs'[d] :
                 reqs'[d][i] = m \/ (i \in DOMAIN reqs[d] /\ reqs'[d][i] = reqs[d][i])
  <1>1. ASSUME NEW d \in Conns
        PROVE  reqs[d] \in Seq(Request) /\ reqs'[d] \in {reqs[d], Append(reqs[d], m)}
    BY DEF WireTypeOK, Send
  <1>2. reqs' = [d \in Conns |-> reqs'[d]]
    BY DEF WireTypeOK, Send
  <1>3. reqs' \in [Conns -> Seq(Request)]
    <2>1. \A d \in Conns : reqs'[d] \in Seq(Request)
      BY <1>1, AppendLast, ZenonT(30)
    <2> QED  BY <1>2, <2>1
  <1>4. ASSUME NEW d \in Conns
        PROVE  /\ reqs[d] # <<>> => reqs'[d] # <<>> /\ Head(reqs'[d]) = Head(reqs[d])
               /\ \A i \in DOMAIN reqs'[d] :
                     reqs'[d][i] = m \/ (i \in DOMAIN reqs[d] /\ reqs'[d][i] = reqs[d][i])
    <2>1. CASE reqs'[d] = reqs[d]             BY <2>1
    <2>2. CASE reqs'[d] = Append(reqs[d], m)  BY <1>1, <2>2, AppendLast
    <2> QED  BY <1>1, <2>1, <2>2
  <1> QED  BY <1>3, <1>4

\* The request at the head of a connection is answered.
LEMMA ReplyType ==
    ASSUME WireTypeOK, NEW c \in Conns, reqs[c] # <<>>,
           NEW k \in {"Accepted", "Rejected", "Status", "Event", "Batch"}, Reply(c, k)
    PROVE  /\ reqs' \in [Conns -> Seq(Request)]
           /\ reps' \in [Conns -> SUBSET Response]
           /\ \A d \in Conns \ {c} : reqs'[d] = reqs[d] /\ reps'[d] = reps[d]
           /\ \A i \in DOMAIN reqs'[c] : i + 1 \in DOMAIN reqs[c] /\ reqs'[c][i] = reqs[c][i + 1]
           /\ \A p \in reps'[c] : p \in reps[c] \/ p.to = Head(reqs[c]).id
  <1>1. /\ Head(reqs[c]) \in Request /\ Tail(reqs[c]) \in Seq(Request)
        /\ \A i \in DOMAIN Tail(reqs[c]) :
              i + 1 \in DOMAIN reqs[c] /\ Tail(reqs[c])[i] = reqs[c][i + 1]
    BY HeadTail DEF WireTypeOK
  <1> DEFINE p == [to |-> Head(reqs[c]).id, kind |-> k]
  <1>2. p \in Response /\ p.to = Head(reqs[c]).id
    BY <1>1 DEF Request, Response
  <1>3. /\ reqs' = [reqs EXCEPT ![c] = Tail(reqs[c])]
        /\ reps' = [reps EXCEPT ![c] = IF c \in up THEN reps[c] \cup {p} ELSE reps[c]]
    BY DEF Reply
  <1> HIDE DEF p
  <1> QED  BY <1>1, <1>2, <1>3 DEF WireTypeOK

(***************************************************************************)
(* Type correctness, one lemma per group of actions.                       *)
(***************************************************************************)

USE WireAssumption, DispatcherAssumption, PrimeAssumption, TablesDisjoint

\* Empty channels and queues.
LEMMA EmptySeqType ==
    <<>> \in Seq(Records) /\ <<>> \in Seq(PrimeEvent) /\ Len(<<>>) = 0 /\ 0 <= ChanCap
  OBVIOUS

\* The edge's side: records arrive, devices leave, Ctrl+C.
LEMMA EdgeType ==
    ASSUME TypeOK, EdgeNext, UNCHANGED primeVars
    PROVE  TypeOK'
  <1> USE DEF TypeOK, WireTypeOK, DispatcherTypeOK, PrimeTypeOK, primeVars, wireVars,
              collectorVars, uploaderVars, edgeVars
  <1>1. CASE \E r \in Records : EdgeSend(r)
    BY <1>1 DEF EdgeSend
  <1>2. CASE \E d \in Devices : DeviceDisconnected(d)
    BY <1>2 DEF DeviceDisconnected, QueueEvent, Disturb, PrimeEvent
  <1>3. CASE Cancel
    BY <1>3 DEF Cancel, Disturb
  <1> QED  BY <1>1, <1>2, <1>3 DEF EdgeNext

\* run_data_collector.
LEMMA CollectorType ==
    ASSUME TypeOK, CollectorNext, UNCHANGED primeVars
    PROVE  TypeOK'
  <1> USE DEF TypeOK, WireTypeOK, DispatcherTypeOK, PrimeTypeOK, primeVars, wireVars,
              collectorVars, uploaderVars, edgeVars
  <1>1. CASE CollectorRecv
    <2>1. chan # <<>> /\ Head(chan) \in Records /\ Tail(chan) \in Seq(Records)
          /\ Len(Tail(chan)) <= ChanCap
      BY <1>1, HeadTail DEF CollectorRecv
    <2> QED  BY <1>1, <2>1 DEF CollectorRecv
  <1>2. CASE CollectorCheck
    <2> DEFINE e == [kind |-> AlertKind, of |-> citem, sensor |-> cnext]
    <2>1. e \in PrimeEvent
      BY <1>2 DEF CollectorCheck, AlertKind, PrimeEvent
    <2>2. pending_events' \in Seq(PrimeEvent) /\ queued' \subseteq PrimeEvent
      <3>1. CASE AlertDue
        <4>1. pending_events' = Append(pending_events, e) /\ queued' = queued \cup {e}
          BY <1>2, <3>1 DEF CollectorCheck, QueueEvent
        <4> HIDE DEF e
        <4> QED  BY <2>1, <4>1, AppendLast
      <3>2. CASE ~AlertDue  BY <1>2, <3>2 DEF CollectorCheck
      <3> QED  BY <3>1, <3>2
    <2> QED  BY <1>2, <2>2 DEF CollectorCheck
  <1>3. CASE CollectorStore
    BY <1>3 DEF CollectorStore, CollectorNextItem, Store, Tables, RowState
  <1>4. CASE CollectorStoreFails
    BY <1>4 DEF CollectorStoreFails, CollectorNextItem, Disturb
  <1>5. CASE CollectorStop
    BY <1>5 DEF CollectorStop
  <1> QED  BY <1>1, <1>2, <1>3, <1>4, <1>5 DEF CollectorNext

\* run_uploader and connect_and_register, up to the error of a call.
LEMMA UploaderType ==
    ASSUME TypeOK, UploaderNext, UNCHANGED primeVars
    PROVE  TypeOK'
  <1> USE DEF TypeOK, WireTypeOK, DispatcherTypeOK, PrimeTypeOK, primeVars, wireVars,
              collectorVars, uploaderVars, edgeVars, Calling
  <1>1. CASE UploaderStop
    BY <1>1 DEF UploaderStop
  <1>2. CASE BeginConnect \/ ConnectFails
    BY <1>2 DEF BeginConnect, ConnectFails, GiveUp, Disturb
  <1>3. CASE Sleep
    BY <1>3 DEF Sleep
  <1>4. CASE SendStatus
    <2>1. Msg("Status", {}, NoEvent) \in Request /\ Msg("Status", {}, NoEvent).id \in MsgIds
      BY <1>4, MsgType, NewIdFresh DEF SendStatus, Call
    <2> QED  BY <1>4, <2>1, SendType DEF SendStatus, Call
  <1>5. CASE SendEvent
    <2>1. Head(evq) \in PrimeEvent
      BY <1>5, HeadTail DEF SendEvent
    <2>2. /\ Msg("Event", {}, Head(evq)) \in Request
          /\ Msg("Event", {}, Head(evq)).id \in MsgIds
      BY <1>5, <2>1, MsgType, NewIdFresh DEF SendEvent, Call
    <2> QED  BY <1>5, <2>2, SendType DEF SendEvent, Call
  <1>6. CASE FetchReadings
    BY <1>6 DEF FetchReadings, FetchPending, Records
  <1>7. CASE FetchNothing
    BY <1>7 DEF FetchNothing
  <1>8. CASE SendBatch
    <2> DEFINE recs == batch \cup FetchPending(rows, Statuses)
    <2>1. recs \in SUBSET Records
      BY DEF FetchPending, Records
    <2>2. Msg("Batch", recs, NoEvent) \in Request /\ Msg("Batch", recs, NoEvent).id \in MsgIds
      BY <1>8, <2>1, MsgType, NewIdFresh DEF SendBatch, Call
    <2> QED  BY <1>8, <2>1, <2>2, SendType DEF SendBatch, Call
  <1>9. CASE FetchFails
    BY <1>9 DEF FetchFails, Disturb
  <1>10. CASE MarkReadings
    BY <1>10 DEF MarkReadings, MarkUploaded, Tables, RowState
  <1>11. CASE MarkStatuses
    BY <1>11 DEF MarkStatuses, MarkUploaded, Tables, RowState
  <1>12. CASE MarkFails
    BY <1>12 DEF MarkFails, Disturb
  <1>13. ASSUME NEW c \in Conns, NEW p \in reps[c],
                \/ HelloAccepted(p) \/ HelloRejected(p) \/ StatusAnswered(p)
                \/ EventAnswered(p) \/ BatchAnswered(p)
         PROVE  TypeOK'
    <2>1. CASE HelloAccepted(p)   BY <2>1 DEF HelloAccepted, Answer
    <2>2. CASE HelloRejected(p)   BY <2>2 DEF HelloRejected, Answer, GiveUp
    <2>3. CASE StatusAnswered(p)  BY <2>3 DEF StatusAnswered, Answer
    <2>4. CASE EventAnswered(p)   BY <2>4, HeadTail DEF EventAnswered, Answer, NextEvent
    <2>5. CASE BatchAnswered(p)   BY <2>5 DEF BatchAnswered, Answer
    <2> QED  BY <1>13, <2>1, <2>2, <2>3, <2>4, <2>5
  <1>14. ASSUME NEW c \in Conns, NEW p \in reps[c], DiscardReply(p)
         PROVE  TypeOK'
    BY <1>14 DEF DiscardReply, dispatcherVars
  <1> QED
    BY <1>1, <1>2, <1>3, <1>4, <1>5, <1>6, <1>7, <1>8, <1>9, <1>10, <1>11, <1>12, <1>13, <1>14
    DEF UploaderNext

\* A handler adds one record to those it found valid.
LEMMA ValidGrows ==
    ASSUME NEW f \in [Conns -> SUBSET Records], NEW c \in Conns, NEW r \in Records
    PROVE  [f EXCEPT ![c] = @ \cup {r}] \in [Conns -> SUBSET Records]
  OBVIOUS

\* The HTTP API and the connection handlers of prime.
LEMMA PrimeType ==
    ASSUME TypeOK, ApiNext \/ \E c \in Conns : HandlerNext(c), UNCHANGED dispatcherVars
    PROVE  TypeOK'
  <1> USE DEF TypeOK, WireTypeOK, DispatcherTypeOK, PrimeTypeOK, dispatcherVars, wireVars,
              handlerVars, registryVars, recordVars, primeVars, Busy
  <1>1. CASE \E d \in Devices : RegisterDevice(d)  BY <1>1 DEF RegisterDevice, Disturb
  <1>2. CASE RegisterDispatcher                    BY <1>2 DEF RegisterDispatcher, Disturb
  <1>3. CASE SuspendDispatcher                     BY <1>3 DEF SuspendDispatcher, Disturb
  <1>4. ASSUME NEW c \in Conns, HandlerNext(c)
        PROVE  TypeOK'
    <2>2. CASE HandleHello(c)
      <3>1. CASE dstate = "Active"  BY <2>2, <3>1, ReplyType, SMTT(30) DEF HandleHello, Receives
      <3>2. CASE dstate # "Active"
        <4>1. Reply(c, "Rejected") /\ hpc' = [hpc EXCEPT ![c] = "closed"] /\ reqs[c] # <<>>
          BY <2>2, <3>2 DEF HandleHello, Receives
        <4> QED  BY <2>2, <4>1, ReplyType DEF HandleHello
      <3> QED  BY <3>1, <3>2
    <2>3. CASE HelloLookupFails(c)
      BY <2>3, ReplyType DEF HelloLookupFails, Receives, Disturb
    <2>4. CASE HandleStatus(c)
      BY <2>4, ReplyType DEF HandleStatus, Receives
    <2>5. CASE HandleEvent(c)
      <3>1. Head(reqs[c]).event \in PrimeEvent
        <4>1. Head(reqs[c]) \in Request /\ Head(reqs[c]).kind = "Event"
          BY <2>5, HeadTail DEF HandleEvent, Receives
        <4> QED  BY <4>1 DEF Request
      <3> QED  BY <2>5, <3>1, ReplyType, AppendLast, SMTT(30) DEF HandleEvent, Receives
    <2>6. CASE RecvBatch(c)
      <3>1. Head(reqs[c]).recs \subseteq Records
        <4>1. Head(reqs[c]) \in Request
          BY <2>6, HeadTail DEF RecvBatch, Receives
        <4> QED  BY <4>1 DEF Request
      <3> QED  BY <2>6, <3>1, SMTT(30) DEF RecvBatch, Receives
    <2>7. CASE LookupsDone(c)
      BY <2>7 DEF LookupsDone
    <2>8. CASE \E r \in Records : Lookup(c, r)
      <3>1. PICK r \in Records : Lookup(c, r)
        BY <2>8
      <3>2. CASE DeviceOf[r] \in devices
        <4>1. hvalid' \in [Conns -> SUBSET Records] /\ rejected' = rejected
          <5>1. hvalid' = [hvalid EXCEPT ![c] = @ \cup {r}] /\ rejected' = rejected
            BY <3>1, <3>2, Zenon DEF Lookup
          <5>2. [hvalid EXCEPT ![c] = @ \cup {r}] \in [Conns -> SUBSET Records]
            BY ONLY ValidGrows, hvalid \in [Conns -> SUBSET Records], c \in Conns, r \in Records
          <5> QED  BY <5>1, <5>2, Zenon
        <4>2. htodo' \in [Conns -> SUBSET Records]
          BY <3>1 DEF Lookup, LookupNext
        <4>3. UNCHANGED <<up, reqs, reps, registryVars, hpc, stored, unstored, received, disturbances>>
          BY <3>1 DEF Lookup, LookupNext
        <4>4. WireTypeOK' /\ DispatcherTypeOK'
          BY <4>3
        <4> QED  BY <4>1, <4>2, <4>3, <4>4
      <3>3. CASE DeviceOf[r] \notin devices   BY <3>1, <3>3, SMTT(30) DEF Lookup, LookupNext
      <3> QED  BY <3>2, <3>3
    <2>9. CASE \E r \in Records : LookupFails(c, r)
      BY <2>9 DEF LookupFails, LookupNext, Disturb
    <2>10. CASE StoreReadings(c)
      BY <2>10 DEF StoreReadings
    <2>11. CASE StoreReadingsFails(c)
      BY <2>11 DEF StoreReadingsFails, Disturb
    <2>12. CASE StoreStatuses(c)
      BY <2>12 DEF StoreStatuses
    <2>13. CASE \E done \in SUBSET Statuses : StoreStatusesFails(c, done)
      BY <2>13 DEF StoreStatusesFails, Disturb
    <2>14. CASE ReplyBatch(c)
      BY <2>14, ReplyType DEF ReplyBatch
    <2>15. CASE HandlerEnds(c)
      BY <2>15 DEF HandlerEnds
    <2> QED
      BY <1>4, <2>2, <2>3, <2>4, <2>5, <2>6, <2>7, <2>8, <2>9, <2>10, <2>11, <2>12, <2>13,
         <2>14, <2>15 DEF HandlerNext
  <1> QED  BY <1>1, <1>2, <1>3, <1>4 DEF ApiNext

\* Steps of both sides, and the faults of the composition.
LEMMA NextType == TypeOK /\ [Next]_vars => TypeOK'
  <1> SUFFICES ASSUME TypeOK, [Next]_vars PROVE TypeOK'
    OBVIOUS
  <1> USE DEF TypeOK
  <1>1. CASE UNCHANGED vars
    BY <1>1 DEF vars, WireTypeOK, DispatcherTypeOK, PrimeTypeOK, wireVars, dispatcherVars, primeVars
  <1>2. CASE (EdgeNext \/ CollectorNext \/ UploaderNext) /\ UNCHANGED primeVars
    BY <1>2, EdgeType, CollectorType, UploaderType
  <1>3. CASE (ApiNext \/ \E c \in Conns : HandlerNext(c)) /\ UNCHANGED dispatcherVars
    BY <1>3, PrimeType
  <1>4. ASSUME NEW c \in Conns, DoConnect(c)
        PROVE  TypeOK'
    <2> DEFINE m == Msg("Hello", {}, NoEvent)
    <2>1. m \in Request /\ m.id \in MsgIds
      BY <1>4, MsgType, NewIdFresh DEF DoConnect, Connect
    <2>2. reqs' = [reqs EXCEPT ![c] = <<m>>] /\ waiting' = m.id
      BY <1>4 DEF DoConnect, Connect
    <2> HIDE DEF m
    <2>3. reqs' \in [Conns -> Seq(Request)] /\ reqs'[c] # <<>> /\ waiting' \in MsgIds
      BY <2>1, <2>2 DEF WireTypeOK
    <2>4. WireTypeOK'
      BY <1>4, <2>3 DEF DoConnect, Connect, WireTypeOK
    <2>5. DispatcherTypeOK'
      BY <1>4, <2>3 DEF DoConnect, Connect, DispatcherTypeOK, collectorVars, edgeVars, Calling
    <2>6. PrimeTypeOK'
      BY <1>4, <2>2, <2>3
      DEF DoConnect, Accept, PrimeTypeOK, WireTypeOK, registryVars, recordVars, Busy
    <2> QED  BY <2>4, <2>5, <2>6
  <1>5. ASSUME CallFails, UNCHANGED <<up, reqs, reps, primeVars>>,
               Disturb \/ UNCHANGED disturbances
        PROVE  TypeOK'
    <2>1. WireTypeOK' /\ PrimeTypeOK'
      BY <1>5 DEF WireTypeOK, PrimeTypeOK, Disturb, primeVars
    <2>2. DispatcherTypeOK'
      <3> USE DEF DispatcherTypeOK, collectorVars, edgeVars, Calling
      <3>1. CASE HelloFails   BY <3>1 DEF HelloFails, GiveUp
      <3>2. CASE StatusFails  BY <3>2 DEF StatusFails
      <3>3. CASE EventFails   BY <3>3, HeadTail DEF EventFails, NextEvent
      <3>4. CASE BatchFails   BY <3>4 DEF BatchFails
      <3> QED  BY <1>5, <3>1, <3>2, <3>3, <3>4 DEF CallFails
    <2> QED  BY <2>1, <2>2
  <1>6. CASE CallError
    BY <1>5, <1>6 DEF CallError, wireVars
  <1>7. CASE CallTimesOut
    BY <1>5, <1>7 DEF CallTimesOut
  <1>8. ASSUME NEW c \in Conns, NEW keep \in 0..Len(reqs[c]),
               LinkFails(c, keep) \/ LateReply(c, keep)
        PROVE  TypeOK'
    <2>2. SubSeq(reqs[c], 1, keep) \in Seq(Request)
          /\ (keep > 0 => SubSeq(reqs[c], 1, keep) # <<>>)
      BY CutType
    <2>3. WireTypeOK'
      <3>1. disturbances' \in 0..MaxDisturbances
        BY <1>8 DEF LinkFails, LateReply, WireTypeOK, Disturb
      <3>2. Cut(c, keep)
        BY <1>8 DEF LinkFails, LateReply
      <3> QED  BY <2>2, <3>1, <3>2 DEF Cut, WireTypeOK
    <2>4. DispatcherTypeOK'
      BY <1>8 DEF LinkFails, LateReply, DispatcherTypeOK, dispatcherVars
    <2>5. PrimeTypeOK'
      BY <1>8, <2>2 DEF LinkFails, LateReply, Cut, PrimeTypeOK, WireTypeOK, primeVars
    <2> QED  BY <2>3, <2>4, <2>5
  <1>9. ASSUME NEW keep \in Cuts, DispatcherRestart(keep)
        PROVE  TypeOK'
    <2>1. ASSUME NEW c \in Conns
          PROVE  /\ reqs'[c] = SubSeq(reqs[c], 1, keep[c])
                 /\ reqs'[c] \in Seq(Request)
                 /\ keep[c] > 0 => reqs'[c] # <<>>
      <3>1. reqs[c] \in Seq(Request) /\ keep[c] \in 0..Len(reqs[c])
        BY DEF WireTypeOK, Cuts
      <3>2. reqs'[c] = SubSeq(reqs[c], 1, keep[c])
        BY <1>9 DEF DispatcherRestart, Restart
      <3>3. SubSeq(reqs[c], 1, keep[c]) \in Seq(Request)
            /\ (keep[c] > 0 => SubSeq(reqs[c], 1, keep[c]) # <<>>)
        BY <3>1, CutType
      <3> QED  BY <3>2, <3>3
    <2>2. reqs' = [c \in Conns |-> reqs'[c]]
      BY <1>9 DEF DispatcherRestart, Restart
    <2>3. WireTypeOK'
      BY <1>9, <2>1, <2>2 DEF DispatcherRestart, Restart, WireTypeOK, Disturb
    <2>4. DispatcherTypeOK'
      <3>1. rows' \in Tables
        BY <1>9 DEF DispatcherRestart, Restart, DispatcherTypeOK, EmptyTables, Tables, RowState
      <3>2. gone' \subseteq Devices /\ sent' \subseteq Records /\ queued' \subseteq PrimeEvent
        BY <1>9 DEF DispatcherRestart, Restart, DispatcherTypeOK
      <3>3. /\ chan' \in Seq(Records) /\ Len(chan') <= ChanCap
            /\ pending_events' \in Seq(PrimeEvent) /\ evq' \in Seq(PrimeEvent)
        BY <1>9, EmptySeqType DEF DispatcherRestart, Restart, DispatcherStart
      <3>4. backoff' \in 1..MaxBackoff /\ cnext' \in Nat
        BY <1>9 DEF DispatcherRestart, Restart, DispatcherStart
      <3>5. cancelled' \in BOOLEAN /\ batch' \subseteq Records
        BY <1>9 DEF DispatcherRestart, Restart, DispatcherStart
      <3> QED  BY <1>9, <3>1, <3>2, <3>3, <3>4, <3>5
               DEF DispatcherRestart, Restart, DispatcherStart, DispatcherTypeOK, Calling
    <2>5. PrimeTypeOK'
      BY <1>9, <2>1 DEF DispatcherRestart, PrimeTypeOK, primeVars
    <2> QED  BY <2>3, <2>4, <2>5
  <1>10. CASE PrimeRestart /\ UNCHANGED dispatcherVars
    <2>1. DispatcherTypeOK'
      BY <1>10 DEF DispatcherTypeOK, dispatcherVars
    <2>2. WireTypeOK' /\ PrimeTypeOK'
      BY <1>10 DEF PrimeRestart, Disturb, WireTypeOK, PrimeTypeOK, registryVars, Busy
    <2> QED  BY <2>1, <2>2
  <1>11. CASE Stopped
    BY <1>1, <1>11 DEF Stopped
  <1> QED
    BY <1>1, <1>2, <1>3, <1>4, <1>6, <1>7, <1>8, <1>9, <1>10, <1>11 DEF Next

\* The initial states.
LEMMA InitType == Init => TypeOK
  <1> SUFFICES ASSUME Init PROVE TypeOK
    OBVIOUS
  <1>1. WireTypeOK        BY DEF Init, WireInit, WireTypeOK
  <1>2. EmptyTables \in Tables
    BY DEF EmptyTables, Tables, RowState
  <1>3. DispatcherTypeOK
    <2> USE DEF Init, DispatcherInit
    <2>1. chan \in Seq(Records) /\ Len(chan) <= ChanCap
      BY EmptySeqType
    <2>2. pending_events \in Seq(PrimeEvent) /\ evq \in Seq(PrimeEvent)
      BY EmptySeqType
    <2>3. backoff \in 1..MaxBackoff /\ cnext \in Nat
      OBVIOUS
    <2>4. /\ cancelled \in BOOLEAN /\ sent \subseteq Records /\ gone \subseteq Devices
          /\ queued \subseteq PrimeEvent /\ batch \subseteq Records
      OBVIOUS
    <2> QED  BY <1>2, <2>1, <2>2, <2>3, <2>4 DEF DispatcherTypeOK, Calling
  <1>4. PrimeTypeOK       BY DEF Init, PrimeInit, PrimeTypeOK, Busy
  <1> QED  BY <1>1, <1>3, <1>4 DEF TypeOK

\* Type correctness of the whole system: in particular the channel never holds more
\* than its capacity, the backoff never exceeds MAX_BACKOFF, and a handler at work on
\* a batch has that batch in hand.
THEOREM TypeCorrect == Spec => []TypeOK
  <1> QED  BY InitType, NextType, PTL DEF Spec

(***************************************************************************)
(* NoSilentLoss, by the inductive invariant LossInv.                       *)
(***************************************************************************)

\* Steps that leave calls, handlers and prime's records alone and mark nothing.
LEMMA LossQuiet ==
    ASSUME LossInv, TypeOK', UNCHANGED <<reqs, reps, upc, conn, waiting, batch, primeVars>>,
           \A r \in Records : rows'[r] = "uploaded" => rows[r] = "uploaded"
    PROVE  LossInv'
  <1> USE DEF LossInv, primeVars
  <1>1. Settled' = Settled
    BY DEF Settled
  <1>2. ClientInv' /\ MarkInv' /\ NoSilentLoss'
    BY <1>1 DEF ClientInv, MarkInv, NoSilentLoss
  <1>3. HandlerInv'
    BY <1>1 DEF HandlerInv
  <1>4. AwaitedInv'
    BY <1>1 DEF AwaitedInv
  <1> QED  BY <1>2, <1>3, <1>4

\* Steps of the uploader and the link that keep the request each handler is serving,
\* do not wait for a batch and mark nothing.
LEMMA LossNoCall ==
    ASSUME LossInv, TypeOK', ClientInv', UNCHANGED primeVars,
           \A c \in Conns : hpc[c] \in Busy => Head(reqs'[c]) = Head(reqs[c]),
           upc' # "batch", upc' \notin {"markR", "markS"},
           \A r \in Records : rows'[r] = "uploaded" => rows[r] = "uploaded"
    PROVE  LossInv'
  <1> USE DEF LossInv, primeVars
  <1>1. Settled' = Settled
    BY DEF Settled
  <1>2. MarkInv' /\ NoSilentLoss' /\ AwaitedInv'
    BY <1>1 DEF MarkInv, NoSilentLoss, AwaitedInv
  <1>3. HandlerInv'
    BY <1>1 DEF HandlerInv, Busy
  <1> QED  BY <1>2, <1>3

\* Steps of prime: requests are consumed, replies added for requests that are no
\* batch or a settled one, and more records settled.
LEMMA LossHandler ==
    ASSUME LossInv, TypeOK', UNCHANGED dispatcherVars, HandlerInv', Settled \subseteq Settled',
           NEW c \in Conns,
           \A d \in Conns \ {c} : reqs'[d] = reqs[d] /\ reps'[d] = reps[d],
           \A i \in DOMAIN reqs'[c] : \E j \in DOMAIN reqs[c] : reqs'[c][i] = reqs[c][j],
           \A p \in reps'[c] :
              \/ p \in reps[c]
              \/ \E j \in DOMAIN reqs[c] :
                    /\ p.to = reqs[c][j].id
                    /\ reqs[c][j].kind = "Batch" => reqs[c][j].recs \subseteq Settled
    PROVE  LossInv'
  <1> USE DEF LossInv, dispatcherVars
  <1>1. ClientInv' /\ MarkInv' /\ NoSilentLoss'
    BY DEF ClientInv, MarkInv, NoSilentLoss
  <1>2. ASSUME upc = "batch", NEW d \in Conns
        PROVE  /\ \A i \in DOMAIN reqs'[d] :
                     reqs'[d][i].id = waiting
                        => reqs'[d][i].kind = "Batch" /\ reqs'[d][i].recs = batch
               /\ \A p \in reps'[d] : p.to = waiting => batch \subseteq Settled'
    <2>1. CASE d = c   BY <1>2, <2>1, SMTT(30) DEF AwaitedInv
    <2>2. CASE d # c   BY <1>2, <2>2 DEF AwaitedInv
    <2> QED  BY <2>1, <2>2
  <1>3. AwaitedInv'
    BY <1>2 DEF AwaitedInv
  <1> QED  BY <1>1, <1>3

\* The edge and the collector.
LEMMA LossEdge ==
    ASSUME LossInv, TypeOK', EdgeNext \/ CollectorNext, UNCHANGED primeVars
    PROVE  LossInv'
  <1>1. UNCHANGED <<reqs, reps, upc, conn, waiting, batch>>
    BY DEF EdgeNext, EdgeSend, DeviceDisconnected, Cancel, CollectorNext, CollectorRecv,
           CollectorCheck, CollectorStore, CollectorStoreFails, CollectorStop, wireVars, uploaderVars
  <1>2. \A r \in Records : rows'[r] = "uploaded" => rows[r] = "uploaded"
    <2>1. CASE CollectorStore
      BY <2>1 DEF CollectorStore, Store, LossInv, TypeOK, DispatcherTypeOK, Tables
    <2>2. CASE ~CollectorStore
      BY <2>2 DEF EdgeNext, EdgeSend, DeviceDisconnected, Cancel, CollectorNext, CollectorRecv,
             CollectorCheck, CollectorStoreFails, CollectorStop
    <2> QED  BY <2>1, <2>2
  <1> QED  BY <1>1, <1>2, LossQuiet

\* The uploader, up to the error of a call.
LEMMA LossUploader ==
    ASSUME LossInv, TypeOK', UploaderNext, UNCHANGED primeVars
    PROVE  LossInv'
  <1> USE DEF Calling
  <1>0. LossInv /\ TypeOK /\ ClientInv /\ conn \in Conns \cup {NoConn} /\ rows \in Tables
    BY DEF LossInv, TypeOK, DispatcherTypeOK
  <1>1. ASSUME UNCHANGED <<reqs, rows>>, ClientInv', upc' # "batch", upc' \notin {"markR", "markS"}
        PROVE  LossInv'
    BY <1>1, LossNoCall
  <1>2. ASSUME NEW m \in Request, Send(conn, m), UNCHANGED rows, ClientInv',
               upc' \notin {"batch", "markR", "markS"}
        PROVE  LossInv'
    <2>1. \A c \in Conns : hpc[c] \in Busy => Head(reqs'[c]) = Head(reqs[c])
      BY <1>0, <1>2, SendType DEF TypeOK, PrimeTypeOK
    <2> QED  BY <1>2, <2>1, LossNoCall
  <1>3. CASE UploaderStop
    BY <1>0, <1>1, <1>3 DEF UploaderStop, ClientInv, wireVars
  <1>4. CASE BeginConnect \/ ConnectFails
    BY <1>0, <1>1, <1>4 DEF BeginConnect, ConnectFails, GiveUp, ClientInv, wireVars
  <1>5. CASE Sleep
    BY <1>0, <1>1, <1>5 DEF Sleep, ClientInv, wireVars
  <1>6. CASE SendStatus
    <2>1. Msg("Status", {}, NoEvent) \in Request /\ Msg("Status", {}, NoEvent).id \in MsgIds
      BY <1>6, MsgType, NewIdFresh DEF SendStatus, Call
    <2>2. ClientInv'
      BY <1>0, <1>6, <2>1 DEF SendStatus, Call, ClientInv
    <2> QED  BY <1>2, <1>6, <2>1, <2>2 DEF SendStatus, Call
  <1>7. CASE SendEvent
    <2>1. Head(evq) \in PrimeEvent
      BY <1>0, <1>7, HeadTail DEF SendEvent, TypeOK, DispatcherTypeOK
    <2>2. /\ Msg("Event", {}, Head(evq)) \in Request
          /\ Msg("Event", {}, Head(evq)).id \in MsgIds
      BY <1>7, <2>1, MsgType, NewIdFresh DEF SendEvent, Call
    <2>3. ClientInv'
      BY <1>0, <1>7, <2>2 DEF SendEvent, Call, ClientInv
    <2> QED  BY <1>2, <1>7, <2>2, <2>3 DEF SendEvent, Call
  <1>8. CASE FetchReadings
    BY <1>0, <1>1, <1>8 DEF FetchReadings, ClientInv, wireVars
  <1>9. CASE FetchNothing
    BY <1>0, <1>1, <1>9 DEF FetchNothing, ClientInv, wireVars
  <1>10. CASE FetchFails
    BY <1>0, <1>1, <1>10 DEF FetchFails, ClientInv
  <1>11. CASE SendBatch
    <2> DEFINE recs == batch \cup FetchPending(rows, Statuses)
               m == Msg("Batch", recs, NoEvent)
    <2>1. recs \in SUBSET Records
      BY <1>0 DEF FetchPending, Records, TypeOK, DispatcherTypeOK
    <2>2. m \in Request /\ m.id = NewId /\ m.kind = "Batch" /\ m.recs = recs
          /\ NewId \in MsgIds /\ NewId \in FreshIds
      BY <1>11, <2>1, MsgType, NewIdFresh DEF SendBatch, Call
    <2>3. /\ upc' = "batch" /\ waiting' = NewId /\ batch' = recs /\ Send(conn, m)
          /\ UNCHANGED <<reps, rows, conn>> /\ conn \in Conns
      BY <1>0, <1>11, <2>2 DEF SendBatch, Call, ClientInv
    <2> HIDE DEF m, recs
    <2>4. /\ \A c \in Conns : hpc[c] \in Busy => Head(reqs'[c]) = Head(reqs[c])
          /\ \A c \in Conns : \A i \in DOMAIN reqs'[c] :
                reqs'[c][i] = m \/ (i \in DOMAIN reqs[c] /\ reqs'[c][i] = reqs[c][i])
      BY <1>0, <2>2, <2>3, SendType DEF TypeOK, PrimeTypeOK
    <2>5. /\ \A c \in Conns : \A i \in DOMAIN reqs[c] : reqs[c][i].id # NewId
          /\ \A c \in Conns : \A p \in reps[c] : p.to # NewId
      BY <2>2 DEF FreshIds, IdsIn
    <2>6. AwaitedInv'
      <3>1. ASSUME NEW c \in Conns, NEW i \in DOMAIN reqs'[c], reqs'[c][i].id = NewId
            PROVE  reqs'[c][i].kind = "Batch" /\ reqs'[c][i].recs = recs
        <4>1. CASE reqs'[c][i] = m   BY <2>2, <4>1
        <4>2. CASE i \in DOMAIN reqs[c] /\ reqs'[c][i] = reqs[c][i]
          BY <2>5, <3>1, <4>2
        <4> QED  BY <2>4, <4>1, <4>2
      <3> QED  BY <2>3, <2>5, <3>1 DEF AwaitedInv
    <2>7. ClientInv' /\ MarkInv'
      BY <2>2, <2>3 DEF ClientInv, MarkInv
    <2>8. HandlerInv' /\ NoSilentLoss'
      BY <2>3, <2>4 DEF LossInv, HandlerInv, NoSilentLoss, Settled, primeVars, Busy
    <2> QED  BY <2>6, <2>7, <2>8 DEF LossInv
  <1>12. ASSUME upc \in {"markR", "markS"}, upc' \in {"markS", "tick"},
                UNCHANGED <<reqs, conn>>, batch' \subseteq batch,
                \A r \in Records : rows'[r] = "uploaded" => rows[r] = "uploaded" \/ r \in batch
         PROVE  LossInv'
    <2>1. ClientInv'
      BY <1>0, <1>12 DEF ClientInv
    <2>2. Settled' = Settled
      BY DEF Settled, primeVars
    <2>3. AwaitedInv' /\ MarkInv' /\ NoSilentLoss'
      BY <1>12, <2>2 DEF LossInv, AwaitedInv, MarkInv, NoSilentLoss
    <2>4. HandlerInv'
      BY <1>12, <2>2 DEF LossInv, HandlerInv, primeVars
    <2> QED  BY <2>1, <2>3, <2>4 DEF LossInv
  <1>13. CASE MarkReadings
    BY <1>0, <1>12, <1>13 DEF MarkReadings, MarkUploaded, wireVars
  <1>14. CASE MarkStatuses
    BY <1>0, <1>12, <1>14 DEF MarkStatuses, MarkUploaded, wireVars
  <1>15. CASE MarkFails
    BY <1>0, <1>12, <1>15 DEF MarkFails
  <1>16. ASSUME NEW c \in Conns, NEW p \in reps[c],
                \/ HelloAccepted(p) \/ HelloRejected(p) \/ StatusAnswered(p)
                \/ EventAnswered(p) \/ BatchAnswered(p)
         PROVE  LossInv'
    <2>1. CASE HelloAccepted(p)
      BY <1>0, <1>1, <2>1 DEF HelloAccepted, Answer, ClientInv
    <2>2. CASE HelloRejected(p)
      BY <1>0, <1>1, <2>2 DEF HelloRejected, Answer, GiveUp, ClientInv
    <2>3. CASE StatusAnswered(p)
      BY <1>0, <1>1, <2>3 DEF StatusAnswered, Answer, ClientInv
    <2>4. CASE EventAnswered(p)
      BY <1>0, <1>1, <2>4 DEF EventAnswered, Answer, NextEvent, ClientInv
    <2>5. CASE BatchAnswered(p)
      <3>1. /\ upc = "batch" /\ conn \in Conns /\ p \in reps[conn] /\ p.to = waiting
            /\ upc' = "markR" /\ UNCHANGED <<reqs, conn, batch, rows>>
        BY <1>0, <2>5 DEF BatchAnswered, Answer, ClientInv
      <3>2. batch \subseteq Settled
        BY <3>1 DEF LossInv, AwaitedInv
      <3>3. Settled' = Settled
        BY DEF Settled, primeVars
      <3>4. ClientInv' /\ MarkInv' /\ AwaitedInv' /\ NoSilentLoss'
        BY <3>1, <3>2, <3>3 DEF LossInv, ClientInv, MarkInv, AwaitedInv, NoSilentLoss
      <3>5. HandlerInv'
        BY <3>1, <3>3 DEF LossInv, HandlerInv, primeVars
      <3> QED  BY <3>4, <3>5 DEF LossInv
    <2> QED  BY <1>16, <2>1, <2>2, <2>3, <2>4, <2>5
  <1>17. ASSUME NEW c \in Conns, NEW p \in reps[c], DiscardReply(p)
         PROVE  LossInv'
    <2>1. /\ UNCHANGED <<reqs, upc, conn, waiting, batch, rows>>
          /\ \A d \in Conns : reps'[d] \subseteq reps[d]
      BY <1>0, <1>17 DEF DiscardReply, dispatcherVars, TypeOK, WireTypeOK
    <2>2. Settled' = Settled
      BY DEF Settled, primeVars
    <2>3. ClientInv' /\ MarkInv' /\ NoSilentLoss'
      BY <2>1, <2>2 DEF LossInv, ClientInv, MarkInv, NoSilentLoss
    <2>4. AwaitedInv'
      BY <2>1, <2>2 DEF LossInv, AwaitedInv
    <2>5. HandlerInv'
      BY <2>1, <2>2 DEF LossInv, HandlerInv, primeVars
    <2> QED  BY <2>3, <2>4, <2>5 DEF LossInv
  <1> QED
    BY <1>3, <1>4, <1>5, <1>6, <1>7, <1>8, <1>9, <1>10, <1>11, <1>13, <1>14, <1>15, <1>16, <1>17
    DEF UploaderNext

\* Prime's API and handlers.
LEMMA LossPrime ==
    ASSUME LossInv, TypeOK', ApiNext \/ \E c \in Conns : HandlerNext(c), UNCHANGED dispatcherVars
    PROVE  LossInv'
  <1>0. TypeOK /\ WireTypeOK /\ PrimeTypeOK /\ HandlerInv
    BY DEF LossInv, TypeOK
  <1>1. CASE ApiNext
    <2>1. UNCHANGED <<reqs, reps, handlerVars, recordVars>>
      BY <1>1 DEF ApiNext, RegisterDevice, RegisterDispatcher, SuspendDispatcher
    <2>2. Settled' = Settled
      BY <2>1 DEF Settled, recordVars
    <2>3. ClientInv' /\ MarkInv' /\ NoSilentLoss'
      BY <2>2 DEF LossInv, ClientInv, MarkInv, NoSilentLoss, dispatcherVars
    <2>4. AwaitedInv'
      BY <2>1, <2>2 DEF LossInv, AwaitedInv, dispatcherVars
    <2>5. HandlerInv'
      BY <2>1, <2>2 DEF LossInv, HandlerInv, handlerVars
    <2> QED  BY <2>3, <2>4, <2>5 DEF LossInv
  <1>2. ASSUME NEW c \in Conns, HandlerNext(c)
        PROVE  LossInv'
    <2> DEFINE Acc(d) ==
               /\ hpc[d] = "filter" => Head(reqs[d]).recs \subseteq htodo[d] \cup hvalid[d] \cup Settled
               /\ hpc[d] = "storeR" => Head(reqs[d]).recs \subseteq hvalid[d] \cup Settled
               /\ hpc[d] = "storeS" =>
                     Head(reqs[d]).recs \subseteq (hvalid[d] \cap Statuses) \cup Settled
               /\ hpc[d] = "reply"  => Head(reqs[d]).recs \subseteq Settled
    <2>0. \A d \in Conns : Acc(d)
      BY <1>0 DEF HandlerInv
    <2>1. ASSUME Settled \subseteq Settled', Acc(c)',
                 \A d \in Conns \ {c} : /\ hpc'[d] = hpc[d] /\ htodo'[d] = htodo[d]
                                       /\ hvalid'[d] = hvalid[d] /\ reqs'[d] = reqs[d]
          PROVE  HandlerInv'
      BY <2>0, <2>1 DEF HandlerInv
    <2>2. ASSUME HandlerInv', Settled \subseteq Settled', UNCHANGED <<reqs, reps>>
          PROVE  LossInv'
      BY <2>2, LossHandler
    <2>3. ASSUME NEW k \in {"Accepted", "Rejected", "Status", "Event", "Batch"}, Reply(c, k),
                 reqs[c] # <<>>, hpc' \in {hpc, [hpc EXCEPT ![c] = "recv"], [hpc EXCEPT ![c] = "closed"]},
                 hpc'[c] \notin Busy, Settled' = Settled, htodo' = htodo,
                 hvalid' \in {hvalid, [hvalid EXCEPT ![c] = {}]},
                 Head(reqs[c]).kind = "Batch" => Head(reqs[c]).recs \subseteq Settled
          PROVE  LossInv'
      <3>1. /\ \A d \in Conns \ {c} : reqs'[d] = reqs[d] /\ reps'[d] = reps[d]
            /\ \A i \in DOMAIN reqs'[c] :
                  i + 1 \in DOMAIN reqs[c] /\ reqs'[c][i] = reqs[c][i + 1]
            /\ \A p \in reps'[c] : p \in reps[c] \/ p.to = Head(reqs[c]).id
        BY <1>0, <2>3, ReplyType
      <3>2. 1 \in DOMAIN reqs[c] /\ Head(reqs[c]) = reqs[c][1]
        BY <1>0, <2>3, HeadTail DEF WireTypeOK
      <3>3. HandlerInv'
        BY <1>0, <2>1, <2>3, <3>1 DEF PrimeTypeOK, Busy
      <3> QED  BY <2>3, <3>1, <3>2, <3>3, LossHandler
    <2>4. CASE HandleHello(c)
      <3>1. CASE dstate = "Active"
        BY <1>0, <2>3, <2>4, <3>1 DEF HandleHello, Receives, recordVars, Settled, Busy
      <3>2. CASE dstate # "Active"
        BY <1>0, <2>3, <2>4, <3>2 DEF HandleHello, Receives, recordVars, Settled, Busy, PrimeTypeOK
      <3> QED  BY <3>1, <3>2
    <2>5. CASE HelloLookupFails(c)
      BY <1>0, <2>3, <2>5 DEF HelloLookupFails, Receives, recordVars, Settled, Busy, PrimeTypeOK
    <2>6. CASE HandleStatus(c)
      BY <1>0, <2>3, <2>6 DEF HandleStatus, Receives, primeVars, Settled, Busy
    <2>7. CASE HandleEvent(c)
      BY <1>0, <2>3, <2>7 DEF HandleEvent, Receives, handlerVars, recordVars, Settled, Busy
    <2>8. CASE ReplyBatch(c)
      <3>1. reqs[c] # <<>> /\ Head(reqs[c]).recs \subseteq Settled
        BY <1>0, <2>0, <2>8 DEF ReplyBatch, PrimeTypeOK, Busy
      <3> QED  BY <1>0, <2>3, <2>8, <3>1 DEF ReplyBatch, recordVars, Settled, Busy, PrimeTypeOK
    <2>9. CASE RecvBatch(c)
      BY <1>0, <2>1, <2>2, <2>9
      DEF RecvBatch, Receives, wireVars, recordVars, Settled, PrimeTypeOK
    <2>10. CASE LookupsDone(c)
      BY <1>0, <2>0, <2>1, <2>2, <2>10
      DEF LookupsDone, wireVars, recordVars, Settled, PrimeTypeOK
    <2>11. CASE \E r \in Records : Lookup(c, r) \/ LookupFails(c, r)
      <3>1. PICK r \in Records : Lookup(c, r) \/ LookupFails(c, r)
        BY <2>11
      <3>2. /\ UNCHANGED <<reqs, reps, hpc, stored, unstored>> /\ hpc[c] = "filter"
            /\ htodo' = [htodo EXCEPT ![c] = @ \ {r}]
            /\ \/ hvalid' = [hvalid EXCEPT ![c] = @ \cup {r}] /\ rejected' = rejected
               \/ hvalid' = hvalid /\ rejected' = rejected \cup {r}
        BY <3>1 DEF Lookup, LookupFails, LookupNext
      <3>3. Settled \subseteq Settled'
        BY <3>2 DEF Settled
      <3>4. Acc(c)'
        BY <1>0, <2>0, <3>2 DEF Settled, PrimeTypeOK
      <3> QED  BY <1>0, <2>1, <2>2, <3>2, <3>3, <3>4 DEF PrimeTypeOK
    <2>12. CASE StoreReadings(c) \/ StoreReadingsFails(c)
      <3>1. /\ UNCHANGED <<reqs, reps, htodo, hvalid, rejected>> /\ hpc[c] = "storeR"
            /\ hpc' = [hpc EXCEPT ![c] = "storeS"]
            /\ Settled' = Settled \cup (hvalid[c] \cap Readings)
        BY <2>12 DEF StoreReadings, StoreReadingsFails, wireVars, Settled
      <3>2. hvalid[c] \subseteq Readings \cup Statuses
        BY <1>0 DEF PrimeTypeOK, Records
      <3>3. Acc(c)'
        BY <1>0, <2>0, <3>1, <3>2 DEF PrimeTypeOK
      <3> QED  BY <1>0, <2>1, <2>2, <3>1, <3>3 DEF PrimeTypeOK
    <2>13. CASE StoreStatuses(c) \/ \E done \in SUBSET Statuses : StoreStatusesFails(c, done)
      <3>1. /\ UNCHANGED <<reqs, reps, htodo, hvalid, rejected>> /\ hpc[c] = "storeS"
            /\ hpc' = [hpc EXCEPT ![c] = "reply"]
            /\ Settled' = Settled \cup (hvalid[c] \cap Statuses)
        BY <2>13 DEF StoreStatuses, StoreStatusesFails, wireVars, Settled
      <3>2. Acc(c)'
        BY <1>0, <2>0, <3>1 DEF PrimeTypeOK
      <3> QED  BY <1>0, <2>1, <2>2, <3>1, <3>2 DEF PrimeTypeOK
    <2>14. CASE HandlerEnds(c)
      BY <1>0, <2>1, <2>2, <2>14
      DEF HandlerEnds, wireVars, recordVars, Settled, PrimeTypeOK
    <2> QED
      BY <1>2, <2>4, <2>5, <2>6, <2>7, <2>8, <2>9, <2>10, <2>11, <2>12, <2>13, <2>14
      DEF HandlerNext
  <1> QED  BY <1>1, <1>2

\* One step of the system, when prime's registries survive its crashes.
LEMMA LossStep ==
    ASSUME PrimeDurable
    PROVE  LossInv /\ [Next]_vars => LossInv'
  <1> SUFFICES ASSUME LossInv, [Next]_vars PROVE LossInv'
    OBVIOUS
  <1>0. TypeOK /\ WireTypeOK /\ PrimeTypeOK /\ ClientInv /\ TypeOK'
    BY NextType DEF LossInv, TypeOK
  <1>1. CASE UNCHANGED vars
    BY <1>0, <1>1, LossQuiet DEF vars, wireVars, dispatcherVars
  <1>2. CASE (EdgeNext \/ CollectorNext \/ UploaderNext) /\ UNCHANGED primeVars
    BY <1>0, <1>2, LossEdge, LossUploader
  <1>3. CASE (ApiNext \/ \E c \in Conns : HandlerNext(c)) /\ UNCHANGED dispatcherVars
    BY <1>0, <1>3, LossPrime
  <1>4. ASSUME NEW c \in Conns, DoConnect(c)
        PROVE  LossInv'
    <2>1. /\ upc' = "hello" /\ conn' = c /\ UNCHANGED <<rows, recordVars, htodo, hvalid>>
          /\ hpc[c] \notin Busy /\ hpc' = [hpc EXCEPT ![c] = "recv"]
          /\ \A d \in Conns \ {c} : reqs'[d] = reqs[d]
      BY <1>0, <1>4 DEF DoConnect, FreeSlot, Connect, Accept, Busy, WireTypeOK
    <2>2. waiting' \in MsgIds
      BY <1>4, MsgType, NewIdFresh DEF DoConnect, Connect
    <2>3. Settled' = Settled
      BY <2>1 DEF Settled, recordVars
    <2>4. ClientInv' /\ MarkInv' /\ AwaitedInv' /\ NoSilentLoss'
      BY <2>1, <2>2, <2>3 DEF LossInv, ClientInv, MarkInv, AwaitedInv, NoSilentLoss
    <2>5. HandlerInv'
      BY <1>0, <2>1, <2>3 DEF LossInv, HandlerInv, PrimeTypeOK
    <2> QED  BY <1>0, <2>4, <2>5 DEF LossInv
  <1>5. ASSUME CallFails, UNCHANGED <<reqs, primeVars>>
        PROVE  LossInv'
    <2>1. UNCHANGED rows /\ upc' \in {"sleep", "tick", "events"} /\ ClientInv'
      BY <1>0, <1>5 DEF CallFails, HelloFails, GiveUp, StatusFails, EventFails, NextEvent,
                        BatchFails, ClientInv, Calling
    <2> QED  BY <1>0, <1>5, <2>1, LossNoCall
  <1>6. CASE CallError \/ CallTimesOut
    BY <1>5, <1>6 DEF CallError, CallTimesOut, wireVars
  <1>7. ASSUME NEW c \in Conns, NEW keep \in 0..Len(reqs[c]),
               LinkFails(c, keep) \/ LateReply(c, keep)
        PROVE  LossInv'
    <2>1. /\ UNCHANGED <<dispatcherVars, primeVars>>
          /\ hpc[c] \in Busy => keep > 0
          /\ reqs' = [reqs EXCEPT ![c] = SubSeq(reqs[c], 1, keep)]
          /\ reps' = [reps EXCEPT ![c] = {}]
      BY <1>7 DEF LinkFails, LateReply, Cut
    <2>2. /\ \A i \in DOMAIN reqs'[c] : i \in DOMAIN reqs[c] /\ reqs'[c][i] = reqs[c][i]
          /\ keep > 0 => Head(reqs'[c]) = Head(reqs[c])
      BY <1>0, <2>1, CutType DEF WireTypeOK
    <2>3. Settled' = Settled
      BY <2>1 DEF Settled, primeVars
    <2>4. HandlerInv'
      BY <1>0, <2>1, <2>2, <2>3 DEF LossInv, HandlerInv, primeVars, Busy, WireTypeOK
    <2> QED  BY <1>0, <2>1, <2>2, <2>3, <2>4, LossHandler DEF WireTypeOK
  <1>8. ASSUME NEW keep \in Cuts, DispatcherRestart(keep)
        PROVE  LossInv'
    <2>1. UNCHANGED primeVars /\ upc' = "tick" /\ conn' = NoConn
      BY <1>8 DEF DispatcherRestart, Restart, DispatcherStart
    <2>2. ASSUME NEW c \in Conns, hpc[c] \in Busy
          PROVE  Head(reqs'[c]) = Head(reqs[c])
      <3>1. keep[c] \in 0..Len(reqs[c])
        BY <1>0 DEF Cuts, WireTypeOK
      <3>2. reqs'[c] = SubSeq(reqs[c], 1, keep[c]) /\ keep[c] > 0
        BY <1>8, <2>2 DEF DispatcherRestart, Restart
      <3> QED  BY <1>0, <3>1, <3>2, CutType
    <2>3. \A r \in Records : rows'[r] = "uploaded" => rows[r] = "uploaded"
      BY <1>8 DEF DispatcherRestart, Restart, EmptyTables
    <2>4. ClientInv'
      BY <2>1 DEF ClientInv, Calling
    <2> QED  BY <1>0, <2>1, <2>2, <2>3, <2>4, LossNoCall
  <1>9. CASE PrimeRestart /\ UNCHANGED dispatcherVars
    <2>1. /\ reqs' = [c \in Conns |-> <<>>] /\ reps' = [c \in Conns |-> {}]
          /\ hpc' = [c \in Conns |-> "closed"] /\ UNCHANGED <<stored, rejected, unstored>>
      BY <1>9 DEF PrimeRestart
    <2>2. Settled' = Settled
      BY <2>1 DEF Settled
    <2>3. ClientInv' /\ MarkInv' /\ NoSilentLoss'
      BY <1>9, <2>2 DEF LossInv, ClientInv, MarkInv, NoSilentLoss, dispatcherVars
    <2>4. AwaitedInv' /\ HandlerInv'
      BY <2>1 DEF AwaitedInv, HandlerInv
    <2> QED  BY <1>0, <2>3, <2>4 DEF LossInv
  <1>10. CASE Stopped
    BY <1>1, <1>10 DEF Stopped
  <1> QED
    BY <1>1, <1>2, <1>3, <1>4, <1>6, <1>7, <1>8, <1>9, <1>10 DEF Next

\* LossInv holds of the system, when prime's registries survive its crashes.
THEOREM LossInvariant ==
    ASSUME PrimeDurable
    PROVE  Spec => []LossInv
  <1>1. Init => LossInv
    <2> SUFFICES ASSUME Init PROVE LossInv
      OBVIOUS
    <2>1. TypeOK
      BY InitType
    <2>2. ClientInv /\ MarkInv /\ AwaitedInv
      BY DEF Init, DispatcherInit, ClientInv, MarkInv, AwaitedInv, Calling
    <2>3. HandlerInv /\ NoSilentLoss
      BY DEF Init, PrimeInit, DispatcherInit, HandlerInv, NoSilentLoss, EmptyTables
    <2> QED  BY <2>1, <2>2, <2>3 DEF LossInv
  <1>2. LossInv /\ [Next]_vars => LossInv'
    BY LossStep
  <1> QED  BY <1>1, <1>2, PTL DEF Spec

\* Whatever crashes, lost links, timeouts and late replies occur, a record the
\* dispatcher no longer sends was stored by prime, or its loss is in prime's log.
THEOREM NothingLostSilently ==
    ASSUME PrimeDurable
    PROVE  Spec => []NoSilentLoss
  <1>1. LossInv => NoSilentLoss
    BY DEF LossInv
  <1> QED  BY <1>1, LossInvariant, PTL

-----------------------------------------------------------------------------
(***************************************************************************)
(* With durable storage at both ends the dispatcher and prime implement    *)
(* at-least-once delivery (module Delivery), for any number of records,    *)
(* connections, message ids and disturbances.                              *)
(***************************************************************************)

(***************************************************************************)
(* What the refinement needs beyond LossInv.                               *)
(***************************************************************************)

HasRow == {r \in Records : rows[r] # "none"}

\* A record has no row before the collector stores it, and is stored once ...
CollectInv ==
    /\ HasRow \subseteq sent
    /\ \A i \in DOMAIN chan : chan[i] \in sent /\ rows[chan[i]] = "none"
    /\ \A i, j \in DOMAIN chan : chan[i] = chan[j] => i = j
    /\ cpc \in {"check", "store"} =>
          /\ citem \in sent /\ rows[citem] = "none"
          /\ \A i \in DOMAIN chan : chan[i] # citem

\* ... and prime hears of no record that has no row.
SubmitInv ==
    /\ batch \subseteq HasRow
    /\ \A c \in Conns :
          /\ \A i \in DOMAIN reqs[c] : reqs[c][i].recs \subseteq HasRow
          /\ htodo[c] \subseteq HasRow /\ hvalid[c] \subseteq HasRow

DeliveryInv == LossInv /\ CollectInv /\ SubmitInv

(***************************************************************************)
(* What a step does to the rows and to what prime has settled.             *)
(***************************************************************************)

\* Nothing; or the collector stores a record; or prime settles records it has looked
\* at; or the uploader marks a part of its batch.
LEMMA StepKinds ==
    ASSUME TypeOK, Durable, PrimeDurable, [Next]_vars
    PROVE  \/ rows' = rows /\ Settled' = Settled
           \/ CollectorStore /\ Settled' = Settled
           \/ /\ rows' = rows
              /\ \E c \in Conns : \E S \in SUBSET (htodo[c] \cup hvalid[c]) :
                    Settled' = Settled \cup S
           \/ /\ Settled' = Settled
              /\ upc \in {"markR", "markS"}
              /\ \E S \in SUBSET batch : rows' = MarkUploaded(rows, S)
  <1> USE DEF Settled
  <1>1. CASE UNCHANGED vars
    BY <1>1 DEF vars, dispatcherVars, primeVars
  <1>2. CASE EdgeNext /\ UNCHANGED primeVars
    BY <1>2 DEF EdgeNext, EdgeSend, DeviceDisconnected, Cancel, primeVars
  <1>3. CASE CollectorNext /\ UNCHANGED primeVars
    BY <1>3 DEF CollectorNext, CollectorRecv, CollectorCheck, CollectorStoreFails, CollectorStop,
                primeVars
  <1>4. CASE UploaderNext /\ UNCHANGED primeVars
    <2>1. CASE MarkReadings
      <3>1. batch \cap Readings \in SUBSET batch /\ rows' = MarkUploaded(rows, batch \cap Readings)
        BY <2>1 DEF MarkReadings
      <3> QED  BY <1>4, <2>1, <3>1 DEF MarkReadings, primeVars
    <2>2. CASE MarkStatuses
      <3>1. batch \in SUBSET batch /\ rows' = MarkUploaded(rows, batch)
        BY <2>2 DEF MarkStatuses
      <3> QED  BY <1>4, <2>2, <3>1 DEF MarkStatuses, primeVars
    <2>3. CASE \/ UploaderStop \/ BeginConnect \/ ConnectFails \/ Sleep \/ SendStatus \/ SendEvent
               \/ FetchReadings \/ FetchNothing \/ SendBatch \/ FetchFails \/ MarkFails
      BY <1>4, <2>3 DEF UploaderStop, BeginConnect, ConnectFails, GiveUp, Sleep, SendStatus, SendEvent,
                        FetchReadings, FetchNothing, SendBatch, FetchFails, MarkFails, primeVars
    <2>4. ASSUME NEW c \in Conns, NEW p \in reps[c],
                 \/ HelloAccepted(p) \/ HelloRejected(p) \/ StatusAnswered(p)
                 \/ EventAnswered(p) \/ BatchAnswered(p) \/ DiscardReply(p)
          PROVE  rows' = rows /\ Settled' = Settled
      BY <1>4, <2>4 DEF HelloAccepted, HelloRejected, GiveUp, StatusAnswered, EventAnswered,
                        NextEvent, BatchAnswered, DiscardReply, dispatcherVars, primeVars
    <2> QED  BY <1>4, <2>1, <2>2, <2>3, <2>4 DEF UploaderNext
  <1>5. CASE ApiNext /\ UNCHANGED dispatcherVars
    BY <1>5 DEF ApiNext, RegisterDevice, RegisterDispatcher, SuspendDispatcher, recordVars,
                dispatcherVars
  <1>6. ASSUME NEW c \in Conns, HandlerNext(c), UNCHANGED dispatcherVars
        PROVE  /\ rows' = rows
               /\ \E S \in SUBSET (htodo[c] \cup hvalid[c]) : Settled' = Settled \cup S
    <2>0. rows' = rows
      BY <1>6 DEF dispatcherVars
    <2>1. ASSUME Settled' = Settled
          PROVE  \E S \in SUBSET (htodo[c] \cup hvalid[c]) : Settled' = Settled \cup S
      <3>1. {} \in SUBSET (htodo[c] \cup hvalid[c]) /\ Settled' = Settled \cup {}
        BY <2>1
      <3> QED  BY <3>1
    <2>2. CASE \/ HandleHello(c) \/ HelloLookupFails(c) \/ HandleStatus(c) \/ HandleEvent(c)
               \/ RecvBatch(c) \/ LookupsDone(c) \/ ReplyBatch(c) \/ HandlerEnds(c)
      BY <2>0, <2>1, <2>2 DEF HandleHello, HelloLookupFails, HandleStatus, HandleEvent, RecvBatch,
                              LookupsDone, ReplyBatch, HandlerEnds, recordVars, primeVars
    <2>3. ASSUME NEW r \in Records, Lookup(c, r) \/ LookupFails(c, r)
          PROVE  \E S \in SUBSET (htodo[c] \cup hvalid[c]) : Settled' = Settled \cup S
      <3>1. /\ r \in htodo[c] /\ UNCHANGED <<stored, unstored>>
            /\ rejected' = rejected \/ rejected' = rejected \cup {r}
        BY <2>3 DEF Lookup, LookupFails, LookupNext
      <3>2. {r} \in SUBSET (htodo[c] \cup hvalid[c])
        BY <3>1
      <3>3. CASE rejected' = rejected
        BY <2>1, <3>1, <3>3
      <3>4. CASE rejected' = rejected \cup {r}
        <4>1. Settled' = Settled \cup {r}
          BY <3>1, <3>4
        <4> QED  BY <3>2, <4>1
      <3> QED  BY <3>1, <3>3, <3>4
    <2>4. CASE StoreReadings(c) \/ StoreReadingsFails(c)
      <3>1. Settled' = Settled \cup (hvalid[c] \cap Readings)
        BY <2>4 DEF StoreReadings, StoreReadingsFails
      <3>2. hvalid[c] \cap Readings \in SUBSET (htodo[c] \cup hvalid[c])
        OBVIOUS
      <3> QED  BY <2>0, <3>1, <3>2
    <2>5. CASE StoreStatuses(c) \/ \E done \in SUBSET Statuses : StoreStatusesFails(c, done)
      <3>1. Settled' = Settled \cup (hvalid[c] \cap Statuses)
        BY <2>5 DEF StoreStatuses, StoreStatusesFails
      <3>2. hvalid[c] \cap Statuses \in SUBSET (htodo[c] \cup hvalid[c])
        OBVIOUS
      <3> QED  BY <2>0, <3>1, <3>2
    <2> QED  BY <1>6, <2>0, <2>2, <2>3, <2>4, <2>5 DEF HandlerNext
  <1>7. ASSUME NEW c \in Conns, DoConnect(c)
        PROVE  rows' = rows /\ Settled' = Settled
    BY <1>7 DEF DoConnect, Connect, Accept, recordVars
  <1>8. CASE CallError \/ CallTimesOut
    BY <1>8 DEF CallError, CallTimesOut, CallFails, HelloFails, GiveUp, StatusFails, EventFails,
                NextEvent, BatchFails, primeVars
  <1>9. ASSUME NEW c \in Conns, NEW keep \in 0..Len(reqs[c]),
               LinkFails(c, keep) \/ LateReply(c, keep)
        PROVE  rows' = rows /\ Settled' = Settled
    BY <1>9 DEF LinkFails, LateReply, dispatcherVars, primeVars
  <1>10. ASSUME NEW keep \in Cuts, DispatcherRestart(keep)
         PROVE  rows' = rows /\ Settled' = Settled
    BY <1>10 DEF DispatcherRestart, Restart, primeVars
  <1>11. CASE PrimeRestart /\ UNCHANGED dispatcherVars
    BY <1>11 DEF PrimeRestart, dispatcherVars
  <1>12. CASE Stopped
    BY <1>1, <1>12 DEF Stopped
  <1> QED
    BY <1>1, <1>2, <1>3, <1>4, <1>5, <1>6, <1>7, <1>8, <1>9, <1>10, <1>11, <1>12 DEF Next

\* A row stays, and only the collector makes one.
LEMMA RowsKept ==
    ASSUME TypeOK, Durable, PrimeDurable, [Next]_vars
    PROVE  /\ HasRow \subseteq HasRow'
           /\ ~CollectorStore => HasRow' = HasRow
           /\ \A r \in Records : rows[r] = "none" /\ ~CollectorStore => rows'[r] = "none"
  <1>0. rows \in Tables
    BY DEF TypeOK, DispatcherTypeOK
  <1>1. CASE rows' = rows
    BY <1>1 DEF HasRow
  <1>2. CASE CollectorStore
    <2>1. rows' = [rows EXCEPT ![citem] = "pending"]
      BY <1>2 DEF CollectorStore, Store
    <2>2. \A r \in Records : rows[r] # "none" => rows'[r] # "none"
      BY <1>0, <2>1 DEF Tables
    <2> QED  BY <1>2, <2>2 DEF HasRow
  <1>3. ASSUME NEW S \in SUBSET batch, rows' = MarkUploaded(rows, S)
        PROVE  \A r \in Records : rows'[r] = "none" <=> rows[r] = "none"
    BY <1>3 DEF MarkUploaded
  <1>4. CASE \E S \in SUBSET batch : rows' = MarkUploaded(rows, S)
    BY <1>3, <1>4 DEF HasRow
  <1> QED  BY <1>1, <1>2, <1>4, StepKinds

(***************************************************************************)
(* The collector stores a record once.                                     *)
(***************************************************************************)

LEMMA CollectStep ==
    ASSUME TypeOK, TypeOK', CollectInv, Durable, PrimeDurable, [Next]_vars
    PROVE  CollectInv'
  <1>0. /\ chan \in Seq(Records) /\ sent \subseteq Records /\ rows \in Tables
        /\ citem \in Records \cup {NoRecord}
    BY DEF TypeOK, DispatcherTypeOK
  <1>d. \A i \in DOMAIN chan : chan[i] \in Records
    BY <1>0
  <1>k. ~CollectorStore => /\ HasRow' = HasRow
                           /\ \A r \in Records : rows[r] = "none" => rows'[r] = "none"
    BY RowsKept
  <1>1. ASSUME UNCHANGED <<sent, chan, citem>>, ~CollectorStore,
               cpc' \in {"check", "store"} => cpc \in {"check", "store"}
        PROVE  CollectInv'
    <2>1. sent' = sent /\ chan' = chan /\ citem' = citem
      BY <1>1
    <2>2. \A i \in DOMAIN chan : chan[i] \in sent /\ rows'[chan[i]] = "none"
      BY <1>1, <1>d, <1>k DEF CollectInv
    <2>3. cpc' \in {"check", "store"} => rows'[citem] = "none"
      BY <1>0, <1>1, <1>k DEF CollectInv
    <2> QED  BY <1>1, <1>k, <2>1, <2>2, <2>3 DEF CollectInv
  <1>2. ASSUME chan' = <<>>, HasRow' \subseteq sent', cpc' \notin {"check", "store"}
        PROVE  CollectInv'
    BY <1>2 DEF CollectInv
  <1>3. CASE UNCHANGED vars
    <2>1. ~CollectorStore
      BY <1>3 DEF vars, dispatcherVars, CollectorStore, CollectorNextItem
    <2> QED  BY <1>1, <1>3, <2>1 DEF vars, dispatcherVars
  <1>4. ASSUME NEW r \in Records, EdgeSend(r)
        PROVE  CollectInv'
    <2>1. /\ r \notin sent /\ chan' = Append(chan, r) /\ sent' = sent \cup {r}
          /\ UNCHANGED <<rows, cpc, citem>>
      BY <1>4 DEF EdgeSend, collectorVars
    <2>2. rows[r] = "none"
      BY <2>1 DEF CollectInv, HasRow
    <2>3. \A i \in DOMAIN chan : chan[i] # r
      BY <2>1 DEF CollectInv
    <2>4. \A i \in DOMAIN chan' : \/ i = Len(chan) + 1 /\ chan'[i] = r
                                  \/ i \in DOMAIN chan /\ chan'[i] = chan[i]
      BY <1>0, <2>1
    <2>5. HasRow' = HasRow
      BY <2>1 DEF HasRow
    <2>6. \A i \in DOMAIN chan' : chan'[i] \in sent' /\ rows'[chan'[i]] = "none"
      BY <2>1, <2>2, <2>4 DEF CollectInv
    <2>7. \A i, j \in DOMAIN chan' : chan'[i] = chan'[j] => i = j
      BY <2>3, <2>4 DEF CollectInv
    <2>8. cpc' \in {"check", "store"} =>
              /\ citem' \in sent' /\ rows'[citem'] = "none"
              /\ \A i \in DOMAIN chan' : chan'[i] # citem'
      BY <2>1, <2>4 DEF CollectInv
    <2>9. HasRow' \subseteq sent'
      BY <2>1, <2>5 DEF CollectInv
    <2> QED  BY <2>6, <2>7, <2>8, <2>9 DEF CollectInv
  <1>5. CASE CollectorRecv
    <2>1. /\ cpc = "recv" /\ chan # <<>> /\ citem' = Head(chan) /\ chan' = Tail(chan)
          /\ UNCHANGED <<rows, sent>>
      BY <1>5 DEF CollectorRecv, edgeVars
    <2>2. /\ 1 \in DOMAIN chan /\ citem' = chan[1]
          /\ \A i \in DOMAIN chan' : i + 1 \in DOMAIN chan /\ chan'[i] = chan[i + 1] /\ i + 1 # 1
          /\ \A i \in DOMAIN chan' : i \in Nat
      BY <1>0, <2>1
    <2>3. HasRow' = HasRow
      BY <2>1 DEF HasRow
    <2>4. \A i \in DOMAIN chan' : chan'[i] \in sent' /\ rows'[chan'[i]] = "none"
      BY <2>1, <2>2 DEF CollectInv
    <2>5. ASSUME NEW i \in DOMAIN chan', NEW j \in DOMAIN chan', chan'[i] = chan'[j]
          PROVE  i = j
      <3>1. i + 1 = j + 1
        BY <2>2, <2>5 DEF CollectInv
      <3> QED  BY <2>2, <3>1
    <2>6. /\ citem' \in sent' /\ rows'[citem'] = "none"
          /\ \A i \in DOMAIN chan' : chan'[i] # citem'
      BY <2>1, <2>2 DEF CollectInv
    <2>7. HasRow' \subseteq sent'
      BY <2>1, <2>3 DEF CollectInv
    <2> QED  BY <2>4, <2>5, <2>6, <2>7 DEF CollectInv
  <1>6. CASE CollectorCheck
    <2>1. cpc = "check" /\ UNCHANGED <<sent, chan, citem>> /\ ~CollectorStore
      BY <1>6 DEF CollectorCheck, edgeVars, CollectorStore
    <2> QED  BY <1>1, <2>1
  <1>7. CASE CollectorStore
    <2>1. /\ cpc = "store" /\ cpc' = "recv" /\ UNCHANGED <<sent, chan>>
          /\ rows' = [rows EXCEPT ![citem] = "pending"]
      BY <1>7 DEF CollectorStore, Store, CollectorNextItem, edgeVars
    <2>2. citem \in sent /\ \A i \in DOMAIN chan : chan[i] # citem
      BY <2>1 DEF CollectInv
    <2>3. HasRow' \subseteq sent
      BY <1>0, <2>1, <2>2 DEF CollectInv, HasRow, Tables
    <2>4. \A i \in DOMAIN chan : rows'[chan[i]] = "none"
      BY <1>0, <1>d, <2>1, <2>2 DEF CollectInv, Tables
    <2> QED  BY <2>1, <2>3, <2>4 DEF CollectInv
  <1>8. CASE CollectorStoreFails
    <2>1. cpc' = "recv" /\ UNCHANGED <<sent, chan, rows>>
      BY <1>8 DEF CollectorStoreFails, CollectorNextItem, edgeVars
    <2> QED  BY <2>1 DEF CollectInv, HasRow
  <1>9. CASE CollectorStop
    <2>1. cpc' = "done" /\ chan' = <<>> /\ UNCHANGED <<sent, rows>>
      BY <1>9 DEF CollectorStop, edgeVars
    <2>2. HasRow' \subseteq sent'
      BY <2>1 DEF CollectInv, HasRow
    <2> QED  BY <1>2, <2>1, <2>2
  <1>10. ASSUME NEW keep \in Cuts, DispatcherRestart(keep)
         PROVE  CollectInv'
    <2>1. cpc' = "recv" /\ chan' = <<>> /\ UNCHANGED <<sent, rows>>
      BY <1>10 DEF DispatcherRestart, Restart, DispatcherStart
    <2>2. HasRow' \subseteq sent'
      BY <2>1 DEF CollectInv, HasRow
    <2> QED  BY <1>2, <2>1, <2>2
  <1>11. ASSUME UNCHANGED <<sent, chan, cpc, citem>> PROVE CollectInv'
    <2>1. ~CollectorStore
      BY <1>11 DEF CollectorStore, CollectorNextItem
    <2> QED  BY <1>1, <1>11, <2>1
  <1>12. CASE (\E d \in Devices : DeviceDisconnected(d)) \/ Cancel
    BY <1>11, <1>12 DEF DeviceDisconnected, Cancel, collectorVars, edgeVars
  <1>13. CASE UploaderNext
    <2>1. CASE \/ UploaderStop \/ BeginConnect \/ ConnectFails \/ Sleep \/ SendStatus \/ SendEvent
               \/ FetchReadings \/ FetchNothing \/ SendBatch \/ FetchFails
               \/ MarkReadings \/ MarkStatuses \/ MarkFails
      BY <1>11, <2>1 DEF UploaderStop, BeginConnect, ConnectFails, GiveUp, Sleep, SendStatus, SendEvent,
            FetchReadings, FetchNothing, SendBatch, FetchFails, MarkReadings, MarkStatuses,
            MarkFails, collectorVars, edgeVars
    <2>2. ASSUME NEW c \in Conns, NEW p \in reps[c],
                 \/ HelloAccepted(p) \/ HelloRejected(p) \/ StatusAnswered(p)
                 \/ EventAnswered(p) \/ BatchAnswered(p) \/ DiscardReply(p)
          PROVE  CollectInv'
      BY <1>11, <2>2 DEF HelloAccepted, HelloRejected, GiveUp, StatusAnswered, EventAnswered,
            NextEvent, BatchAnswered, DiscardReply, dispatcherVars, collectorVars, edgeVars
    <2> QED  BY <1>13, <2>1, <2>2 DEF UploaderNext
  <1>14. ASSUME NEW c \in Conns, DoConnect(c) PROVE CollectInv'
    BY <1>11, <1>14 DEF DoConnect, Connect, collectorVars, edgeVars
  <1>15. CASE CallError \/ CallTimesOut
    BY <1>11, <1>15 DEF CallError, CallTimesOut, CallFails, HelloFails, GiveUp, StatusFails,
          EventFails, NextEvent, BatchFails, collectorVars, edgeVars
  <1>16. CASE UNCHANGED dispatcherVars
    BY <1>11, <1>16 DEF dispatcherVars
  <1>17. ASSUME NEW c \in Conns, NEW keep \in 0..Len(reqs[c]),
               LinkFails(c, keep) \/ LateReply(c, keep)
         PROVE  CollectInv'
    BY <1>16, <1>17 DEF LinkFails, LateReply
  <1> QED
    BY <1>3, <1>4, <1>5, <1>6, <1>7, <1>8, <1>9, <1>10, <1>12, <1>13, <1>14, <1>15, <1>16, <1>17
    DEF Next, Stopped, EdgeNext, CollectorNext

(***************************************************************************)
(* Prime hears only of records that have a row.                            *)
(***************************************************************************)

LEMMA SubmitStep ==
    ASSUME TypeOK, SubmitInv, Durable, PrimeDurable, [Next]_vars
    PROVE  SubmitInv'
  <1>0. /\ WireTypeOK /\ conn \in Conns \cup {NoConn} /\ rows \in Tables
        /\ reqs \in [Conns -> Seq(Request)]
        /\ htodo \in [Conns -> SUBSET Records] /\ hvalid \in [Conns -> SUBSET Records]
    BY DEF TypeOK, WireTypeOK, DispatcherTypeOK, PrimeTypeOK
  <1>k. HasRow \subseteq HasRow'
    BY RowsKept
  <1>p. \A S : FetchPending(rows, S) \cap Records \subseteq HasRow
    BY DEF FetchPending, HasRow
  <1>1. ASSUME batch' \subseteq HasRow, UNCHANGED <<htodo, hvalid>>,
               \A c \in Conns : \A i \in DOMAIN reqs'[c] :
                  reqs'[c][i].recs \subseteq HasRow
        PROVE  SubmitInv'
    BY <1>1, <1>k DEF SubmitInv
  <1>2. ASSUME batch' \subseteq HasRow, UNCHANGED <<htodo, hvalid, reqs>>
        PROVE  SubmitInv'
    BY <1>1, <1>2 DEF SubmitInv
  <1>3. ASSUME NEW m \in Request, Send(conn, m), m.recs \subseteq HasRow,
               batch' \subseteq HasRow, UNCHANGED <<htodo, hvalid>>
        PROVE  SubmitInv'
    <2>1. \A d \in Conns : \A i \in DOMAIN reqs'[d] :
              reqs'[d][i] = m \/ (i \in DOMAIN reqs[d] /\ reqs'[d][i] = reqs[d][i])
      BY <1>0, <1>3, SendType
    <2>2. \A d \in Conns : \A i \in DOMAIN reqs'[d] : reqs'[d][i].recs \subseteq HasRow
      BY <1>3, <2>1 DEF SubmitInv
    <2> QED  BY <1>1, <1>3, <2>2
  <1>b. batch \subseteq HasRow
    BY DEF SubmitInv
  <1>4. CASE UNCHANGED vars
    BY <1>2, <1>4, <1>b DEF vars, dispatcherVars, primeVars, wireVars
  <1>5. CASE EdgeNext /\ UNCHANGED primeVars
    BY <1>2, <1>5, <1>b DEF EdgeNext, EdgeSend, DeviceDisconnected, Cancel, primeVars, wireVars,
                            uploaderVars
  <1>6. CASE CollectorNext /\ UNCHANGED primeVars
    BY <1>2, <1>6, <1>b DEF CollectorNext, CollectorRecv, CollectorCheck, CollectorStore,
          CollectorStoreFails, CollectorStop, primeVars, wireVars, uploaderVars
  <1>7. CASE UploaderNext /\ UNCHANGED primeVars
    <2>0. UNCHANGED <<htodo, hvalid>>
      BY <1>7 DEF primeVars
    <2>1. CASE \/ UploaderStop \/ BeginConnect \/ ConnectFails \/ Sleep \/ FetchNothing \/ FetchFails
               \/ MarkReadings \/ MarkStatuses \/ MarkFails
      <3>1. batch' \subseteq batch /\ UNCHANGED reqs
        BY <2>1 DEF UploaderStop, BeginConnect, ConnectFails, GiveUp, Sleep, FetchNothing, FetchFails,
              MarkReadings, MarkStatuses, MarkFails, wireVars
      <3> QED  BY <1>2, <1>b, <2>0, <3>1
    <2>2. CASE FetchReadings
      <3>1. batch' = FetchPending(rows, Readings) /\ UNCHANGED reqs
        BY <2>2 DEF FetchReadings, wireVars
      <3>2. batch' \subseteq HasRow
        BY <3>1 DEF FetchPending, HasRow, Records
      <3> QED  BY <1>2, <2>0, <3>1, <3>2
    <2>3. CASE SendStatus
      <3>1. Msg("Status", {}, NoEvent) \in Request /\ Msg("Status", {}, NoEvent).recs = {}
        BY <2>3, MsgType DEF SendStatus, Call
      <3> QED  BY <1>3, <1>b, <2>0, <2>3, <3>1 DEF SendStatus, Call
    <2>4. CASE SendEvent
      <3>1. Head(evq) \in PrimeEvent
        BY <2>4, HeadTail DEF SendEvent, TypeOK, DispatcherTypeOK
      <3>2. Msg("Event", {}, Head(evq)) \in Request /\ Msg("Event", {}, Head(evq)).recs = {}
        BY <2>4, <3>1, MsgType DEF SendEvent, Call
      <3> QED  BY <1>3, <1>b, <2>0, <2>4, <3>2 DEF SendEvent, Call
    <2>5. CASE SendBatch
      <3> DEFINE recs == batch \cup FetchPending(rows, Statuses)
      <3>1. recs \subseteq HasRow /\ recs \in SUBSET Records
        BY <1>b DEF FetchPending, HasRow, Records
      <3>2. /\ FreshIds # {} /\ Send(conn, Msg("Batch", recs, NoEvent)) /\ batch' = recs
        BY <2>5 DEF SendBatch, Call
      <3> HIDE DEF recs
      <3>3. Msg("Batch", recs, NoEvent) \in Request /\ Msg("Batch", recs, NoEvent).recs = recs
        BY <3>1, <3>2, MsgType
      <3> QED  BY <1>3, <2>0, <3>1, <3>2, <3>3
    <2>6. ASSUME NEW c \in Conns, NEW p \in reps[c],
                 \/ HelloAccepted(p) \/ HelloRejected(p) \/ StatusAnswered(p)
                 \/ EventAnswered(p) \/ BatchAnswered(p) \/ DiscardReply(p)
          PROVE  SubmitInv'
      BY <1>2, <1>b, <2>0, <2>6 DEF HelloAccepted, HelloRejected, GiveUp, StatusAnswered,
            EventAnswered, NextEvent, BatchAnswered, Answer, DiscardReply, dispatcherVars
    <2> QED  BY <1>7, <2>1, <2>2, <2>3, <2>4, <2>5, <2>6 DEF UploaderNext
  <1>8. CASE ApiNext /\ UNCHANGED dispatcherVars
    BY <1>2, <1>8, <1>b DEF ApiNext, RegisterDevice, RegisterDispatcher, SuspendDispatcher,
          dispatcherVars, handlerVars
  <1>9. ASSUME NEW c \in Conns, HandlerNext(c), UNCHANGED dispatcherVars
        PROVE  SubmitInv'
    <2>0. batch' = batch
      BY <1>9 DEF dispatcherVars
    <2>1. ASSUME NEW k \in {"Accepted", "Rejected", "Status", "Event", "Batch"}, Reply(c, k),
                 reqs[c] # <<>>, htodo' = htodo, \A d \in Conns : hvalid'[d] \subseteq hvalid[d]
          PROVE  SubmitInv'
      <3>1. /\ \A d \in Conns \ {c} : reqs'[d] = reqs[d]
            /\ \A i \in DOMAIN reqs'[c] : i + 1 \in DOMAIN reqs[c] /\ reqs'[c][i] = reqs[c][i + 1]
        BY <1>0, <2>1, ReplyType
      <3>2. \A d \in Conns : \A i \in DOMAIN reqs'[d] : reqs'[d][i].recs \subseteq HasRow
        BY <3>1 DEF SubmitInv
      <3> QED  BY <1>k, <1>b, <2>0, <2>1, <3>2 DEF SubmitInv
    <2>2. CASE \/ HandleHello(c) \/ HelloLookupFails(c) \/ HandleStatus(c) \/ HandleEvent(c)
      <3>1. CASE HandleHello(c)
        BY <2>1, <3>1 DEF HandleHello, Receives
      <3>2. CASE HelloLookupFails(c) \/ HandleStatus(c) \/ HandleEvent(c)
        BY <2>1, <3>2 DEF HelloLookupFails, HandleStatus, HandleEvent, Receives, handlerVars,
              primeVars
      <3> QED  BY <2>2, <3>1, <3>2
    <2>3. CASE ReplyBatch(c)
      <3>1. reqs[c] # <<>> /\ \A d \in Conns : hvalid'[d] \subseteq hvalid[d]
        BY <1>0, <2>3 DEF ReplyBatch, TypeOK, PrimeTypeOK, Busy
      <3> QED  BY <2>1, <2>3, <3>1 DEF ReplyBatch
    <2>4. CASE RecvBatch(c)
      <3>1. Head(reqs[c]).recs \subseteq HasRow
        <4>1. 1 \in DOMAIN reqs[c] /\ Head(reqs[c]) = reqs[c][1]
          BY <1>0, <2>4, HeadTail DEF RecvBatch, Receives
        <4> QED  BY <4>1 DEF SubmitInv
      <3>2. /\ reqs' = reqs
            /\ \A d \in Conns : htodo'[d] \subseteq HasRow /\ hvalid'[d] \subseteq HasRow
        BY <1>0, <2>4, <3>1 DEF RecvBatch, wireVars, SubmitInv
      <3> QED  BY <1>k, <2>0, <3>2 DEF SubmitInv
    <2>5. ASSUME NEW r \in Records, Lookup(c, r) \/ LookupFails(c, r)
          PROVE  SubmitInv'
      <3>1. /\ reqs' = reqs /\ r \in htodo[c]
            /\ htodo' = [htodo EXCEPT ![c] = @ \ {r}]
            /\ hvalid' = hvalid \/ hvalid' = [hvalid EXCEPT ![c] = @ \cup {r}]
        BY <2>5 DEF Lookup, LookupFails, LookupNext
      <3>2. \A d \in Conns : htodo'[d] \subseteq HasRow /\ hvalid'[d] \subseteq HasRow
        BY <1>0, <3>1 DEF SubmitInv
      <3> QED  BY <1>k, <2>0, <3>1, <3>2 DEF SubmitInv
    <2>6. CASE \/ LookupsDone(c) \/ StoreReadings(c) \/ StoreReadingsFails(c) \/ StoreStatuses(c)
               \/ (\E done \in SUBSET Statuses : StoreStatusesFails(c, done)) \/ HandlerEnds(c)
      BY <1>2, <1>b, <2>0, <2>6 DEF LookupsDone, StoreReadings, StoreReadingsFails, StoreStatuses,
            StoreStatusesFails, HandlerEnds, wireVars
    <2> QED  BY <1>9, <2>2, <2>3, <2>4, <2>5, <2>6 DEF HandlerNext
  <1>10. ASSUME NEW c \in Conns, DoConnect(c)
         PROVE  SubmitInv'
    <2> DEFINE m == Msg("Hello", {}, NoEvent)
    <2>1. m.recs = {}
      BY <1>10, MsgType DEF DoConnect, Connect
    <2>2. /\ reqs' = [reqs EXCEPT ![c] = <<m>>] /\ UNCHANGED <<batch, htodo, hvalid>>
      BY <1>10 DEF DoConnect, Connect, Accept
    <2> HIDE DEF m
    <2>3. \A d \in Conns : \A i \in DOMAIN reqs'[d] : reqs'[d][i].recs \subseteq HasRow
      BY <1>0, <2>1, <2>2 DEF SubmitInv
    <2> QED  BY <1>1, <1>b, <2>2, <2>3
  <1>11. CASE CallError \/ CallTimesOut
    <2>1. batch' \subseteq batch /\ UNCHANGED <<reqs, htodo, hvalid>>
      BY <1>11 DEF CallError, CallTimesOut, CallFails, HelloFails, GiveUp, StatusFails, EventFails,
            NextEvent, BatchFails, primeVars, wireVars
    <2> QED  BY <1>2, <1>b, <2>1
  <1>12. ASSUME NEW c \in Conns, NEW keep \in 0..Len(reqs[c]),
               LinkFails(c, keep) \/ LateReply(c, keep)
         PROVE  SubmitInv'
    <2>1. /\ reqs' = [reqs EXCEPT ![c] = SubSeq(reqs[c], 1, keep)]
          /\ UNCHANGED <<batch, htodo, hvalid>>
      BY <1>12 DEF LinkFails, LateReply, Cut, dispatcherVars, primeVars
    <2>2. \A i \in DOMAIN reqs'[c] : i \in DOMAIN reqs[c] /\ reqs'[c][i] = reqs[c][i]
      BY <1>0, <2>1, CutType
    <2>3. \A d \in Conns : \A i \in DOMAIN reqs'[d] : reqs'[d][i].recs \subseteq HasRow
      BY <1>0, <2>1, <2>2 DEF SubmitInv
    <2> QED  BY <1>1, <1>b, <2>1, <2>3
  <1>13. ASSUME NEW keep \in Cuts, DispatcherRestart(keep)
         PROVE  SubmitInv'
    <2>1. batch' = {} /\ UNCHANGED <<htodo, hvalid>>
      BY <1>13 DEF DispatcherRestart, Restart, DispatcherStart, primeVars
    <2>2. ASSUME NEW c \in Conns
          PROVE  \A i \in DOMAIN reqs'[c] : i \in DOMAIN reqs[c] /\ reqs'[c][i] = reqs[c][i]
      <3>1. keep[c] \in 0..Len(reqs[c])
        BY <1>0 DEF Cuts
      <3>2. reqs'[c] = SubSeq(reqs[c], 1, keep[c])
        BY <1>13 DEF DispatcherRestart, Restart
      <3> QED  BY <1>0, <3>1, <3>2, CutType
    <2>3. \A d \in Conns : \A i \in DOMAIN reqs'[d] : reqs'[d][i].recs \subseteq HasRow
      BY <2>2 DEF SubmitInv
    <2> QED  BY <1>1, <2>1, <2>3
  <1>14. CASE PrimeRestart /\ UNCHANGED dispatcherVars
    <2>1. /\ batch' = batch /\ reqs' = [c \in Conns |-> <<>>]
          /\ htodo' = [c \in Conns |-> {}] /\ hvalid' = [c \in Conns |-> {}]
      BY <1>14 DEF PrimeRestart, dispatcherVars
    <2> QED  BY <1>k, <1>b, <2>1 DEF SubmitInv
  <1>15. CASE Stopped
    BY <1>4, <1>15 DEF Stopped
  <1> QED
    BY <1>4, <1>5, <1>6, <1>7, <1>8, <1>9, <1>10, <1>11, <1>12, <1>13, <1>14, <1>15 DEF Next

(***************************************************************************)
(* The refinement.                                                         *)
(***************************************************************************)

LEMMA DeliveryStep ==
    ASSUME Durable, PrimeDurable
    PROVE  DeliveryInv /\ [Next]_vars => DeliveryInv'
  <1> SUFFICES ASSUME DeliveryInv, [Next]_vars PROVE DeliveryInv'
    OBVIOUS
  <1>1. LossInv' /\ TypeOK /\ TypeOK'
    BY LossStep, NextType DEF DeliveryInv, LossInv
  <1> QED  BY <1>1, CollectStep, SubmitStep DEF DeliveryInv

\* DeliveryInv holds of the system.
LEMMA DeliveryInvariant ==
    ASSUME Durable, PrimeDurable
    PROVE  Spec => []DeliveryInv
  <1>1. Init => CollectInv /\ SubmitInv
    BY DEF Init, WireInit, DispatcherInit, PrimeInit, CollectInv, SubmitInv, HasRow, EmptyTables
  <1>2. DeliveryInv /\ [Next]_vars => DeliveryInv'
    BY DeliveryStep
  <1>3. Spec => []LossInv
    BY LossInvariant
  <1> QED  BY <1>1, <1>2, <1>3, PTL DEF Spec, DeliveryInv

\* Every step is one of module Delivery's steps, or changes none of its variables.
LEMMA StepRefines ==
    ASSUME Durable, PrimeDurable, DeliveryInv, [Next]_vars
    PROVE  [AtLeastOnce!Next]_<<Buffered, Acked, Settled>>
  <1>0. TypeOK /\ rows \in Tables /\ citem \in Records \cup {NoRecord}
    BY DEF DeliveryInv, LossInv, TypeOK, DispatcherTypeOK
  <1>h. HasRow = Buffered \cup Acked
    BY <1>0 DEF HasRow, Buffered, Acked, Tables, RowState
  <1>1. CASE rows' = rows /\ Settled' = Settled
    BY <1>1 DEF Buffered, Acked
  <1>2. CASE CollectorStore /\ Settled' = Settled
    <2>1. cpc = "store" /\ rows' = [rows EXCEPT ![citem] = "pending"]
      BY <1>2 DEF CollectorStore, Store
    <2>2. citem \in Records /\ rows[citem] = "none"
      BY <2>1 DEF DeliveryInv, LossInv, CollectInv, TypeOK, DispatcherTypeOK
    <2>3. citem \notin Buffered \cup Acked
      BY <2>2 DEF Buffered, Acked
    <2>4. Buffered' = Buffered \cup {citem} /\ Acked' = Acked
      BY <1>0, <2>1, <2>2 DEF Buffered, Acked, Tables
    <2>5. AtLeastOnce!Buffer(citem)
      BY <1>2, <2>3, <2>4 DEF AtLeastOnce!Buffer
    <2> QED  BY <2>2, <2>5 DEF AtLeastOnce!Next
  <1>3. ASSUME rows' = rows, NEW c \in Conns, NEW S \in SUBSET (htodo[c] \cup hvalid[c]),
               Settled' = Settled \cup S
        PROVE  AtLeastOnce!Next
    <2>1. S \subseteq Buffered \cup Acked
      BY <1>h DEF DeliveryInv, SubmitInv
    <2>2. Buffered' = Buffered /\ Acked' = Acked
      BY <1>3 DEF Buffered, Acked
    <2>3. AtLeastOnce!Settle(S)
      BY <1>3, <2>1, <2>2 DEF AtLeastOnce!Settle
    <2>4. S \in SUBSET Records
      BY <2>1 DEF Buffered, Acked
    <2> QED  BY <2>3, <2>4 DEF AtLeastOnce!Next
  <1>4. ASSUME Settled' = Settled, upc \in {"markR", "markS"}, NEW S \in SUBSET batch,
               rows' = MarkUploaded(rows, S)
        PROVE  AtLeastOnce!Next
    <2> DEFINE T == {r \in S \cap Records : rows[r] = "pending"}
    <2>1. T \in SUBSET Records /\ T \subseteq Buffered
      BY DEF Buffered
    <2>2. T \subseteq Settled
      BY <1>4 DEF DeliveryInv, LossInv, MarkInv
    <2>3. \A r \in Records : rows[r] \in {"none", "pending", "uploaded"}
      BY <1>0 DEF Tables, RowState
    <2>4. \A r \in Records : rows'[r] = IF r \in S /\ rows[r] # "none" THEN "uploaded"
                                        ELSE rows[r]
      BY <1>4 DEF MarkUploaded
    <2>5. Buffered' = Buffered \ T
      BY <2>3, <2>4 DEF Buffered
    <2>6. Acked' = Acked \cup T
      BY <2>3, <2>4 DEF Acked
    <2> HIDE DEF T
    <2>7. AtLeastOnce!Acknowledge(T)
      BY <1>4, <2>1, <2>2, <2>5, <2>6 DEF AtLeastOnce!Acknowledge
    <2> QED  BY <2>1, <2>7 DEF AtLeastOnce!Next
  <1> QED  BY <1>0, <1>1, <1>2, <1>3, <1>4, StepKinds

\* For any number of records, connections and faults: the dispatcher's collector and
\* uploader (main.rs) with prime's handlers implement at-least-once delivery, when the
\* buffer and the registries survive crashes.
THEOREM DeliveryImplemented ==
    ASSUME Durable, PrimeDurable
    PROVE  Spec => ImplementsDelivery
  <1>1. Init => AtLeastOnce!Init
    BY DEF Init, DispatcherInit, PrimeInit, AtLeastOnce!Init, Buffered, Acked, Settled, EmptyTables
  <1>2. DeliveryInv /\ [Next]_vars => [AtLeastOnce!Next]_<<Buffered, Acked, Settled>>
    BY StepRefines
  <1>3. Spec => []DeliveryInv
    BY DeliveryInvariant
  <1> QED
    BY <1>1, <1>2, <1>3, PTL DEF Spec, ImplementsDelivery, AtLeastOnce!Spec, AtLeastOnce!vars

-----------------------------------------------------------------------------
(***************************************************************************)
(* The events a dispatcher reports: prime sees each at most once, and one  *)
(* leaves the dispatcher unreported only with a failing call or with the   *)
(* process; for any number of records, sensors, devices, connections,      *)
(* message ids and disturbances.                                           *)
(***************************************************************************)

(***************************************************************************)
(* The inductive invariant.                                                *)
(***************************************************************************)

\* The events taken for this cycle that have not been sent.
Unsent == IF upc = "event" THEN Tail(evq) ELSE evq

\* A queued event is about a device that has left or a status the collector has
\* received, so that the next one to be queued is always new ...
QueuedInv ==
    /\ \A i \in DOMAIN chan : chan[i] \in sent
    /\ IsInjective(chan)
    /\ cpc \in {"check", "store"} => citem \in sent /\ citem \notin Range(chan)
    /\ \A e \in queued :
          IF e.kind = "Disconnection"
            THEN e.of \in gone
            ELSE /\ e.of \in sent /\ e.of \notin Range(chan)
                 /\ cpc = "check" /\ e.of = citem => e.sensor < cnext

\* ... an event is in one place: queued, taken and unsent, under way, or received ...
OnePlaceInv ==
    /\ IsInjective(pending_events) /\ IsInjective(Unsent) /\ IsInjective(received)
    /\ Range(pending_events) \cup Range(Unsent) \cup Range(received) \subseteq queued
    /\ Range(pending_events) \cap Range(Unsent) = {}
    /\ Range(pending_events) \cap Range(received) = {}
    /\ Range(Unsent) \cap Range(received) = {}

SentInv ==
    \A c \in Conns : \A i \in DOMAIN reqs[c] : reqs[c][i].kind = "Event" =>
        /\ reqs[c][i].event \in queued
        /\ reqs[c][i].event \notin Range(pending_events) \cup Range(Unsent) \cup Range(received)
        /\ \A d \in Conns : \A j \in DOMAIN reqs[d] :
              /\ reqs[d][j].kind = "Event"
              /\ reqs[d][j].event = reqs[c][i].event
              => d = c /\ j = i

\* ... and the reply to the call of an event is sent when prime has that event.
ReportInv ==
    /\ upc \notin {"status", "events", "event"} => evq = <<>>
    /\ upc = "event" =>
          \A c \in Conns :
             /\ \A i \in DOMAIN reqs[c] :
                   reqs[c][i].id = waiting =>
                      reqs[c][i].kind = "Event" /\ reqs[c][i].event = Head(evq)
             /\ \A p \in reps[c] : p.to = waiting => Head(evq) \in Range(received)

\* A handler at work on a batch has a batch in hand.
BusyInv == \A c \in Conns : hpc[c] \in Busy => Head(reqs[c]).kind = "Batch"

EventsInv == TypeOK /\ QueuedInv /\ OnePlaceInv /\ SentInv /\ BusyInv /\ ReportInv

(***************************************************************************)
(* What is queued next is new.                                             *)
(***************************************************************************)

\* Appending a new element, and taking the head: what is in the sequence, and that
\* nothing is in it twice.
LEMMA AppendOnce ==
    ASSUME NEW S, NEW s \in Seq(S), NEW e \in S, IsInjective(s), e \notin Range(s)
    PROVE  IsInjective(Append(s, e)) /\ Range(Append(s, e)) = Range(s) \cup {e}
  <1>1. /\ DOMAIN s = 1..Len(s) /\ DOMAIN Append(s, e) = 1..(Len(s) + 1) /\ Len(s) \in Nat
        /\ Append(s, e)[Len(s) + 1] = e
        /\ \A i \in DOMAIN s : Append(s, e)[i] = s[i]
    OBVIOUS
  <1>2. \A i \in DOMAIN Append(s, e) : i \in DOMAIN s \/ i = Len(s) + 1
    BY <1>1
  <1>3. \A i \in DOMAIN s : i \in DOMAIN Append(s, e)
    BY <1>1
  <1>4. Len(s) + 1 \in DOMAIN Append(s, e)
    BY <1>1
  <1> QED  BY <1>1, <1>2, <1>3, <1>4 DEF IsInjective, Range

LEMMA TakeOnce ==
    ASSUME NEW S, NEW s \in Seq(S), s # <<>>, IsInjective(s)
    PROVE  /\ IsInjective(Tail(s)) /\ Range(Tail(s)) \subseteq Range(s)
           /\ Head(s) \in Range(s) /\ Head(s) \notin Range(Tail(s))
           /\ Range(s) = Range(Tail(s)) \cup {Head(s)}
  <1>1. /\ 1 \in DOMAIN s /\ Head(s) = s[1]
        /\ \A i \in DOMAIN Tail(s) : /\ i \in Nat /\ i + 1 \in DOMAIN s /\ i + 1 # 1
                                     /\ Tail(s)[i] = s[i + 1]
    OBVIOUS
  <1>2. \A i \in DOMAIN s : i = 1 \/ (i - 1 \in DOMAIN Tail(s) /\ Tail(s)[i - 1] = s[i])
    OBVIOUS
  <1>3. ASSUME NEW i \in DOMAIN Tail(s), NEW j \in DOMAIN Tail(s), Tail(s)[i] = Tail(s)[j]
        PROVE  i = j
    <2>1. i + 1 = j + 1
      BY <1>1, <1>3 DEF IsInjective
    <2> QED  BY <1>1, <2>1
  <1>4. IsInjective(Tail(s))
    BY <1>3 DEF IsInjective
  <1>5. Range(Tail(s)) \subseteq Range(s) /\ Head(s) \in Range(s)
    BY <1>1 DEF Range
  <1>6. Head(s) \notin Range(Tail(s))
    BY <1>1 DEF IsInjective, Range
  <1>7. ASSUME NEW x \in Range(s), x # Head(s)
        PROVE  x \in Range(Tail(s))
    <2>1. PICK i \in DOMAIN s : s[i] = x
      BY DEF Range
    <2>2. i - 1 \in DOMAIN Tail(s) /\ Tail(s)[i - 1] = x
      BY <1>1, <1>2, <1>7, <2>1
    <2> QED  BY <2>2 DEF Range
  <1> QED  BY <1>4, <1>5, <1>6, <1>7

\* The edge and the collector (run_data_collector).
LEMMA QueuedCollector ==
    ASSUME TypeOK, QueuedInv, EdgeNext \/ CollectorNext
    PROVE  QueuedInv'
  <1>0. /\ chan \in Seq(Records) /\ cnext \in Nat /\ queued \subseteq PrimeEvent
        /\ \A e \in PrimeEvent : e.sensor \in Nat
    BY DEF TypeOK, DispatcherTypeOK, PrimeEvent
  <1>1. ASSUME NEW r \in Records, EdgeSend(r)
        PROVE  QueuedInv'
    <2>1. /\ r \notin sent /\ chan' = Append(chan, r) /\ sent' = sent \cup {r}
          /\ UNCHANGED <<gone, queued, cpc, citem, cnext>>
      BY <1>1 DEF EdgeSend, collectorVars
    <2>2. r \notin Range(chan) /\ IsInjective(chan)
      BY <2>1 DEF QueuedInv, Range
    <2>3. IsInjective(chan') /\ Range(chan') = Range(chan) \cup {r}
      BY <1>0, <2>1, <2>2, AppendOnce
    <2>4. \A i \in DOMAIN chan' : chan'[i] \in sent'
      BY <1>0, <2>1, AppendLast DEF QueuedInv
    <2>5. cpc' \in {"check", "store"} => citem' \in sent' /\ citem' \notin Range(chan')
      BY <2>1, <2>3 DEF QueuedInv
    <2> QED  BY <2>1, <2>3, <2>4, <2>5 DEF QueuedInv
  <1>2. ASSUME NEW d \in Devices, DeviceDisconnected(d)
        PROVE  QueuedInv'
    <2> DEFINE e == [kind |-> "Disconnection", of |-> d, sensor |-> 0]
    <2>1. /\ gone' = gone \cup {d} /\ queued' = queued \cup {e}
          /\ UNCHANGED <<sent, chan, cpc, citem, cnext>>
      BY <1>2 DEF DeviceDisconnected, QueueEvent, collectorVars
    <2>2. e.kind = "Disconnection" /\ e.of = d
      OBVIOUS
    <2> HIDE DEF e
    <2> QED  BY <2>1, <2>2 DEF QueuedInv
  <1>3. CASE Cancel
    BY <1>3 DEF Cancel, edgeVars, collectorVars, QueuedInv
  <1>4. CASE CollectorRecv
    <2>1. /\ cpc = "recv" /\ chan # <<>> /\ citem' = Head(chan) /\ chan' = Tail(chan)
          /\ UNCHANGED <<sent, gone, queued>>
      BY <1>4 DEF CollectorRecv, edgeVars
    <2>2. IsInjective(chan)
      BY DEF QueuedInv
    <2>3. /\ IsInjective(chan') /\ Range(chan') \subseteq Range(chan)
          /\ citem' \in Range(chan) /\ citem' \notin Range(chan')
      BY <1>0, <2>1, <2>2, TakeOnce
    <2>4. Range(chan) \subseteq sent
      BY DEF QueuedInv, Range
    <2>5. \A i \in DOMAIN chan' : chan'[i] \in sent'
      BY <2>1, <2>3, <2>4 DEF Range
    <2>6. ASSUME NEW e \in queued, e.kind # "Disconnection"
          PROVE  e.of \in sent /\ e.of \notin Range(chan)
      BY <2>6 DEF QueuedInv
    <2> QED  BY <2>1, <2>3, <2>4, <2>5, <2>6 DEF QueuedInv
  <1>5. CASE CollectorCheck
    <2> DEFINE e == [kind |-> AlertKind, of |-> citem, sensor |-> cnext]
    <2>1. /\ cpc = "check" /\ cnext' = cnext + 1
          /\ queued' = queued \cup {e} \/ queued' = queued
          /\ cpc' \in {"check", "store"}
          /\ UNCHANGED <<sent, gone, chan, citem>>
      BY <1>5 DEF CollectorCheck, QueueEvent, edgeVars
    <2>2. e.kind # "Disconnection" /\ e.of = citem /\ e.sensor = cnext
      BY DEF AlertKind
    <2> HIDE DEF e
    <2>3. citem \in sent /\ citem \notin Range(chan)
      BY <2>1 DEF QueuedInv
    <2>4. ASSUME NEW f \in queued'
          PROVE  IF f.kind = "Disconnection"
                   THEN f.of \in gone
                   ELSE /\ f.of \in sent /\ f.of \notin Range(chan)
                        /\ f.of = citem => f.sensor < cnext'
      <3>1. CASE f = e
        BY <1>0, <2>1, <2>2, <2>3, <3>1
      <3>2. CASE f \in queued
        <4>1. f.sensor \in Nat
          BY <1>0, <3>2
        <4> QED  BY <1>0, <2>1, <3>2, <4>1 DEF QueuedInv
      <3> QED  BY <2>1, <2>4, <3>1, <3>2
    <2> QED  BY <2>1, <2>3, <2>4 DEF QueuedInv
  <1>6. CASE CollectorStore \/ CollectorStoreFails
    <2>1. cpc' = "recv" /\ UNCHANGED <<sent, gone, queued, chan>>
      BY <1>6 DEF CollectorStore, CollectorStoreFails, CollectorNextItem, edgeVars
    <2> QED  BY <2>1 DEF QueuedInv
  <1>7. CASE CollectorStop
    <2>1. cpc' = "done" /\ chan' = <<>> /\ UNCHANGED <<sent, gone, queued>>
      BY <1>7 DEF CollectorStop, edgeVars
    <2> QED  BY <2>1 DEF QueuedInv, IsInjective, Range
  <1> QED  BY <1>1, <1>2, <1>3, <1>4, <1>5, <1>6, <1>7 DEF EdgeNext, CollectorNext

LEMMA QueuedStep ==
    ASSUME TypeOK, QueuedInv, [Next]_vars
    PROVE  QueuedInv'
  <1>1. ASSUME UNCHANGED <<sent, gone, chan, queued, cpc, citem, cnext>> PROVE QueuedInv'
    BY <1>1 DEF QueuedInv
  <1>2. CASE EdgeNext \/ CollectorNext
    BY <1>2, QueuedCollector
  <1>3. CASE UNCHANGED dispatcherVars
    BY <1>1, <1>3 DEF dispatcherVars
  <1>4. CASE UploaderNext
    <2>1. CASE \/ UploaderStop \/ BeginConnect \/ ConnectFails \/ Sleep \/ SendStatus \/ SendEvent
               \/ FetchReadings \/ FetchNothing \/ SendBatch \/ FetchFails
               \/ MarkReadings \/ MarkStatuses \/ MarkFails
      BY <1>1, <2>1 DEF UploaderStop, BeginConnect, ConnectFails, GiveUp, Sleep, SendStatus, SendEvent,
            FetchReadings, FetchNothing, SendBatch, FetchFails, MarkReadings, MarkStatuses,
            MarkFails, collectorVars, edgeVars
    <2>2. ASSUME NEW c \in Conns, NEW p \in reps[c],
                 \/ HelloAccepted(p) \/ HelloRejected(p) \/ StatusAnswered(p)
                 \/ EventAnswered(p) \/ BatchAnswered(p) \/ DiscardReply(p)
          PROVE  QueuedInv'
      BY <1>1, <2>2 DEF HelloAccepted, HelloRejected, GiveUp, StatusAnswered, EventAnswered,
            NextEvent, BatchAnswered, DiscardReply, dispatcherVars, collectorVars, edgeVars
    <2> QED  BY <1>4, <2>1, <2>2 DEF UploaderNext
  <1>5. ASSUME NEW c \in Conns, DoConnect(c) PROVE QueuedInv'
    BY <1>1, <1>5 DEF DoConnect, Connect, collectorVars, edgeVars
  <1>6. CASE CallError \/ CallTimesOut
    BY <1>1, <1>6 DEF CallError, CallTimesOut, CallFails, HelloFails, GiveUp, StatusFails,
          EventFails, NextEvent, BatchFails, collectorVars, edgeVars
  <1>7. ASSUME NEW keep \in Cuts, DispatcherRestart(keep) PROVE QueuedInv'
    <2>1. /\ cpc' = "recv" /\ chan' = <<>> /\ gone \subseteq gone' /\ UNCHANGED <<sent, queued>>
      BY <1>7 DEF DispatcherRestart, Restart, DispatcherStart
    <2> QED  BY <2>1 DEF QueuedInv, IsInjective, Range
  <1> QED
    BY <1>2, <1>3, <1>4, <1>5, <1>6, <1>7 DEF Next, LinkFails, LateReply, Stopped, vars


(***************************************************************************)
(* An event is in one place.                                               *)
(***************************************************************************)

PlaceInv == OnePlaceInv /\ SentInv

\* Steps that neither queue, take, send nor receive an event: requests are consumed
\* or lost, other requests sent, and unsent events dropped.
LEMMA PlaceQuiet ==
    ASSUME PlaceInv, UNCHANGED <<queued, received>>,
           pending_events' \in {pending_events, <<>>}, Unsent' \in {Unsent, <<>>},
           NEW done \in [Conns -> {0, 1}],
           \A c \in Conns : \A i \in DOMAIN reqs'[c] : i \in Nat,
           \A c \in Conns : \A i \in DOMAIN reqs'[c] : reqs'[c][i].kind = "Event" =>
              i + done[c] \in DOMAIN reqs[c] /\ reqs'[c][i] = reqs[c][i + done[c]]
    PROVE  PlaceInv'
  <1>1. IsInjective(<<>>) /\ Range(<<>>) = {}
    BY DEF IsInjective, Range
  <1>2. /\ IsInjective(pending_events') /\ Range(pending_events') \subseteq Range(pending_events)
        /\ IsInjective(Unsent') /\ Range(Unsent') \subseteq Range(Unsent)
    <2>1. IsInjective(pending_events) /\ IsInjective(Unsent)
      BY DEF PlaceInv, OnePlaceInv
    <2> QED  BY <1>1, <2>1
  <1>3. /\ IsInjective(received') /\ Range(received') = Range(received)
    BY DEF PlaceInv, OnePlaceInv
  <1>4. OnePlaceInv'
    BY <1>2, <1>3 DEF PlaceInv, OnePlaceInv
  <1>5. SentInv'
    <2> SUFFICES ASSUME NEW c \in Conns, NEW i \in DOMAIN reqs'[c], reqs'[c][i].kind = "Event"
                 PROVE  /\ reqs'[c][i].event \in queued
                        /\ reqs'[c][i].event \notin Range(pending_events') \cup Range(Unsent')
                                                                       \cup Range(received')
                        /\ \A d \in Conns : \A j \in DOMAIN reqs'[d] :
                              /\ reqs'[d][j].kind = "Event"
                              /\ reqs'[d][j].event = reqs'[c][i].event
                              => d = c /\ j = i
      BY DEF SentInv
    <2>1. i + done[c] \in DOMAIN reqs[c] /\ reqs'[c][i] = reqs[c][i + done[c]]
      OBVIOUS
    <2>2. /\ reqs'[c][i].event \in queued
          /\ reqs'[c][i].event \notin Range(pending_events) \cup Range(Unsent) \cup Range(received)
      BY <2>1 DEF PlaceInv, SentInv
    <2>3. ASSUME NEW d \in Conns, NEW j \in DOMAIN reqs'[d], reqs'[d][j].kind = "Event",
                 reqs'[d][j].event = reqs'[c][i].event
          PROVE  d = c /\ j = i
      <3>1. j + done[d] \in DOMAIN reqs[d] /\ reqs'[d][j] = reqs[d][j + done[d]]
        BY <2>3
      <3>2. d = c /\ j + done[d] = i + done[c]
        BY <2>1, <2>3, <3>1 DEF PlaceInv, SentInv
      <3> QED  BY <3>2
    <2> QED  BY <1>2, <1>3, <2>2, <2>3
  <1> QED  BY <1>4, <1>5 DEF PlaceInv

\* A request that is no event is sent.
LEMMA PlaceSend ==
    ASSUME TypeOK, TypeOK', PlaceInv, UNCHANGED <<queued, received, pending_events>>,
           Unsent' = Unsent, NEW m \in Request, m.kind # "Event", Send(conn, m)
    PROVE  PlaceInv'
  <1> DEFINE done == [c \in Conns |-> 0]
  <1>1. done \in [Conns -> {0, 1}] /\ \A c \in Conns : done[c] = 0
    OBVIOUS
  <1>2. \A c \in Conns : \A i \in DOMAIN reqs'[c] :
            reqs'[c][i] = m \/ (i \in DOMAIN reqs[c] /\ reqs'[c][i] = reqs[c][i])
    BY SendType DEF TypeOK, DispatcherTypeOK
  <1>3. \A c \in Conns : \A i \in DOMAIN reqs'[c] : i \in Nat
    BY DEF TypeOK, WireTypeOK
  <1> HIDE DEF done
  <1>4. \A c \in Conns : \A i \in DOMAIN reqs'[c] : reqs'[c][i].kind = "Event" =>
            i + done[c] \in DOMAIN reqs[c] /\ reqs'[c][i] = reqs[c][i + done[c]]
    BY <1>1, <1>2, <1>3
  <1> QED  BY <1>1, <1>3, <1>4, PlaceQuiet

\* Requests are kept or lost.
LEMMA PlaceKept ==
    ASSUME PlaceInv, TypeOK', UNCHANGED <<queued, received>>,
           pending_events' \in {pending_events, <<>>}, Unsent' \in {Unsent, <<>>},
           \A c \in Conns : \A i \in DOMAIN reqs'[c] : reqs'[c][i].kind = "Event" =>
              i \in DOMAIN reqs[c] /\ reqs'[c][i] = reqs[c][i]
    PROVE  PlaceInv'
  <1> DEFINE done == [c \in Conns |-> 0]
  <1>1. done \in [Conns -> {0, 1}] /\ \A c \in Conns : done[c] = 0
    OBVIOUS
  <1>2. \A c \in Conns : \A i \in DOMAIN reqs'[c] : i \in Nat
    BY DEF TypeOK, WireTypeOK
  <1> HIDE DEF done
  <1>3. \A c \in Conns : \A i \in DOMAIN reqs'[c] : reqs'[c][i].kind = "Event" =>
            i + done[c] \in DOMAIN reqs[c] /\ reqs'[c][i] = reqs[c][i + done[c]]
    BY <1>1, <1>2
  <1> QED  BY <1>1, <1>2, <1>3, PlaceQuiet

\* An event is queued (DispatcherState::device_disconnected, queue_event).
LEMMA PlaceQueued ==
    ASSUME TypeOK, PlaceInv, NEW e \in PrimeEvent, e \notin queued, QueueEvent(e),
           UNCHANGED <<reqs, received, upc, evq>>
    PROVE  PlaceInv'
  <1>0. pending_events \in Seq(PrimeEvent)
    BY DEF TypeOK, DispatcherTypeOK
  <1>1. IsInjective(pending_events) /\ e \notin Range(pending_events)
    BY DEF PlaceInv, OnePlaceInv
  <1>2. IsInjective(pending_events') /\ Range(pending_events') = Range(pending_events) \cup {e}
    BY <1>0, <1>1, AppendOnce DEF QueueEvent
  <1>3. queued' = queued \cup {e} /\ Unsent' = Unsent
    BY DEF QueueEvent, Unsent
  <1>4. OnePlaceInv'
    BY <1>2, <1>3 DEF PlaceInv, OnePlaceInv
  <1>5. SentInv'
    <2>1. ASSUME NEW c \in Conns, NEW i \in DOMAIN reqs[c], reqs[c][i].kind = "Event"
          PROVE  /\ reqs[c][i].event \in queued'
                 /\ reqs[c][i].event \notin Range(pending_events') \cup Range(Unsent')
                                                               \cup Range(received')
      BY <1>2, <1>3, <2>1 DEF PlaceInv, SentInv
    <2> QED  BY <2>1 DEF PlaceInv, SentInv
  <1> QED  BY <1>4, <1>5 DEF PlaceInv

\* take_pending_events, with the status call.
LEMMA PlaceTaken ==
    ASSUME TypeOK, TypeOK', PlaceInv, ReportInv, SendStatus, received' = received
    PROVE  PlaceInv'
  <1>1. /\ upc \notin {"status", "events", "event"} /\ upc' = "status"
        /\ evq' = pending_events /\ pending_events' = <<>> /\ queued' = queued
        /\ Send(conn, Msg("Status", {}, NoEvent)) /\ FreshIds # {}
    BY DEF SendStatus, Call
  <1>2. Unsent = <<>> /\ Unsent' = pending_events
    BY <1>1 DEF Unsent, ReportInv
  <1>3. Range(<<>>) = {} /\ IsInjective(<<>>)
    BY DEF Range, IsInjective
  <1>4. OnePlaceInv'
    BY <1>1, <1>2, <1>3 DEF PlaceInv, OnePlaceInv
  <1>5. /\ Msg("Status", {}, NoEvent) \in Request /\ Msg("Status", {}, NoEvent).kind = "Status"
    BY <1>1, MsgType
  <1>6. \A c \in Conns : \A i \in DOMAIN reqs'[c] : reqs'[c][i].kind = "Event" =>
            i \in DOMAIN reqs[c] /\ reqs'[c][i] = reqs[c][i]
    BY <1>1, <1>5, SendType DEF TypeOK, DispatcherTypeOK
  <1>7. ASSUME NEW c \in Conns, NEW i \in DOMAIN reqs'[c], reqs'[c][i].kind = "Event"
        PROVE  /\ reqs'[c][i].event \in queued'
               /\ reqs'[c][i].event \notin Range(pending_events') \cup Range(Unsent')
                                                              \cup Range(received')
               /\ \A d \in Conns : \A j \in DOMAIN reqs'[d] :
                     /\ reqs'[d][j].kind = "Event"
                     /\ reqs'[d][j].event = reqs'[c][i].event
                     => d = c /\ j = i
    <2>1. i \in DOMAIN reqs[c] /\ reqs'[c][i] = reqs[c][i] /\ reqs[c][i].kind = "Event"
      BY <1>6, <1>7
    <2>2. /\ reqs[c][i].event \in queued
          /\ reqs[c][i].event \notin Range(pending_events) \cup Range(Unsent) \cup Range(received)
      BY <2>1 DEF PlaceInv, SentInv
    <2>3. ASSUME NEW d \in Conns, NEW j \in DOMAIN reqs'[d], reqs'[d][j].kind = "Event",
                 reqs'[d][j].event = reqs'[c][i].event
          PROVE  d = c /\ j = i
      <3>1. j \in DOMAIN reqs[d] /\ reqs'[d][j] = reqs[d][j]
        BY <1>6, <2>3
      <3> QED  BY <2>1, <2>3, <3>1 DEF PlaceInv, SentInv
    <2> QED  BY <1>1, <1>2, <1>3, <2>1, <2>2, <2>3
  <1>8. SentInv'
    BY <1>7 DEF SentInv
  <1> QED  BY <1>4, <1>8 DEF PlaceInv


\* The place of a request that is sent.
LEMMA SendPlace ==
    ASSUME WireTypeOK, NEW c \in Conns \cup {NoConn}, NEW m \in Request, Send(c, m)
    PROVE  \A d \in Conns : \A i \in DOMAIN reqs'[d] :
              \/ i \in DOMAIN reqs[d] /\ reqs'[d][i] = reqs[d][i]
              \/ d = c /\ i = Len(reqs[d]) + 1 /\ reqs'[d][i] = m
  <1> SUFFICES ASSUME NEW d \in Conns, NEW i \in DOMAIN reqs'[d]
               PROVE  \/ i \in DOMAIN reqs[d] /\ reqs'[d][i] = reqs[d][i]
                      \/ d = c /\ i = Len(reqs[d]) + 1 /\ reqs'[d][i] = m
    OBVIOUS
  <1>1. reqs[d] \in Seq(Request)
    BY DEF WireTypeOK
  <1>2. reqs'[d] = reqs[d] \/ (d = c /\ reqs'[d] = Append(reqs[d], m))
    BY DEF WireTypeOK, Send
  <1>3. CASE reqs'[d] = reqs[d]
    BY <1>3
  <1>4. CASE d = c /\ reqs'[d] = Append(reqs[d], m)
    <2> DEFINE q == reqs[d]
    <2>1. q \in Seq(Request) /\ i \in DOMAIN Append(q, m) /\ reqs'[d][i] = Append(q, m)[i]
      BY <1>1, <1>4
    <2> HIDE DEF q
    <2>2. \/ i \in DOMAIN q /\ Append(q, m)[i] = q[i]
          \/ i = Len(q) + 1 /\ Append(q, m)[i] = m
      BY <2>1
    <2> QED  BY <1>4, <2>1, <2>2 DEF q
  <1> QED  BY <1>2, <1>3, <1>4

\* alert or device_disconnection is called: the event is sent, once.
LEMMA PlaceSent ==
    ASSUME TypeOK, PlaceInv, SendEvent, received' = received
    PROVE  PlaceInv'
  <1> DEFINE e == Head(evq)
             m == Msg("Event", {}, e)
  <1>0. evq \in Seq(PrimeEvent) /\ evq # <<>> /\ WireTypeOK /\ conn \in Conns \cup {NoConn}
    BY DEF SendEvent, TypeOK, DispatcherTypeOK
  <1>1. /\ upc = "events" /\ upc' = "event" /\ FreshIds # {} /\ Send(conn, m)
        /\ UNCHANGED <<evq, pending_events, queued>>
    BY DEF SendEvent, Call
  <1>2. Unsent = evq /\ Unsent' = Tail(evq)
    BY <1>1 DEF Unsent
  <1>3. e \in PrimeEvent
    BY <1>0, HeadTail
  <1>4. m \in Request /\ m.event = e
    BY <1>1, <1>3, MsgType
  <1>5. IsInjective(evq)
    BY <1>2 DEF PlaceInv, OnePlaceInv
  <1>6. /\ IsInjective(Unsent') /\ Range(Unsent') \subseteq Range(Unsent)
        /\ e \in Range(Unsent) /\ e \notin Range(Unsent')
    BY <1>0, <1>2, <1>5, TakeOnce
  <1> HIDE DEF e, m
  <1>7. \A c \in Conns : \A i \in DOMAIN reqs'[c] :
            \/ i \in DOMAIN reqs[c] /\ reqs'[c][i] = reqs[c][i]
            \/ c = conn /\ i = Len(reqs[c]) + 1 /\ reqs'[c][i] = m
    BY <1>0, <1>1, <1>4, SendPlace
  <1>8. OnePlaceInv'
    BY <1>1, <1>6 DEF PlaceInv, OnePlaceInv
  <1>9. ASSUME NEW c \in Conns, NEW i \in DOMAIN reqs'[c], reqs'[c][i].kind = "Event"
        PROVE  /\ reqs'[c][i].event \in queued'
               /\ reqs'[c][i].event \notin Range(pending_events') \cup Range(Unsent')
                                                              \cup Range(received')
               /\ \A d \in Conns : \A j \in DOMAIN reqs'[d] :
                     /\ reqs'[d][j].kind = "Event"
                     /\ reqs'[d][j].event = reqs'[c][i].event
                     => d = c /\ j = i
    <2>0. e \in queued /\ e \notin Range(pending_events) \cup Range(received)
      BY <1>6 DEF PlaceInv, OnePlaceInv
    <2>1. \A d \in Conns : \A j \in DOMAIN reqs[d] : reqs[d][j].kind = "Event" =>
              reqs[d][j].event # e
      BY <1>6 DEF PlaceInv, SentInv
    <2>2. CASE i \in DOMAIN reqs[c] /\ reqs'[c][i] = reqs[c][i]
      <3>1. /\ reqs'[c][i].event \in queued'
            /\ reqs'[c][i].event \notin Range(pending_events') \cup Range(Unsent')
                                                           \cup Range(received')
        BY <1>1, <1>6, <1>9, <2>2 DEF PlaceInv, SentInv
      <3>2. ASSUME NEW d \in Conns, NEW j \in DOMAIN reqs'[d], reqs'[d][j].kind = "Event",
                   reqs'[d][j].event = reqs'[c][i].event
            PROVE  d = c /\ j = i
        <4>1. j \in DOMAIN reqs[d] /\ reqs'[d][j] = reqs[d][j]
          BY <1>4, <1>7, <1>9, <2>1, <2>2, <3>2
        <4> QED  BY <1>9, <2>2, <3>2, <4>1 DEF PlaceInv, SentInv
      <3> QED  BY <3>1, <3>2
    <2>3. CASE c = conn /\ i = Len(reqs[c]) + 1 /\ reqs'[c][i] = m
      <3>1. ASSUME NEW d \in Conns, NEW j \in DOMAIN reqs'[d], reqs'[d][j].kind = "Event",
                   reqs'[d][j].event = reqs'[c][i].event
            PROVE  d = c /\ j = i
        <4>1. reqs'[d][j].event = e
          BY <1>4, <2>3, <3>1
        <4>2. ~(j \in DOMAIN reqs[d] /\ reqs'[d][j] = reqs[d][j])
          BY <2>1, <3>1, <4>1
        <4>3. d = conn /\ j = Len(reqs[d]) + 1
          BY <1>7, <3>1, <4>2
        <4> QED  BY <2>3, <4>3
      <3> QED  BY <1>1, <1>4, <1>6, <2>0, <2>3, <3>1
    <2> QED  BY <1>7, <2>2, <2>3
  <1>10. SentInv'
    BY <1>9 DEF SentInv
  <1> QED  BY <1>8, <1>10 DEF PlaceInv

\* Prime's handler answers a request: what it leaves of the requests.
LEMMA ReplyPlaces ==
    ASSUME TypeOK, NEW c \in Conns, reqs[c] # <<>>,
           NEW k \in {"Accepted", "Rejected", "Status", "Event", "Batch"}, Reply(c, k)
    PROVE  \E done \in [Conns -> {0, 1}] :
              /\ done[c] = 1
              /\ \A d \in Conns : \A i \in DOMAIN reqs'[d] :
                    i \in Nat \ {0} /\ i + done[d] \in DOMAIN reqs[d]
                    /\ reqs'[d][i] = reqs[d][i + done[d]]
  <1> DEFINE done == [d \in Conns |-> IF d = c THEN 1 ELSE 0]
  <1>0. WireTypeOK
    BY DEF TypeOK
  <1>1. /\ reqs' \in [Conns -> Seq(Request)]
        /\ \A d \in Conns \ {c} : reqs'[d] = reqs[d]
        /\ \A i \in DOMAIN reqs'[c] : i + 1 \in DOMAIN reqs[c] /\ reqs'[c][i] = reqs[c][i + 1]
    BY <1>0, ReplyType
  <1>2. \A d \in Conns : \A i \in DOMAIN reqs'[d] : i \in Nat \ {0}
    BY <1>1
  <1>3. /\ done \in [Conns -> {0, 1}] /\ done[c] = 1
        /\ \A d \in Conns \ {c} : done[d] = 0
    OBVIOUS
  <1> HIDE DEF done
  <1>4. ASSUME NEW d \in Conns, NEW i \in DOMAIN reqs'[d]
        PROVE  i + done[d] \in DOMAIN reqs[d] /\ reqs'[d][i] = reqs[d][i + done[d]]
    <2>1. CASE d = c
      BY <1>1, <1>3, <2>1
    <2>2. CASE d # c
      BY <1>1, <1>2, <1>3, <2>2
    <2> QED  BY <2>1, <2>2
  <1> QED  BY <1>2, <1>3, <1>4

\* on_alert or on_device_disconnection.
LEMMA PlaceReceived ==
    ASSUME TypeOK, PlaceInv, NEW c \in Conns, HandleEvent(c), UNCHANGED dispatcherVars
    PROVE  PlaceInv'
  <1> DEFINE e == Head(reqs[c]).event
  <1>0. reqs[c] \in Seq(Request) /\ received \in Seq(PrimeEvent)
    BY DEF TypeOK, WireTypeOK, PrimeTypeOK
  <1>1. /\ reqs[c] # <<>> /\ Head(reqs[c]).kind = "Event" /\ Reply(c, "Event")
        /\ received' = Append(received, e)
        /\ UNCHANGED <<pending_events, queued, upc, evq>>
    BY DEF HandleEvent, Receives, dispatcherVars
  <1>2. Unsent' = Unsent
    BY <1>1 DEF Unsent
  <1>3. 1 \in DOMAIN reqs[c] /\ Head(reqs[c]) = reqs[c][1] /\ Head(reqs[c]) \in Request
    BY <1>0, <1>1, HeadTail
  <1>4. e \in PrimeEvent
    BY <1>1, <1>3 DEF Request
  <1>5. e \in queued /\ e \notin Range(pending_events) \cup Range(Unsent) \cup Range(received)
    BY <1>1, <1>3 DEF PlaceInv, SentInv
  <1>6. PICK done \in [Conns -> {0, 1}] :
            /\ done[c] = 1
            /\ \A d \in Conns : \A i \in DOMAIN reqs'[d] :
                  i \in Nat \ {0} /\ i + done[d] \in DOMAIN reqs[d]
                  /\ reqs'[d][i] = reqs[d][i + done[d]]
    BY <1>1, ReplyPlaces
  <1>7. \A d \in Conns : \A j \in DOMAIN reqs[d] :
            reqs[d][j].kind = "Event" /\ reqs[d][j].event = e => d = c /\ j = 1
    BY <1>1, <1>3 DEF PlaceInv, SentInv
  <1> HIDE DEF e
  <1>8. IsInjective(received') /\ Range(received') = Range(received) \cup {e}
    <2>1. IsInjective(received)
      BY DEF PlaceInv, OnePlaceInv
    <2> QED  BY <1>0, <1>1, <1>4, <1>5, <2>1, AppendOnce
  <1>9. OnePlaceInv'
    BY <1>1, <1>2, <1>5, <1>8 DEF PlaceInv, OnePlaceInv
  <1>10. ASSUME NEW d \in Conns, NEW i \in DOMAIN reqs'[d], reqs'[d][i].kind = "Event"
         PROVE  /\ reqs'[d][i].event \in queued'
                /\ reqs'[d][i].event \notin Range(pending_events') \cup Range(Unsent')
                                                               \cup Range(received')
                /\ \A b \in Conns : \A j \in DOMAIN reqs'[b] :
                      /\ reqs'[b][j].kind = "Event"
                      /\ reqs'[b][j].event = reqs'[d][i].event
                      => b = d /\ j = i
    <2>1. /\ i + done[d] \in DOMAIN reqs[d] /\ reqs'[d][i] = reqs[d][i + done[d]]
          /\ i \in Nat \ {0} /\ done[d] \in {0, 1}
      BY <1>6
    <2>2. reqs'[d][i].event # e
      <3>1. d = c => i + done[d] # 1
        BY <1>6, <2>1
      <3> QED  BY <1>7, <1>10, <2>1, <3>1
    <2>3. /\ reqs'[d][i].event \in queued
          /\ reqs'[d][i].event \notin Range(pending_events) \cup Range(Unsent) \cup Range(received)
      BY <1>10, <2>1 DEF PlaceInv, SentInv
    <2>4. ASSUME NEW b \in Conns, NEW j \in DOMAIN reqs'[b], reqs'[b][j].kind = "Event",
                 reqs'[b][j].event = reqs'[d][i].event
          PROVE  b = d /\ j = i
      <3>1. /\ j + done[b] \in DOMAIN reqs[b] /\ reqs'[b][j] = reqs[b][j + done[b]]
            /\ j \in Nat \ {0} /\ done[b] \in {0, 1}
        BY <1>6
      <3>2. b = d /\ j + done[b] = i + done[d]
        BY <1>10, <2>1, <2>4, <3>1 DEF PlaceInv, SentInv
      <3> QED  BY <2>1, <3>1, <3>2
    <2> QED  BY <1>1, <1>2, <1>8, <2>2, <2>3, <2>4
  <1>11. SentInv'
    BY <1>10 DEF SentInv
  <1> QED  BY <1>9, <1>11 DEF PlaceInv


\* What CollectorCheck and device_disconnected queue was never queued before.
LEMMA PlaceEdge ==
    ASSUME TypeOK, TypeOK', QueuedInv, PlaceInv, EdgeNext \/ CollectorNext, UNCHANGED primeVars
    PROVE  PlaceInv'
  <1>0. received' = received
    BY DEF primeVars
  <1>1. ASSUME UNCHANGED <<reqs, upc, evq, pending_events, queued>> PROVE PlaceInv'
    <2>1. Unsent' = Unsent
      BY <1>1 DEF Unsent
    <2> QED  BY <1>0, <1>1, <2>1, PlaceKept
  <1>2. CASE \/ \E r \in Records : EdgeSend(r)
             \/ Cancel \/ CollectorRecv \/ CollectorStore \/ CollectorStoreFails \/ CollectorStop
    BY <1>1, <1>2 DEF EdgeSend, Cancel, CollectorRecv, CollectorStore, CollectorStoreFails,
          CollectorStop, wireVars, uploaderVars
  <1>3. ASSUME NEW d \in Devices, DeviceDisconnected(d) PROVE PlaceInv'
    <2> DEFINE e == [kind |-> "Disconnection", of |-> d, sensor |-> 0]
    <2>1. d \notin gone /\ QueueEvent(e) /\ UNCHANGED <<reqs, upc, evq>>
      BY <1>3 DEF DeviceDisconnected, uploaderVars
    <2>2. e \in PrimeEvent /\ e.kind = "Disconnection" /\ e.of = d
      BY DEF PrimeEvent
    <2> HIDE DEF e
    <2>3. e \notin queued
      BY <2>1, <2>2 DEF QueuedInv
    <2> QED  BY <1>0, <2>1, <2>2, <2>3, PlaceQueued
  <1>4. CASE CollectorCheck
    <2> DEFINE e == [kind |-> AlertKind, of |-> citem, sensor |-> cnext]
    <2>1. /\ cpc = "check" /\ UNCHANGED <<reqs, upc, evq>>
          /\ QueueEvent(e) \/ UNCHANGED <<pending_events, queued>>
      BY <1>4 DEF CollectorCheck, wireVars, uploaderVars
    <2>2. citem \in Statuses /\ cnext \in Nat
      BY <2>1 DEF TypeOK, DispatcherTypeOK
    <2>3. e \in PrimeEvent /\ e.kind # "Disconnection" /\ e.of = citem /\ e.sensor = cnext
      BY <2>2 DEF PrimeEvent, AlertKind
    <2> HIDE DEF e
    <2>4. e \notin queued
      <3> SUFFICES ASSUME e \in queued PROVE FALSE
        OBVIOUS
      <3>1. cnext < cnext
        BY <2>1, <2>3 DEF QueuedInv
      <3> QED  BY <2>2, <3>1
    <2> QED  BY <1>0, <1>1, <2>1, <2>3, <2>4, PlaceQueued
  <1> QED  BY <1>2, <1>3, <1>4 DEF EdgeNext, CollectorNext

\* The uploader, and the errors of its calls.
LEMMA PlaceUploader ==
    ASSUME TypeOK, TypeOK', PlaceInv, ReportInv, UNCHANGED primeVars,
           UploaderNext \/ CallError \/ CallTimesOut
    PROVE  PlaceInv'
  <1>0. received' = received
    BY DEF primeVars
  <1>1. ASSUME UNCHANGED <<reqs, pending_events, queued>>, Unsent' \in {Unsent, <<>>} PROVE PlaceInv'
    BY <1>0, <1>1, PlaceKept
  <1>2. ASSUME upc # "event", upc' # "event", UNCHANGED <<reqs, evq, pending_events, queued>>
        PROVE  PlaceInv'
    BY <1>1, <1>2 DEF Unsent
  <1>3. CASE \/ UploaderStop \/ BeginConnect \/ ConnectFails \/ Sleep \/ FetchReadings \/ FetchNothing
             \/ FetchFails \/ MarkReadings \/ MarkStatuses \/ MarkFails
    BY <1>2, <1>3 DEF UploaderStop, BeginConnect, ConnectFails, GiveUp, Sleep, FetchReadings, FetchNothing,
          FetchFails, MarkReadings, MarkStatuses, MarkFails, wireVars
  <1>4. CASE SendStatus
    BY <1>0, <1>4, PlaceTaken
  <1>5. CASE SendEvent
    BY <1>0, <1>5, PlaceSent
  <1>6. CASE SendBatch
    <2> DEFINE recs == batch \cup FetchPending(rows, Statuses)
               m == Msg("Batch", recs, NoEvent)
    <2>1. recs \in SUBSET Records
      BY DEF FetchPending, Records, TypeOK, DispatcherTypeOK
    <2>2. m \in Request /\ m.kind = "Batch"
      BY <1>6, <2>1, MsgType DEF SendBatch, Call
    <2>3. /\ upc # "event" /\ upc' # "event" /\ Send(conn, m)
          /\ UNCHANGED <<evq, pending_events, queued>>
      BY <1>6 DEF SendBatch, Call
    <2> HIDE DEF m
    <2>4. Unsent' = Unsent
      BY <2>3 DEF Unsent
    <2> QED  BY <1>0, <2>2, <2>3, <2>4, PlaceSend
  <1>7. ASSUME upc = "event", NextEvent, reqs' = reqs PROVE PlaceInv'
    <2>1. Unsent' = Unsent /\ UNCHANGED <<pending_events, queued>>
      BY <1>7 DEF NextEvent, Unsent
    <2> QED  BY <1>1, <1>7, <2>1
  <1>8. ASSUME NEW c \in Conns, NEW p \in reps[c],
               \/ HelloAccepted(p) \/ HelloRejected(p) \/ StatusAnswered(p)
               \/ EventAnswered(p) \/ BatchAnswered(p) \/ DiscardReply(p)
        PROVE  PlaceInv'
    <2>1. CASE \/ HelloAccepted(p) \/ HelloRejected(p) \/ StatusAnswered(p) \/ BatchAnswered(p)
      BY <1>2, <2>1 DEF HelloAccepted, HelloRejected, GiveUp, StatusAnswered, BatchAnswered, Answer
    <2>2. CASE EventAnswered(p)
      BY <1>7, <2>2 DEF EventAnswered, Answer
    <2>3. CASE DiscardReply(p)
      <3>1. UNCHANGED <<reqs, upc, evq, pending_events, queued>>
        BY <2>3 DEF DiscardReply, dispatcherVars
      <3> QED  BY <1>1, <3>1 DEF Unsent
    <2> QED  BY <1>8, <2>1, <2>2, <2>3
  <1>9. ASSUME CallFails, reqs' = reqs PROVE PlaceInv'
    <2>1. CASE HelloFails \/ BatchFails
      BY <1>2, <1>9, <2>1 DEF HelloFails, GiveUp, BatchFails
    <2>2. CASE StatusFails
      <3>1. Unsent' = <<>> /\ UNCHANGED <<pending_events, queued>>
        BY <2>2 DEF StatusFails, Unsent
      <3> QED  BY <1>1, <1>9, <3>1
    <2>3. CASE EventFails
      BY <1>7, <1>9, <2>3 DEF EventFails
    <2> QED  BY <1>9, <2>1, <2>2, <2>3 DEF CallFails
  <1>10. CASE CallError \/ CallTimesOut
    BY <1>9, <1>10 DEF CallError, CallTimesOut, wireVars
  <1> QED  BY <1>3, <1>4, <1>5, <1>6, <1>8, <1>10 DEF UploaderNext

\* Prime's handlers.
LEMMA PlaceHandler ==
    ASSUME TypeOK, TypeOK', PlaceInv, UNCHANGED dispatcherVars, NEW c \in Conns, HandlerNext(c)
    PROVE  PlaceInv'
  <1>0. Unsent' = Unsent /\ UNCHANGED <<pending_events, queued>>
    BY DEF Unsent, dispatcherVars
  <1>1. ASSUME UNCHANGED <<reqs, received>> PROVE PlaceInv'
    BY <1>0, <1>1, PlaceKept
  <1>2. ASSUME NEW k \in {"Accepted", "Rejected", "Status", "Event", "Batch"}, Reply(c, k),
               reqs[c] # <<>>, received' = received
        PROVE  PlaceInv'
    <2>1. PICK done \in [Conns -> {0, 1}] :
              \A d \in Conns : \A i \in DOMAIN reqs'[d] :
                 i \in Nat \ {0} /\ i + done[d] \in DOMAIN reqs[d]
                 /\ reqs'[d][i] = reqs[d][i + done[d]]
      BY <1>2, ReplyPlaces
    <2> QED  BY <1>0, <1>2, <2>1, PlaceQuiet
  <1>3. CASE HandleHello(c)
    BY <1>2, <1>3 DEF HandleHello, Receives
  <1>4. CASE HelloLookupFails(c) \/ HandleStatus(c)
    BY <1>2, <1>4 DEF HelloLookupFails, HandleStatus, Receives, primeVars
  <1>5. CASE HandleEvent(c)
    BY <1>5, PlaceReceived
  <1>6. CASE ReplyBatch(c)
    <2>1. reqs[c] # <<>>
      BY <1>6 DEF ReplyBatch, TypeOK, PrimeTypeOK, Busy
    <2> QED  BY <1>2, <1>6, <2>1 DEF ReplyBatch
  <1>7. ASSUME NEW r \in Records, Lookup(c, r) \/ LookupFails(c, r) PROVE PlaceInv'
    BY <1>1, <1>7 DEF Lookup, LookupFails, LookupNext
  <1>8. CASE \/ RecvBatch(c) \/ LookupsDone(c) \/ StoreReadings(c) \/ StoreReadingsFails(c)
             \/ StoreStatuses(c) \/ (\E done \in SUBSET Statuses : StoreStatusesFails(c, done))
             \/ HandlerEnds(c)
    BY <1>1, <1>8 DEF RecvBatch, LookupsDone, StoreReadings, StoreReadingsFails, StoreStatuses,
          StoreStatusesFails, HandlerEnds, wireVars
  <1> QED  BY <1>3, <1>4, <1>5, <1>6, <1>7, <1>8 DEF HandlerNext

\* All steps.
LEMMA PlaceStep ==
    ASSUME TypeOK, TypeOK', QueuedInv, PlaceInv, ReportInv, [Next]_vars
    PROVE  PlaceInv'
  <1>0. WireTypeOK /\ reqs \in [Conns -> Seq(Request)]
    BY DEF TypeOK, WireTypeOK
  <1>1. ASSUME UNCHANGED <<dispatcherVars, reqs, received>> PROVE PlaceInv'
    <2>1. Unsent' = Unsent /\ UNCHANGED <<pending_events, queued>>
      BY <1>1 DEF Unsent, dispatcherVars
    <2> QED  BY <1>1, <2>1, PlaceKept
  <1>2. CASE UNCHANGED vars \/ Stopped
    BY <1>1, <1>2 DEF Stopped, vars, wireVars, primeVars
  <1>3. CASE (EdgeNext \/ CollectorNext) /\ UNCHANGED primeVars
    BY <1>3, PlaceEdge
  <1>4. CASE (UploaderNext /\ UNCHANGED primeVars) \/ CallError \/ CallTimesOut
    <2>1. UNCHANGED primeVars
      BY <1>4 DEF CallError, CallTimesOut
    <2> QED  BY <1>4, <2>1, PlaceUploader
  <1>5. CASE ApiNext /\ UNCHANGED dispatcherVars
    BY <1>1, <1>5 DEF ApiNext, RegisterDevice, RegisterDispatcher, SuspendDispatcher
  <1>6. ASSUME NEW c \in Conns, HandlerNext(c), UNCHANGED dispatcherVars PROVE PlaceInv'
    BY <1>6, PlaceHandler
  <1>7. ASSUME NEW c \in Conns, DoConnect(c) PROVE PlaceInv'
    <2> DEFINE m == Msg("Hello", {}, NoEvent)
    <2>1. m.kind = "Hello"
      BY <1>7, MsgType DEF DoConnect, Connect
    <2>2. /\ reqs' = [reqs EXCEPT ![c] = <<m>>] /\ upc # "event" /\ upc' # "event"
          /\ UNCHANGED <<evq, pending_events, queued, received>>
      BY <1>7 DEF DoConnect, Connect, Accept
    <2> HIDE DEF m
    <2>3. Unsent' = Unsent
      BY <2>2 DEF Unsent
    <2>4. \A d \in Conns : \A i \in DOMAIN reqs'[d] : reqs'[d][i].kind = "Event" =>
              i \in DOMAIN reqs[d] /\ reqs'[d][i] = reqs[d][i]
      BY <1>0, <2>1, <2>2
    <2> QED  BY <2>2, <2>3, <2>4, PlaceKept
  <1>8. ASSUME NEW c \in Conns, NEW keep \in 0..Len(reqs[c]),
               LinkFails(c, keep) \/ LateReply(c, keep) PROVE PlaceInv'
    <2>1. /\ reqs' = [reqs EXCEPT ![c] = SubSeq(reqs[c], 1, keep)]
          /\ UNCHANGED <<upc, evq, pending_events, queued, received>>
      BY <1>8 DEF LinkFails, LateReply, Cut, dispatcherVars, primeVars
    <2>2. \A i \in DOMAIN reqs'[c] : i \in DOMAIN reqs[c] /\ reqs'[c][i] = reqs[c][i]
      BY <1>0, <2>1, CutType
    <2>3. \A d \in Conns : \A i \in DOMAIN reqs'[d] :
              i \in DOMAIN reqs[d] /\ reqs'[d][i] = reqs[d][i]
      BY <1>0, <2>1, <2>2
    <2>4. Unsent' = Unsent
      BY <2>1 DEF Unsent
    <2> QED  BY <2>1, <2>3, <2>4, PlaceKept
  <1>9. ASSUME NEW keep \in Cuts, DispatcherRestart(keep) PROVE PlaceInv'
    <2>1. /\ evq' = <<>> /\ upc' = "tick" /\ pending_events' = <<>> /\ UNCHANGED <<queued, received>>
      BY <1>9 DEF DispatcherRestart, Restart, DispatcherStart, primeVars
    <2>2. ASSUME NEW c \in Conns
          PROVE  \A i \in DOMAIN reqs'[c] : i \in DOMAIN reqs[c] /\ reqs'[c][i] = reqs[c][i]
      <3>1. keep[c] \in 0..Len(reqs[c])
        BY <1>0 DEF Cuts
      <3>2. reqs'[c] = SubSeq(reqs[c], 1, keep[c])
        BY <1>9 DEF DispatcherRestart, Restart
      <3> QED  BY <1>0, <3>1, <3>2, CutType
    <2>3. Unsent' = <<>>
      BY <2>1 DEF Unsent
    <2> QED  BY <2>1, <2>2, <2>3, PlaceKept
  <1>10. CASE PrimeRestart /\ UNCHANGED dispatcherVars
    <2>1. /\ reqs' = [c \in Conns |-> <<>>] /\ received' = received
          /\ UNCHANGED <<upc, evq, pending_events, queued>>
      BY <1>10 DEF PrimeRestart, dispatcherVars
    <2>2. Unsent' = Unsent
      BY <2>1 DEF Unsent
    <2> QED  BY <2>1, <2>2, PlaceKept
  <1> QED  BY <1>2, <1>3, <1>4, <1>5, <1>6, <1>7, <1>8, <1>9, <1>10 DEF Next


(***************************************************************************)
(* An answered event has been received.                                    *)
(***************************************************************************)

\* Steps that leave the uploader where it is: requests are consumed or lost, and
\* replies added for requests that are no event or a received one.
LEMMA ReportStays ==
    ASSUME ReportInv, UNCHANGED <<upc, evq, waiting>>, Range(received) \subseteq Range(received'),
           \A c \in Conns : \A i \in DOMAIN reqs'[c] :
              \E j \in DOMAIN reqs[c] : reqs'[c][i] = reqs[c][j],
           \A c \in Conns : \A p \in reps'[c] :
              \/ p \in reps[c]
              \/ \E j \in DOMAIN reqs[c] :
                    /\ p.to = reqs[c][j].id
                    /\ reqs[c][j].kind = "Event" => reqs[c][j].event \in Range(received')
    PROVE  ReportInv'
  <1>1. upc' \notin {"status", "events", "event"} => evq' = <<>>
    BY DEF ReportInv
  <1>2. ASSUME upc = "event", NEW c \in Conns
        PROVE  /\ \A i \in DOMAIN reqs'[c] :
                     reqs'[c][i].id = waiting =>
                        reqs'[c][i].kind = "Event" /\ reqs'[c][i].event = Head(evq)
               /\ \A p \in reps'[c] : p.to = waiting => Head(evq) \in Range(received')
    BY <1>2 DEF ReportInv
  <1> QED  BY <1>1, <1>2 DEF ReportInv

\* The uploader, and the errors of its calls.
LEMMA ReportUploader ==
    ASSUME TypeOK, ReportInv, UNCHANGED primeVars, UploaderNext \/ CallError \/ CallTimesOut
    PROVE  ReportInv'
  <1>0. received' = received /\ WireTypeOK /\ conn \in Conns \cup {NoConn}
    BY DEF primeVars, TypeOK, DispatcherTypeOK
  <1>1. ASSUME upc' # "event", upc' \notin {"status", "events"} => evq' = <<>>
        PROVE  ReportInv'
    BY <1>1 DEF ReportInv
  <1>2. CASE \/ UploaderStop \/ BeginConnect \/ ConnectFails \/ Sleep \/ FetchReadings \/ FetchNothing
             \/ FetchFails \/ MarkReadings \/ MarkStatuses \/ MarkFails \/ SendStatus \/ SendBatch
    BY <1>1, <1>2 DEF UploaderStop, BeginConnect, ConnectFails, GiveUp, Sleep, FetchReadings, FetchNothing,
          FetchFails, MarkReadings, MarkStatuses, MarkFails, SendStatus, SendBatch, Call, ReportInv
  <1>3. CASE SendEvent
    <2> DEFINE e == Head(evq)
               m == Msg("Event", {}, e)
    <2>1. /\ upc' = "event" /\ FreshIds # {} /\ Send(conn, m) /\ waiting' = m.id
          /\ evq # <<>> /\ UNCHANGED <<evq, reps>>
      BY <1>3 DEF SendEvent, Call
    <2>2. e \in PrimeEvent
      BY <2>1, HeadTail DEF TypeOK, DispatcherTypeOK
    <2>3. m \in Request /\ m.id = NewId /\ m.kind = "Event" /\ m.event = e /\ NewId \in FreshIds
      BY <2>1, <2>2, MsgType, NewIdFresh
    <2> HIDE DEF m
    <2>4. \A c \in Conns : \A i \in DOMAIN reqs'[c] :
              reqs'[c][i] = m \/ (i \in DOMAIN reqs[c] /\ reqs'[c][i] = reqs[c][i])
      BY <1>0, <2>1, <2>3, SendType
    <2>5. /\ \A c \in Conns : \A i \in DOMAIN reqs[c] : reqs[c][i].id # NewId
          /\ \A c \in Conns : \A p \in reps[c] : p.to # NewId
      BY <2>3 DEF FreshIds, IdsIn
    <2>6. ASSUME NEW c \in Conns, NEW i \in DOMAIN reqs'[c], reqs'[c][i].id = waiting'
          PROVE  reqs'[c][i].kind = "Event" /\ reqs'[c][i].event = e
      <3>1. reqs'[c][i] = m \/ (i \in DOMAIN reqs[c] /\ reqs'[c][i] = reqs[c][i])
        BY <2>4, <2>6
      <3>2. ~(i \in DOMAIN reqs[c] /\ reqs'[c][i] = reqs[c][i])
        BY <2>1, <2>3, <2>5, <2>6
      <3> QED  BY <2>3, <3>1, <3>2
    <2>7. \A c \in Conns : \A p \in reps'[c] : p.to # waiting'
      BY <2>1, <2>3, <2>5
    <2> QED  BY <2>1, <2>6, <2>7 DEF ReportInv
  <1>4. ASSUME NEW c \in Conns, NEW p \in reps[c],
               \/ HelloAccepted(p) \/ HelloRejected(p) \/ StatusAnswered(p)
               \/ EventAnswered(p) \/ BatchAnswered(p) \/ DiscardReply(p)
        PROVE  ReportInv'
    <2>1. CASE \/ HelloAccepted(p) \/ HelloRejected(p) \/ StatusAnswered(p)
               \/ EventAnswered(p) \/ BatchAnswered(p)
      BY <1>1, <2>1 DEF HelloAccepted, HelloRejected, GiveUp, StatusAnswered, EventAnswered,
            NextEvent, BatchAnswered, ReportInv
    <2>2. CASE DiscardReply(p)
      <3>1. UNCHANGED <<reqs, upc, evq, waiting>> /\ \A d \in Conns : reps'[d] \subseteq reps[d]
        BY <1>0, <2>2 DEF DiscardReply, dispatcherVars, WireTypeOK
      <3> QED  BY <1>0, <3>1, ReportStays
    <2> QED  BY <1>4, <2>1, <2>2
  <1>5. CASE CallError \/ CallTimesOut
    BY <1>1, <1>5 DEF CallError, CallTimesOut, CallFails, HelloFails, GiveUp, StatusFails,
          EventFails, NextEvent, BatchFails, ReportInv
  <1> QED  BY <1>2, <1>3, <1>4, <1>5 DEF UploaderNext

\* Prime's handlers: the reply to an event follows its reception.
LEMMA ReportHandler ==
    ASSUME TypeOK, BusyInv, ReportInv, UNCHANGED dispatcherVars, NEW c \in Conns, HandlerNext(c)
    PROVE  ReportInv'
  <1>0. /\ UNCHANGED <<upc, evq, waiting>> /\ WireTypeOK
        /\ reqs[c] \in Seq(Request) /\ received \in Seq(PrimeEvent)
    BY DEF dispatcherVars, TypeOK, WireTypeOK, PrimeTypeOK
  <1>1. ASSUME UNCHANGED <<reqs, reps, received>> PROVE ReportInv'
    BY <1>0, <1>1, ReportStays
  <1>2. ASSUME NEW k \in {"Accepted", "Rejected", "Status", "Event", "Batch"}, Reply(c, k),
               reqs[c] # <<>>, Range(received) \subseteq Range(received'),
               Head(reqs[c]).kind = "Event" => Head(reqs[c]).event \in Range(received')
        PROVE  ReportInv'
    <2>1. /\ \A d \in Conns \ {c} : reqs'[d] = reqs[d] /\ reps'[d] = reps[d]
          /\ \A i \in DOMAIN reqs'[c] : i + 1 \in DOMAIN reqs[c] /\ reqs'[c][i] = reqs[c][i + 1]
          /\ \A p \in reps'[c] : p \in reps[c] \/ p.to = Head(reqs[c]).id
      BY <1>0, <1>2, ReplyType
    <2>2. 1 \in DOMAIN reqs[c] /\ Head(reqs[c]) = reqs[c][1]
      BY <1>0, <1>2, HeadTail
    <2>3. \A d \in Conns : \A i \in DOMAIN reqs'[d] :
              \E j \in DOMAIN reqs[d] : reqs'[d][i] = reqs[d][j]
      BY <2>1
    <2>4. ASSUME NEW d \in Conns, NEW p \in reps'[d]
          PROVE  \/ p \in reps[d]
                 \/ \E j \in DOMAIN reqs[d] :
                       /\ p.to = reqs[d][j].id
                       /\ reqs[d][j].kind = "Event" => reqs[d][j].event \in Range(received')
      BY <1>2, <2>1, <2>2
    <2> QED  BY <1>0, <1>2, <2>3, <2>4, ReportStays
  <1>3. CASE HandleHello(c)
    BY <1>2, <1>3 DEF HandleHello, Receives
  <1>4. CASE HelloLookupFails(c) \/ HandleStatus(c)
    BY <1>2, <1>4 DEF HelloLookupFails, HandleStatus, Receives, primeVars
  <1>5. CASE HandleEvent(c)
    <2> DEFINE e == Head(reqs[c]).event
    <2>1. reqs[c] # <<>> /\ Head(reqs[c]).kind = "Event" /\ received' = Append(received, e)
      BY <1>5 DEF HandleEvent, Receives
    <2>2. e \in PrimeEvent
      BY <1>0, <2>1, HeadTail DEF Request
    <2> HIDE DEF e
    <2>3. Range(received) \subseteq Range(received') /\ e \in Range(received')
      <3>1. /\ Len(received) + 1 \in DOMAIN received' /\ received'[Len(received) + 1] = e
            /\ \A i \in DOMAIN received : i \in DOMAIN received' /\ received'[i] = received[i]
        BY <1>0, <2>1, <2>2
      <3> QED  BY <3>1 DEF Range
    <2> QED  BY <1>2, <1>5, <2>1, <2>3 DEF e, HandleEvent
  <1>6. CASE ReplyBatch(c)
    <2>1. reqs[c] # <<>> /\ Head(reqs[c]).kind = "Batch"
      BY <1>6 DEF ReplyBatch, TypeOK, PrimeTypeOK, BusyInv, Busy
    <2> QED  BY <1>2, <1>6, <2>1 DEF ReplyBatch
  <1>7. ASSUME NEW r \in Records, Lookup(c, r) \/ LookupFails(c, r) PROVE ReportInv'
    BY <1>1, <1>7 DEF Lookup, LookupFails, LookupNext
  <1>8. CASE \/ RecvBatch(c) \/ LookupsDone(c) \/ StoreReadings(c) \/ StoreReadingsFails(c)
             \/ StoreStatuses(c) \/ (\E done \in SUBSET Statuses : StoreStatusesFails(c, done))
             \/ HandlerEnds(c)
    BY <1>1, <1>8 DEF RecvBatch, LookupsDone, StoreReadings, StoreReadingsFails, StoreStatuses,
          StoreStatusesFails, HandlerEnds, wireVars
  <1> QED  BY <1>3, <1>4, <1>5, <1>6, <1>7, <1>8 DEF HandlerNext

\* All steps.
LEMMA ReportStep ==
    ASSUME TypeOK, BusyInv, ReportInv, [Next]_vars
    PROVE  ReportInv'
  <1>0. WireTypeOK /\ reqs \in [Conns -> Seq(Request)] /\ reps \in [Conns -> SUBSET Response]
    BY DEF TypeOK, WireTypeOK
  <1>1. ASSUME UNCHANGED <<upc, evq, waiting, received, reqs, reps>> PROVE ReportInv'
    BY <1>1, ReportStays
  <1>2. CASE UNCHANGED vars \/ Stopped
    BY <1>1, <1>2 DEF Stopped, vars, dispatcherVars, wireVars, primeVars
  <1>3. CASE (EdgeNext \/ CollectorNext) /\ UNCHANGED primeVars
    BY <1>1, <1>3 DEF EdgeNext, EdgeSend, DeviceDisconnected, Cancel, CollectorNext, CollectorRecv,
          CollectorCheck, CollectorStore, CollectorStoreFails, CollectorStop, wireVars,
          uploaderVars, primeVars
  <1>4. CASE (UploaderNext /\ UNCHANGED primeVars) \/ CallError \/ CallTimesOut
    <2>1. UNCHANGED primeVars
      BY <1>4 DEF CallError, CallTimesOut
    <2> QED  BY <1>4, <2>1, ReportUploader
  <1>5. CASE ApiNext /\ UNCHANGED dispatcherVars
    BY <1>1, <1>5 DEF ApiNext, RegisterDevice, RegisterDispatcher, SuspendDispatcher,
          dispatcherVars
  <1>6. ASSUME NEW c \in Conns, HandlerNext(c), UNCHANGED dispatcherVars PROVE ReportInv'
    BY <1>6, ReportHandler
  <1>7. ASSUME NEW c \in Conns, DoConnect(c) PROVE ReportInv'
    BY <1>7 DEF DoConnect, Connect, ReportInv
  <1>8. ASSUME NEW c \in Conns, NEW keep \in 0..Len(reqs[c]),
               LinkFails(c, keep) \/ LateReply(c, keep) PROVE ReportInv'
    <2>1. /\ reqs' = [reqs EXCEPT ![c] = SubSeq(reqs[c], 1, keep)]
          /\ reps' = [reps EXCEPT ![c] = {}]
          /\ UNCHANGED <<upc, evq, waiting, received>>
      BY <1>8 DEF LinkFails, LateReply, Cut, dispatcherVars, primeVars
    <2>2. \A i \in DOMAIN reqs'[c] : i \in DOMAIN reqs[c] /\ reqs'[c][i] = reqs[c][i]
      BY <1>0, <2>1, CutType
    <2>3. \A d \in Conns : \A i \in DOMAIN reqs'[d] :
              \E j \in DOMAIN reqs[d] : reqs'[d][i] = reqs[d][j]
      BY <1>0, <2>1, <2>2
    <2>4. \A d \in Conns : reps'[d] \subseteq reps[d]
      BY <1>0, <2>1
    <2> QED  BY <2>1, <2>3, <2>4, ReportStays
  <1>9. ASSUME NEW keep \in Cuts, DispatcherRestart(keep) PROVE ReportInv'
    BY <1>9 DEF DispatcherRestart, Restart, DispatcherStart, ReportInv
  <1>10. CASE PrimeRestart /\ UNCHANGED dispatcherVars
    <2>1. /\ reqs' = [c \in Conns |-> <<>>] /\ reps' = [c \in Conns |-> {}]
          /\ UNCHANGED <<upc, evq, waiting, received>>
      BY <1>10 DEF PrimeRestart, dispatcherVars
    <2> QED  BY <2>1, ReportStays
  <1> QED  BY <1>2, <1>3, <1>4, <1>5, <1>6, <1>7, <1>8, <1>9, <1>10 DEF Next


\* A batch stays at the head of its connection until it is answered.
LEMMA BusyStep ==
    ASSUME TypeOK, BusyInv, [Next]_vars
    PROVE  BusyInv'
  <1>0. /\ WireTypeOK /\ reqs \in [Conns -> Seq(Request)] /\ conn \in Conns \cup {NoConn}
        /\ \A c \in Conns : hpc[c] \in Busy => reqs[c] # <<>>
        /\ hpc \in [Conns -> {"recv", "closed"} \cup Busy]
    BY DEF TypeOK, WireTypeOK, DispatcherTypeOK, PrimeTypeOK
  <1>1. ASSUME \A c \in Conns : hpc'[c] \in Busy =>
                  hpc[c] \in Busy /\ Head(reqs'[c]) = Head(reqs[c])
        PROVE  BusyInv'
    BY <1>1 DEF BusyInv
  <1>2. ASSUME UNCHANGED <<reqs, hpc>> PROVE BusyInv'
    BY <1>2 DEF BusyInv
  <1>3. CASE UNCHANGED vars \/ Stopped
    BY <1>2, <1>3 DEF Stopped, vars, wireVars, primeVars
  <1>4. CASE (EdgeNext \/ CollectorNext) /\ UNCHANGED primeVars
    BY <1>2, <1>4 DEF EdgeNext, EdgeSend, DeviceDisconnected, Cancel, CollectorNext, CollectorRecv,
          CollectorCheck, CollectorStore, CollectorStoreFails, CollectorStop, wireVars, primeVars
  <1>5. CASE UploaderNext /\ UNCHANGED primeVars
    <2>0. hpc' = hpc
      BY <1>5 DEF primeVars
    <2>1. CASE \/ UploaderStop \/ BeginConnect \/ ConnectFails \/ Sleep \/ FetchReadings \/ FetchNothing
               \/ FetchFails \/ MarkReadings \/ MarkStatuses \/ MarkFails
      BY <1>2, <2>0, <2>1 DEF UploaderStop, BeginConnect, ConnectFails, Sleep, FetchReadings, FetchNothing,
            FetchFails, MarkReadings, MarkStatuses, MarkFails, wireVars
    <2>2. ASSUME NEW m \in Request, Send(conn, m) PROVE BusyInv'
      BY <1>0, <1>1, <2>0, <2>2, SendType
    <2>3. CASE SendStatus
      BY <2>2, <2>3, MsgType DEF SendStatus, Call
    <2>4. CASE SendEvent
      <3>1. Head(evq) \in PrimeEvent
        BY <2>4, HeadTail DEF SendEvent, TypeOK, DispatcherTypeOK
      <3> QED  BY <2>2, <2>4, <3>1, MsgType DEF SendEvent, Call
    <2>5. CASE SendBatch
      <3> DEFINE recs == batch \cup FetchPending(rows, Statuses)
      <3>1. recs \in SUBSET Records
        BY DEF FetchPending, Records, TypeOK, DispatcherTypeOK
      <3>2. FreshIds # {} /\ Send(conn, Msg("Batch", recs, NoEvent))
        BY <2>5 DEF SendBatch, Call
      <3> HIDE DEF recs
      <3> QED  BY <2>2, <3>1, <3>2, MsgType
    <2>6. ASSUME NEW c \in Conns, NEW p \in reps[c],
                 \/ HelloAccepted(p) \/ HelloRejected(p) \/ StatusAnswered(p)
                 \/ EventAnswered(p) \/ BatchAnswered(p) \/ DiscardReply(p)
          PROVE  BusyInv'
      BY <1>2, <2>0, <2>6 DEF HelloAccepted, HelloRejected, StatusAnswered, EventAnswered,
            BatchAnswered, Answer, DiscardReply
    <2> QED  BY <1>5, <2>1, <2>3, <2>4, <2>5, <2>6 DEF UploaderNext
  <1>6. CASE CallError \/ CallTimesOut
    BY <1>2, <1>6 DEF CallError, CallTimesOut, wireVars, primeVars
  <1>7. CASE ApiNext
    BY <1>2, <1>7 DEF ApiNext, RegisterDevice, RegisterDispatcher, SuspendDispatcher, handlerVars
  <1>8. ASSUME NEW c \in Conns, HandlerNext(c) PROVE BusyInv'
    <2>1. ASSUME NEW k \in {"Accepted", "Rejected", "Status", "Event", "Batch"}, Reply(c, k),
                 reqs[c] # <<>>, hpc'[c] \notin Busy,
                 \A d \in Conns \ {c} : hpc'[d] = hpc[d]
          PROVE  BusyInv'
      BY <1>0, <1>1, <2>1, ReplyType
    <2>2. ASSUME reqs' = reqs, hpc' = [hpc EXCEPT ![c] = hpc'[c]],
                 hpc'[c] \in Busy => hpc[c] \in Busy \/ Head(reqs[c]).kind = "Batch"
          PROVE  BusyInv'
      BY <1>0, <2>2 DEF BusyInv
    <2>3. CASE HandleHello(c)
      BY <1>0, <2>1, <2>3 DEF HandleHello, Receives, Busy
    <2>4. CASE HelloLookupFails(c) \/ HandleStatus(c) \/ HandleEvent(c)
      BY <1>0, <2>1, <2>4 DEF HelloLookupFails, HandleStatus, HandleEvent, Receives, Busy,
            primeVars, handlerVars
    <2>5. CASE ReplyBatch(c)
      BY <1>0, <2>1, <2>5 DEF ReplyBatch, Busy
    <2>6. CASE RecvBatch(c)
      BY <1>0, <2>2, <2>6 DEF RecvBatch, Receives, wireVars
    <2>7. ASSUME NEW r \in Records, Lookup(c, r) \/ LookupFails(c, r) PROVE BusyInv'
      BY <1>2, <2>7 DEF Lookup, LookupFails, LookupNext
    <2>8. CASE \/ LookupsDone(c) \/ StoreReadings(c) \/ StoreReadingsFails(c) \/ StoreStatuses(c)
               \/ \E done \in SUBSET Statuses : StoreStatusesFails(c, done)
      BY <1>0, <2>2, <2>8 DEF LookupsDone, StoreReadings, StoreReadingsFails, StoreStatuses,
            StoreStatusesFails, wireVars, Busy
    <2>9. CASE HandlerEnds(c)
      BY <1>0, <2>2, <2>9 DEF HandlerEnds, wireVars, Busy
    <2> QED  BY <1>8, <2>3, <2>4, <2>5, <2>6, <2>7, <2>8, <2>9 DEF HandlerNext
  <1>9. ASSUME NEW c \in Conns, DoConnect(c) PROVE BusyInv'
    <2>1. /\ hpc' = [hpc EXCEPT ![c] = "recv"]
          /\ \A d \in Conns \ {c} : reqs'[d] = reqs[d]
      BY <1>0, <1>9 DEF DoConnect, Connect, Accept
    <2> QED  BY <1>0, <1>1, <2>1 DEF Busy
  <1>10. ASSUME NEW c \in Conns, NEW keep \in 0..Len(reqs[c]),
               LinkFails(c, keep) \/ LateReply(c, keep) PROVE BusyInv'
    <2>1. /\ reqs' = [reqs EXCEPT ![c] = SubSeq(reqs[c], 1, keep)] /\ hpc' = hpc
          /\ hpc[c] \in Busy => keep > 0
      BY <1>10 DEF LinkFails, LateReply, Cut, primeVars
    <2> QED  BY <1>0, <1>1, <2>1, CutType
  <1>11. ASSUME NEW keep \in Cuts, DispatcherRestart(keep) PROVE BusyInv'
    <2>1. ASSUME NEW c \in Conns, hpc[c] \in Busy
          PROVE  Head(reqs'[c]) = Head(reqs[c])
      <3>1. keep[c] \in 0..Len(reqs[c]) /\ keep[c] > 0
        BY <1>0, <1>11, <2>1 DEF Cuts, DispatcherRestart
      <3>2. reqs'[c] = SubSeq(reqs[c], 1, keep[c])
        BY <1>11 DEF DispatcherRestart, Restart
      <3> QED  BY <1>0, <3>1, <3>2, CutType
    <2> QED  BY <1>1, <1>11, <2>1 DEF DispatcherRestart, primeVars
  <1>12. CASE PrimeRestart
    BY <1>12 DEF PrimeRestart, BusyInv, Busy
  <1> QED
    BY <1>3, <1>4, <1>5, <1>6, <1>7, <1>8, <1>9, <1>10, <1>11, <1>12 DEF Next

(***************************************************************************)
(* The theorems.                                                           *)
(***************************************************************************)

\* EventsInv holds of the system.
LEMMA EventsInvariant == Spec => []EventsInv
  <1>1. Init => EventsInv
    <2> SUFFICES ASSUME Init PROVE EventsInv
      OBVIOUS
    <2>1. TypeOK
      BY InitType
    <2>2. QueuedInv
      BY DEF Init, DispatcherInit, QueuedInv, IsInjective, Range
    <2>3. Unsent = <<>> /\ Range(<<>>) = {} /\ IsInjective(<<>>)
      BY DEF Init, DispatcherInit, Unsent, IsInjective, Range
    <2>4. OnePlaceInv
      BY <2>3 DEF Init, DispatcherInit, PrimeInit, OnePlaceInv
    <2>5. SentInv /\ ReportInv /\ BusyInv
      BY DEF Init, WireInit, DispatcherInit, PrimeInit, SentInv, ReportInv, BusyInv, Busy
    <2> QED  BY <2>1, <2>2, <2>4, <2>5 DEF EventsInv
  <1>2. EventsInv /\ [Next]_vars => EventsInv'
    <2> SUFFICES ASSUME EventsInv, [Next]_vars PROVE EventsInv'
      OBVIOUS
    <2>1. TypeOK /\ QueuedInv /\ PlaceInv /\ BusyInv /\ ReportInv
      BY DEF EventsInv, PlaceInv
    <2>2. TypeOK'
      BY <2>1, NextType
    <2>3. QueuedInv' /\ BusyInv' /\ ReportInv'
      BY <2>1, QueuedStep, BusyStep, ReportStep
    <2>4. PlaceInv'
      BY <2>1, <2>2, PlaceStep
    <2> QED  BY <2>2, <2>3, <2>4 DEF EventsInv, PlaceInv
  <1> QED  BY <1>1, <1>2, PTL DEF Spec

\* Prime sees each alert and each disconnection at most once, whatever timeouts,
\* reconnections and restarts there are (run_uploader in main.rs sends a taken event
\* once).
THEOREM ReportedAtMostOnce == Spec => []EventsAtMostOnce
  <1>1. EventsInv => EventsAtMostOnce
    BY DEF EventsInv, OnePlaceInv, IsInjective, EventsAtMostOnce
  <1> QED  BY <1>1, EventsInvariant, PTL


\* What may become of the events in the dispatcher's memory in one step.
LostStep ==
    LET lost == Held \ (Held \cup UnderWay \cup Notified)'
    IN  \/ lost = {}
        \/ (CallError \/ CallTimesOut) /\ lost \subseteq AtRisk
        \/ \E keep \in Cuts : DispatcherRestart(keep)

\* The uploader forgets an event when it is answered, or with a call that fails.
LEMMA LostByUploader ==
    ASSUME EventsInv, UNCHANGED primeVars, UploaderNext \/ CallError \/ CallTimesOut
    PROVE  LostStep
  <1>0. /\ evq \in Seq(PrimeEvent) /\ pending_events \in Seq(PrimeEvent) /\ received' = received
        /\ conn \in Conns \cup {NoConn}
        /\ upc = "event" => evq # <<>>
    BY DEF EventsInv, TypeOK, DispatcherTypeOK, primeVars
  <1>1. ASSUME Held \subseteq Held' PROVE LostStep
    BY <1>1 DEF LostStep
  <1>2. ASSUME UNCHANGED <<pending_events, evq>> PROVE LostStep
    BY <1>1, <1>2 DEF Held
  <1>3. CASE \/ UploaderStop \/ BeginConnect \/ ConnectFails \/ Sleep \/ FetchReadings \/ FetchNothing
             \/ FetchFails \/ MarkReadings \/ MarkStatuses \/ MarkFails \/ SendEvent \/ SendBatch
    BY <1>2, <1>3 DEF UploaderStop, BeginConnect, ConnectFails, GiveUp, Sleep, FetchReadings, FetchNothing,
          FetchFails, MarkReadings, MarkStatuses, MarkFails, SendEvent, SendBatch
  <1>4. CASE SendStatus
    <2>1. evq = <<>> /\ evq' = pending_events
      BY <1>4 DEF SendStatus, EventsInv, ReportInv
    <2>2. Range(<<>>) = {}
      BY DEF Range
    <2> QED  BY <1>1, <2>1, <2>2 DEF Held
  <1>5. ASSUME upc = "event", NextEvent
        PROVE  Held \subseteq Held' \cup {Head(evq)}
    <2>1. evq' = Tail(evq) /\ pending_events' = pending_events
      BY <1>5 DEF NextEvent
    <2>2. ASSUME NEW x \in Range(evq), x # Head(evq) PROVE x \in Range(Tail(evq))
      <3>1. PICK i \in DOMAIN evq : evq[i] = x
        BY DEF Range
      <3>2. i # 1
        BY <1>0, <1>5, <2>2, <3>1, HeadTail
      <3>3. i - 1 \in DOMAIN Tail(evq) /\ Tail(evq)[i - 1] = x
        BY <1>0, <1>5, <3>1, <3>2
      <3> QED  BY <3>3 DEF Range
    <2> QED  BY <2>1, <2>2 DEF Held
  <1>6. ASSUME NEW c \in Conns, NEW p \in reps[c],
               \/ HelloAccepted(p) \/ HelloRejected(p) \/ StatusAnswered(p)
               \/ EventAnswered(p) \/ BatchAnswered(p) \/ DiscardReply(p)
        PROVE  LostStep
    <2>1. CASE EventAnswered(p)
      <3>1. upc = "event" /\ NextEvent /\ conn \in Conns /\ p \in reps[conn] /\ p.to = waiting
        BY <1>0, <2>1 DEF EventAnswered, Answer
      <3>2. Head(evq) \in Notified'
        BY <1>0, <3>1 DEF EventsInv, ReportInv, Notified
      <3> QED  BY <1>5, <3>1, <3>2 DEF LostStep
    <2>2. CASE ~EventAnswered(p)
      BY <1>2, <1>6, <2>2 DEF HelloAccepted, HelloRejected, GiveUp, StatusAnswered, BatchAnswered,
            DiscardReply, dispatcherVars
    <2> QED  BY <2>1, <2>2
  <1>7. CASE CallError \/ CallTimesOut
    <2>1. CASE HelloFails \/ BatchFails
      BY <1>2, <2>1 DEF HelloFails, GiveUp, BatchFails
    <2>2. CASE StatusFails
      <3>1. upc = "status" /\ pending_events' = pending_events
        BY <2>2 DEF StatusFails
      <3>2. Held \ Held' \subseteq AtRisk
        BY <3>1 DEF Held, AtRisk
      <3> QED  BY <1>7, <3>2 DEF LostStep
    <2>3. CASE EventFails
      <3>1. upc = "event" /\ NextEvent
        BY <2>3 DEF EventFails
      <3>2. AtRisk = {Head(evq)}
        BY <3>1 DEF AtRisk
      <3> QED  BY <1>5, <1>7, <3>1, <3>2 DEF LostStep
    <2> QED  BY <1>7, <2>1, <2>2, <2>3 DEF CallError, CallTimesOut, CallFails
  <1> QED  BY <1>3, <1>4, <1>6, <1>7 DEF UploaderNext

\* Nobody else takes an event from the dispatcher's memory.
LEMMA LostOnlyByFailure == EventsInv /\ [Next]_vars => [LostStep]_vars
  <1> SUFFICES ASSUME EventsInv, Next PROVE LostStep
    BY DEF vars
  <1>0. pending_events \in Seq(PrimeEvent)
    BY DEF EventsInv, TypeOK, DispatcherTypeOK
  <1>1. ASSUME Range(pending_events) \subseteq Range(pending_events'), evq' = evq PROVE LostStep
    BY <1>1 DEF LostStep, Held
  <1>2. CASE EdgeNext \/ CollectorNext
    <2>1. evq' = evq
      BY <1>2 DEF EdgeNext, EdgeSend, DeviceDisconnected, Cancel, CollectorNext, CollectorRecv,
            CollectorCheck, CollectorStore, CollectorStoreFails, CollectorStop, uploaderVars
    <2>2. pending_events' = pending_events \/ \E e : pending_events' = Append(pending_events, e)
      BY <1>2 DEF EdgeNext, EdgeSend, DeviceDisconnected, Cancel, CollectorNext, CollectorRecv,
            CollectorCheck, CollectorStore, CollectorStoreFails, CollectorStop, QueueEvent
    <2>3. ASSUME NEW e, pending_events' = Append(pending_events, e)
          PROVE  Range(pending_events) \subseteq Range(pending_events')
      <3>1. \A i \in DOMAIN pending_events :
                i \in DOMAIN pending_events' /\ pending_events'[i] = pending_events[i]
        BY <1>0, <2>3
      <3> QED  BY <3>1 DEF Range
    <2> QED  BY <1>1, <2>1, <2>2, <2>3
  <1>3. CASE (UploaderNext /\ UNCHANGED primeVars) \/ CallError \/ CallTimesOut
    <2>1. UNCHANGED primeVars
      BY <1>3 DEF CallError, CallTimesOut
    <2> QED  BY <1>3, <2>1, LostByUploader
  <1>4. CASE UNCHANGED dispatcherVars
    BY <1>1, <1>4 DEF dispatcherVars
  <1>5. ASSUME NEW c \in Conns, DoConnect(c) PROVE LostStep
    BY <1>1, <1>5 DEF DoConnect, Connect
  <1>6. ASSUME NEW keep \in Cuts, DispatcherRestart(keep) PROVE LostStep
    BY <1>6 DEF LostStep
  <1> QED  BY <1>2, <1>3, <1>4, <1>5, <1>6 DEF Next, LinkFails, LateReply, Stopped, vars

\* An event leaves the dispatcher's memory only on its way to prime, or with a failing
\* call (run_uploader): a failing status call takes all the events of its cycle along,
\* the failing call of an event that event only, and what DispatcherState queues
\* meanwhile is safe.
THEOREM EventLossBounded == Spec => EventsLostOnlyByFailure
  <1>1. EventsInv /\ [Next]_vars => [LostStep]_vars
    BY LostOnlyByFailure
  <1> QED  BY <1>1, EventsInvariant, PTL DEF Spec, EventsLostOnlyByFailure, LostStep

=============================================================================

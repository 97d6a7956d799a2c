-------------------------------- MODULE Ersha --------------------------------
(***************************************************************************)
(* One dispatcher and ersha-prime, joined by RPC connections that may      *)
(* fail, with an edge that produces records, an operator that uses the     *)
(* HTTP API, and crashes of either process.                                *)
(***************************************************************************)
EXTENDS Dispatcher, Prime, Functions

vars == <<wireVars, dispatcherVars, primeVars>>

Init == WireInit /\ DispatcherInit /\ PrimeInit

-----------------------------------------------------------------------------
\* A slot nobody uses: its handler waits for a request that will not come, or ended.
FreeSlot(c) == c # conn /\ reqs[c] = <<>> /\ hpc[c] \in {"recv", "closed"}

DoConnect(c) == FreeSlot(c) /\ Connect(c) /\ Accept(c)

\* No reply to the awaited call can arrive any more.
Unanswerable ==
    /\ \A p \in reps[conn] : p.to # waiting
    /\ \A i \in DOMAIN reqs[conn] : reqs[conn][i].id # waiting

\* The 5 s timeout of a call that has no chance, or the write on a broken link failed.
CallError ==
    /\ upc \in Calling /\ Unanswerable
    /\ CallFails
    /\ UNCHANGED <<wireVars, primeVars>>

\* The timeout fires although prime is about to answer: prime or the link is slow.
CallTimesOut ==
    /\ upc \in Calling /\ ~Unanswerable /\ Disturb
    /\ CallFails
    /\ UNCHANGED <<up, reqs, reps, primeVars>>

\* A late reply on the connection of a dropped client: the reader task cannot hand it on
\* and ends.  It held the last half of the stream, so the connection is closed.
LateReply(c, keep) ==
    /\ c # conn /\ reps[c] # {}
    /\ hpc[c] \in Busy => keep > 0
    /\ Cut(c, keep)
    /\ UNCHANGED <<disturbances, dispatcherVars, primeVars>>

\* The link of a connection fails.  Prime has read the request it is serving.
LinkFails(c, keep) ==
    /\ c \in up /\ Disturb
    /\ hpc[c] \in Busy => keep > 0
    /\ Cut(c, keep)
    /\ UNCHANGED <<dispatcherVars, primeVars>>

DispatcherRestart(keep) ==
    /\ \A c \in Conns : hpc[c] \in Busy => keep[c] > 0
    /\ Restart(keep)
    /\ UNCHANGED primeVars

\* Both ends may also stop for good: after the cancellation the dispatcher exits.
Stopped == Exited /\ UNCHANGED vars

Cuts == {k \in [Conns -> 0..Cardinality(MsgIds)] : \A c \in Conns : k[c] <= Len(reqs[c])}

Next ==
    \/ (EdgeNext \/ CollectorNext \/ UploaderNext) /\ UNCHANGED primeVars
    \/ (ApiNext \/ \E c \in Conns : HandlerNext(c)) /\ UNCHANGED dispatcherVars
    \/ \E c \in Conns : DoConnect(c)
    \/ CallError \/ CallTimesOut
    \/ \E c \in Conns : \E keep \in 0..Len(reqs[c]) : LinkFails(c, keep) \/ LateReply(c, keep)
    \/ \E keep \in Cuts : DispatcherRestart(keep)
    \/ PrimeRestart /\ UNCHANGED dispatcherVars
    \/ Stopped

Spec == Init /\ [][Next]_vars

-----------------------------------------------------------------------------
(* Fairness.  Every tokio task that can take a step takes one (collector,  *)
(* uploader, each handler, the client's reader), and a timer that nothing  *)
(* forestalls fires.  tokio::select! picks at random among ready branches, *)
(* so the cancellation cannot be passed over for ever.  Nothing is assumed *)
(* of the edge, the operator, the faults, and of an attempt to connect: it *)
(* has no timeout, so it may last for ever.                                *)

CollectorStep ==
    (CollectorRecv \/ CollectorCheck \/ CollectorStore \/ CollectorStop) /\ UNCHANGED primeVars

UploaderStep ==
    \/ /\ \/ BeginConnect \/ Sleep \/ SendStatus \/ SendEvent \/ FetchReadings \/ FetchNothing \/ SendBatch
          \/ MarkReadings \/ MarkStatuses
          \/ \E c \in Conns : \E p \in reps[c] :
                \/ HelloAccepted(p) \/ HelloRejected(p) \/ StatusAnswered(p)
                \/ EventAnswered(p) \/ BatchAnswered(p)
       /\ UNCHANGED primeVars
    \/ CallError

ReaderStep ==
    \E c \in Conns :
        \/ \E p \in reps[c] : DiscardReply(p) /\ UNCHANGED primeVars
        \/ \E keep \in 0..Len(reqs[c]) : LateReply(c, keep)

HandlerStep(c) ==
    /\ \/ HandleHello(c) \/ HandleStatus(c) \/ HandleEvent(c)
       \/ RecvBatch(c) \/ LookupsDone(c) \/ \E r \in Records : Lookup(c, r)
       \/ StoreReadings(c) \/ StoreStatuses(c) \/ ReplyBatch(c) \/ HandlerEnds(c)
    /\ UNCHANGED dispatcherVars

Fairness ==
    /\ WF_vars(CollectorStep)
    /\ WF_vars(UploaderStep)
    /\ SF_vars(UploaderStop /\ UNCHANGED primeVars)
    /\ WF_vars(ReaderStep)
    /\ \A c \in Conns : WF_vars(HandlerStep(c))

FairSpec == Spec /\ Fairness

-----------------------------------------------------------------------------
TypeOK == WireTypeOK /\ DispatcherTypeOK /\ PrimeTypeOK

\* Nothing is lost without a trace: a record the dispatcher has marked uploaded was
\* stored by prime, or prime has logged its rejection or the failure to store it
\* (main.rs marks a batch once the response to that very batch is in).
NoSilentLoss == \A r \in Records : rows[r] = "uploaded" => r \in Settled

\* Why NoSilentLoss holds, as an inductive invariant.  A client is at hand whenever
\* the uploader needs it, and a call is awaited exactly while it is made ...
ClientInv ==
    /\ upc \in Calling => waiting \in MsgIds
    /\ upc \in Calling \cup {"take", "events", "fetch", "markR", "markS"} => conn \in Conns

\* ... a handler accounts for each record of the batch at the head of its queue:
\* still to be looked up, valid and still to be stored, or settled ...
HandlerInv ==
    \A c \in Conns :
        /\ hpc[c] = "filter" => Head(reqs[c]).recs \subseteq htodo[c] \cup hvalid[c] \cup Settled
        /\ hpc[c] = "storeR" => Head(reqs[c]).recs \subseteq hvalid[c] \cup Settled
        /\ hpc[c] = "storeS" => Head(reqs[c]).recs \subseteq (hvalid[c] \cap Statuses) \cup Settled
        /\ hpc[c] = "reply"  => Head(reqs[c]).recs \subseteq Settled

\* ... the msg_id the uploader awaits belongs to no request but its own batch, and
\* the reply to it is sent when all of the batch is settled ...
AwaitedInv ==
    upc = "batch" =>
        \A c \in Conns :
            /\ \A i \in DOMAIN reqs[c] :
                  reqs[c][i].id = waiting => reqs[c][i].kind = "Batch" /\ reqs[c][i].recs = batch
            /\ \A p \in reps[c] : p.to = waiting => batch \subseteq Settled

\* ... so that only settled records are marked.
MarkInv == upc \in {"markR", "markS"} => batch \subseteq Settled

LossInv ==
    /\ TypeOK /\ ClientInv /\ HandlerInv /\ AwaitedInv /\ MarkInv
    /\ NoSilentLoss

\* Prime sees each alert and each disconnection at most once: a taken event is sent
\* once, whatever timeouts and reconnections follow.
EventsAtMostOnce ==
    \A i, j \in DOMAIN received : received[i] = received[j] => i = j

\* What becomes of queued events (DispatcherState::take_pending_events).  Unless the
\* process dies, an event leaves the dispatcher's memory only on its way to prime, or
\* with a failing call: the status call takes all the events of its cycle along, the
\* call of an event takes that event only.  Events queued meanwhile are safe.
Held     == Range(pending_events) \cup Range(evq)
UnderWay == UNION {{reqs[c][i].event : i \in DOMAIN reqs[c]} : c \in Conns}
Notified == Range(received)
AtRisk   == CASE upc = "status" -> Range(evq)
              [] upc = "event"  -> {Head(evq)}
              [] OTHER          -> {}

EventsLostOnlyByFailure ==
    [][LET lost == Held \ (Held \cup UnderWay \cup Notified)'
       IN  \/ lost = {}
           \/ (CallError \/ CallTimesOut) /\ lost \subseteq AtRisk
           \/ \E keep \in Cuts : DispatcherRestart(keep)]_vars

\* With durable storage at both ends, collector, uploader and prime's handlers
\* together implement at-least-once delivery (module Delivery).
Buffered == {r \in Records : rows[r] = "pending"}
Acked    == {r \in Records : rows[r] = "uploaded"}

AtLeastOnce == INSTANCE Delivery WITH buffered <- Buffered, acked <- Acked, settled <- Settled

ImplementsDelivery == AtLeastOnce!Spec

\* No attempt to connect lasts for ever: TcpStream::connect and the TLS handshake end,
\* with a connection or an error (main.rs:516-523 awaits both without a timeout).
ConnectsEnd == []<>(upc # "connect")

\* A buffered record is uploaded in the end, if the dispatcher stays registered as
\* active and is not shut down and attempts to connect end: every error path of the
\* uploader leads to a retry.
EventuallyUploaded ==
    ConnectsEnd /\ <>[](dstate = "Active" /\ ~cancelled) =>
        \A r \in Records : rows[r] = "pending" ~> rows[r] = "uploaded"

\* After Ctrl+C both tasks end, also while calls to prime time out, connecting fails or
\* prime rejects the dispatcher, in the middle of an upload or of the backoff (unless
\* the process is restarted first).  The one thing that keeps the process from ending is
\* a prime that takes a connection and stays silent, or a host that never answers.
ShutdownCompletes == ConnectsEnd => (cancelled ~> (Exited \/ ~cancelled))

-----------------------------------------------------------------------------
(* What the documentation says and the code does not do.                   *)

\* "Mark sensor readings as successfully uploaded."
\* (ersha-dispatch/src/storage/mod.rs): what is marked, prime has.
UploadedMeansStored == \A r \in Records : rows[r] = "uploaded" => r \in stored

\* "Suspended dispatchers cannot upload data to ersha-prime."
\* (ersha-prime/src/client.rs): no batch is taken on from a suspended dispatcher.
SuspendedCannotUpload ==
    [][\A c \in Conns : hpc[c] = "recv" /\ hpc'[c] = "filter" => dstate # "Suspended"]_vars

=============================================================================

------------------------------- MODULE RpcConn -------------------------------
(***************************************************************************)
(* One RPC connection at the level of its tasks: RpcTcp at both ends       *)
(* (ersha-rpc/src/rpc.rs), a client that makes one call at a time and      *)
(* never calls recv (client.rs), and the server's handler loop (server.rs).*)
(*                                                                         *)
(* Each end has an outgoing queue and a writer task, a reader task and an  *)
(* incoming queue.  tokio::io::split gives each task half of the stream,   *)
(* and the stream is closed only when both halves are dropped.             *)
(***************************************************************************)
EXTENDS Naturals, Sequences

CONSTANTS Buffer,       \* capacity of both queues of an end (1024 in the code)
          PipeCap,      \* frames that fit into the socket buffers of one direction
          MaxCalls      \* bound on the calls the client makes

ASSUME RpcConnAssumption ==
    Buffer \in Nat \ {0} /\ PipeCap \in Nat \ {0} /\ MaxCalls \in Nat

Ends == {"client", "server"}
Peer(e) == IF e = "client" THEN "server" ELSE "client"

\* The i-th call has msg_id i, and a reply names the call it answers.  An oversized
\* request is one that write_frame refuses; a rejection answers a hello.
Requests == {"request", "oversized"}
Replies  == {"reply", "rejection"}
Envelope == [kind: Requests \cup Replies, id: 1..MaxCalls]

VARIABLES
    link,           \* the TCP connection works
    held,           \* the RpcTcp of an end exists
    out, inbox,     \* its queues
    writing, reading,   \* its tasks run
    inhand,         \* the envelope the reader is handing on, if any
    pipe,           \* frames written by an end, not yet read by its peer
    pending,        \* the client's map from msg_id to a waiter
    slot,           \* the oneshot channel of the client's call
    cpc, n,         \* the client: control, calls so far
    hpc, request    \* the server's handler: control, request being served

rpcVars  == <<held, out, inbox, writing, reading, inhand, pipe>>
userVars == <<pending, slot, cpc, n, hpc, request>>
vars == <<link, held, out, inbox, writing, reading, inhand, pipe,
          pending, slot, cpc, n, hpc, request>>

TypeOK ==
    /\ link \in BOOLEAN
    /\ held \in [Ends -> BOOLEAN]
    /\ out \in [Ends -> Seq(Envelope)] /\ inbox \in [Ends -> Seq(Envelope)]
    /\ \A e \in Ends : Len(out[e]) <= Buffer /\ Len(inbox[e]) <= Buffer /\ Len(pipe[e]) <= PipeCap
    /\ writing \in [Ends -> BOOLEAN] /\ reading \in [Ends -> BOOLEAN]
    /\ inhand \in [Ends -> Seq(Envelope)]
    /\ pipe \in [Ends -> Seq(Envelope)]
    /\ pending \subseteq 1..MaxCalls
    /\ slot \in Seq(Envelope)
    /\ cpc \in {"idle", "send", "wait", "expired", "dropped"}
    /\ n \in 0..MaxCalls
    /\ hpc \in {"recv", "reply", "done"}
    /\ request \in Seq(Envelope)

Init ==
    /\ link = TRUE
    /\ held = [e \in Ends |-> TRUE]
    /\ out = [e \in Ends |-> <<>>] /\ inbox = [e \in Ends |-> <<>>]
    /\ writing = [e \in Ends |-> TRUE] /\ reading = [e \in Ends |-> TRUE]
    /\ inhand = [e \in Ends |-> <<>>] /\ pipe = [e \in Ends |-> <<>>]
    /\ pending = {} /\ slot = <<>>
    /\ cpc = "idle" /\ n = 0
    /\ hpc = "recv" /\ request = <<>>

\* Both halves of an end's stream are dropped.
Closed(e) == ~writing[e] /\ ~reading[e]

\* Nothing more can arrive from, or get to, the peer of e.
Cut(e) == ~link \/ Closed(Peer(e))

-----------------------------------------------------------------------------
(* The tasks spawned by RpcTcp::new.                                       *)

\* write_frame; what is being written counts as in the socket buffer.
Write(e) ==
    /\ writing[e] /\ out[e] # <<>> /\ Head(out[e]).kind # "oversized"
    /\ ~Cut(e) /\ Len(pipe[e]) < PipeCap
    /\ pipe' = [pipe EXCEPT ![e] = Append(@, Head(out[e]))]
    /\ out' = [out EXCEPT ![e] = Tail(@)]
    /\ UNCHANGED <<link, held, inbox, writing, reading, inhand, userVars>>

\* MUTANT: the writer logs a write error and goes on.
WriterEnds_OnlyWhenDropped(e) ==
    /\ writing[e] /\ out[e] = <<>> /\ ~held[e]
    /\ writing' = [writing EXCEPT ![e] = FALSE]
    /\ UNCHANGED <<link, held, out, inbox, reading, inhand, pipe, userVars>>

\* The writer ends on a write error, or when the RpcTcp is gone and its queue empty.
WriterEnds(e) ==
    /\ writing[e]
    /\ \/ out[e] # <<>> /\ (Cut(e) \/ Head(out[e]).kind = "oversized")
       \/ out[e] = <<>> /\ ~held[e]
    /\ writing' = [writing EXCEPT ![e] = FALSE]
    /\ out' = [out EXCEPT ![e] = <<>>]
    /\ UNCHANGED <<link, held, inbox, reading, inhand, pipe, userVars>>

\* read_frame: a reply goes to its waiter, if it still has one; anything else, a reply
\* without waiter included, is for recv.  The waiter of an expired call no longer
\* listens.
IsAwaited(e, m) == e = "client" /\ m.kind \in Replies /\ m.id \in pending

Read(e) ==
    /\ reading[e] /\ inhand[e] = <<>> /\ pipe[Peer(e)] # <<>>
    /\ LET m == Head(pipe[Peer(e)])
       IN  IF IsAwaited(e, m)
             THEN /\ pending' = pending \ {m.id}
                  /\ slot' = IF cpc = "expired" THEN slot ELSE <<m>>
                  /\ UNCHANGED inhand
             ELSE inhand' = [inhand EXCEPT ![e] = <<m>>] /\ UNCHANGED <<pending, slot>>
    /\ pipe' = [pipe EXCEPT ![Peer(e)] = Tail(@)]
    /\ UNCHANGED <<link, held, out, inbox, writing, reading, cpc, n, hpc, request>>

\* MUTANT: the incoming queue is not bounded.
HandOn_Unbounded(e) ==
    /\ reading[e] /\ inhand[e] # <<>> /\ held[e]
    /\ inbox' = [inbox EXCEPT ![e] = Append(@, Head(inhand[e]))]
    /\ inhand' = [inhand EXCEPT ![e] = <<>>]
    /\ UNCHANGED <<link, held, out, writing, reading, pipe, userVars>>

\* tx_in.send waits while the incoming queue is full ...
HandOn(e) ==
    /\ reading[e] /\ inhand[e] # <<>> /\ held[e] /\ Len(inbox[e]) < Buffer
    /\ inbox' = [inbox EXCEPT ![e] = Append(@, Head(inhand[e]))]
    /\ inhand' = [inhand EXCEPT ![e] = <<>>]
    /\ UNCHANGED <<link, held, out, writing, reading, pipe, userVars>>

\* MUTANT: the reader goes on after a read error.
ReaderEnds_OnlyWhenDropped(e) ==
    /\ reading[e] /\ inhand[e] # <<>> /\ ~held[e]
    /\ reading' = [reading EXCEPT ![e] = FALSE]
    /\ inhand' = [inhand EXCEPT ![e] = <<>>]
    /\ UNCHANGED <<link, held, out, inbox, writing, pipe, userVars>>

\* ... and fails when the RpcTcp is gone.  A read error ends the reader too.
ReaderEnds(e) ==
    /\ reading[e]
    /\ \/ inhand[e] # <<>> /\ ~held[e]
       \/ inhand[e] = <<>> /\ pipe[Peer(e)] = <<>> /\ Cut(e)
    /\ reading' = [reading EXCEPT ![e] = FALSE]
    /\ inhand' = [inhand EXCEPT ![e] = <<>>]
    /\ UNCHANGED <<link, held, out, inbox, writing, pipe, userVars>>

\* Dropping the RpcTcp of e drops the receiver of its incoming queue.
Drop(e) ==
    /\ held' = [held EXCEPT ![e] = FALSE]
    /\ inbox' = [inbox EXCEPT ![e] = <<>>]

-----------------------------------------------------------------------------
(* The client: RpcTcp::call.                                               *)

CallStart ==
    /\ cpc = "idle" /\ n < MaxCalls
    /\ n' = n + 1 /\ pending' = pending \cup {n + 1}
    /\ cpc' = "send"
    /\ UNCHANGED <<link, rpcVars, slot, hpc, request>>

\* self.tx.send waits for a place in the queue; the timeout does not cover it.
CallSend(kind) ==
    /\ cpc = "send" /\ writing["client"] /\ Len(out["client"]) < Buffer
    /\ out' = [out EXCEPT !["client"] = Append(@, [kind |-> kind, id |-> n])]
    /\ cpc' = "wait"
    /\ UNCHANGED <<link, held, inbox, writing, reading, inhand, pipe, pending, slot, n, hpc, request>>

\* The queue is closed, and the call returns an error.
CallSendFails ==
    /\ cpc = "send" /\ ~writing["client"]
    /\ pending' = pending \ {n} /\ cpc' = "idle"
    /\ UNCHANGED <<link, rpcVars, slot, n, hpc, request>>

\* The timeout passes, and then the waiter is removed: a reply may come in between.
CallExpires ==
    /\ cpc = "wait" /\ slot = <<>>
    /\ cpc' = "expired"
    /\ UNCHANGED <<link, rpcVars, pending, slot, n, hpc, request>>

\* MUTANT: a call that times out leaves its waiter in the map.
CallTimesOut_KeepsWaiter ==
    /\ cpc = "expired" /\ cpc' = "idle"
    /\ UNCHANGED <<link, rpcVars, pending, slot, n, hpc, request>>

CallTimesOut ==
    /\ cpc = "expired"
    /\ pending' = pending \ {n} /\ cpc' = "idle"
    /\ UNCHANGED <<link, rpcVars, slot, n, hpc, request>>

\* A client whose hello was rejected is dropped.
CallAnswered ==
    /\ cpc = "wait" /\ slot # <<>>
    /\ slot' = <<>>
    /\ IF Head(slot).kind = "reply"
         THEN cpc' = "idle" /\ UNCHANGED <<held, inbox>>
         ELSE cpc' = "dropped" /\ Drop("client")
    /\ UNCHANGED <<link, out, writing, reading, inhand, pipe, pending, n, hpc, request>>

\* The uploader sets client = None after a failed call.
ClientDropped ==
    /\ cpc = "idle" /\ n > 0
    /\ cpc' = "dropped" /\ Drop("client")
    /\ UNCHANGED <<link, out, writing, reading, inhand, pipe, pending, slot, n, hpc, request>>

-----------------------------------------------------------------------------
(* The server: handle_connection.                                          *)

HandlerRecv ==
    /\ hpc = "recv" /\ inbox["server"] # <<>>
    /\ request' = <<Head(inbox["server"])>>
    /\ inbox' = [inbox EXCEPT !["server"] = Tail(@)]
    /\ hpc' = "reply"
    /\ UNCHANGED <<link, held, out, writing, reading, inhand, pipe, pending, slot, cpc, n>>

\* rpc.reply waits for a place in the queue; its error is only logged.  The handler
\* of a rejected hello ends.
HandlerReply(kind) ==
    LET id == Head(request).id
    IN  /\ hpc = "reply" /\ (kind = "rejection" => id = 1)
        /\ ~writing["server"] \/ Len(out["server"]) < Buffer
        /\ out' = IF writing["server"]
                    THEN [out EXCEPT !["server"] = Append(@, [kind |-> kind, id |-> id])]
                    ELSE out
        /\ request' = <<>>
        /\ IF kind = "reply"
                 THEN hpc' = "recv" /\ UNCHANGED <<held, inbox>>
                 ELSE hpc' = "done" /\ Drop("server")
        /\ UNCHANGED <<link, writing, reading, inhand, pipe, pending, slot, cpc, n>>

\* rpc.recv returns None.
HandlerEnds ==
    /\ hpc = "recv" /\ inbox["server"] = <<>> /\ ~reading["server"]
    /\ hpc' = "done" /\ Drop("server")
    /\ UNCHANGED <<link, out, writing, reading, inhand, pipe, pending, slot, cpc, n, request>>

-----------------------------------------------------------------------------
\* The link fails; what is in the socket buffers is lost.
LinkFails ==
    /\ link /\ link' = FALSE
    /\ pipe' = [e \in Ends |-> <<>>]
    /\ UNCHANGED <<held, out, inbox, writing, reading, inhand, userVars>>

TaskStep(e) == Write(e) \/ WriterEnds(e) \/ Read(e) \/ HandOn(e) \/ ReaderEnds(e)
CallStep ==
    \/ \E kind \in Requests : CallSend(kind)
    \/ CallSendFails \/ CallExpires \/ CallTimesOut \/ CallAnswered
HandlerStep == HandlerRecv \/ (\E kind \in Replies : HandlerReply(kind)) \/ HandlerEnds

Next ==
    \/ \E e \in Ends : TaskStep(e)
    \/ CallStart \/ CallStep \/ ClientDropped
    \/ HandlerStep
    \/ LinkFails

\* Every task that can run runs, and the timer of a call fires.
Fairness ==
    /\ \A e \in Ends : WF_vars(Write(e) \/ WriterEnds(e)) /\ WF_vars(Read(e) \/ HandOn(e) \/ ReaderEnds(e))
    /\ WF_vars(CallStep)
    /\ WF_vars(HandlerStep)

Spec == Init /\ [][Next]_vars
FairSpec == Spec /\ Fairness

-----------------------------------------------------------------------------
(* Properties.                                                             *)

\* A call is given the reply to its own request, while it waits for one: a reply that
\* comes after the timeout of its call never answers a later call, and no waiter
\* outlives its call (rpc.rs: pending, call and the reader task).
ReplyToItsCall ==
    /\ pending \subseteq (IF cpc \in {"send", "wait", "expired"} THEN {n} ELSE {})
    /\ slot # <<>> => /\ cpc = "wait" /\ Head(slot).id = n
                      /\ Head(slot).kind \in Replies
                      /\ n \notin pending

\* "The client has a default 5-second timeout per call" (ersha-rpc/README.md): a call
\* returns, with its reply or with an error, whatever the peer and the link do.
CallReturns == cpc \in {"send", "wait", "expired"} ~> cpc \in {"idle", "dropped"}

\* Replies that came too late fill the client's incoming queue, which nobody reads, and
\* the reader holds another one: the client can neither read nor, in the end, write.
Clogged ==
    /\ cpc = "send" /\ link
    /\ Len(inbox["client"]) = Buffer /\ inhand["client"] # <<>>

\* The only call that does not return is one that finds the connection clogged with late
\* replies, for as long as the link lasts: a call whose request is queued is ended by its
\* timeout, and one that waits for a place in the queue by a broken link, however many
\* calls were made before (rpc.rs: call, the writer and the reader task).
CallReturnsUnlessClogged == []<>~Clogged => CallReturns

\* When the link is lost, the server's handler and both its tasks end.
LinkLossEndsHandler == ~link ~> hpc = "done" /\ Closed("server")

=============================================================================

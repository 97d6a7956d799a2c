---------------------------- MODULE RpcConnProofs ----------------------------
(***************************************************************************)
(* Proofs about module RpcConn, for any capacities and any number of calls.*)
(***************************************************************************)
EXTENDS RpcConn, TLAPS

\* Operations on a queue keep the type of its elements.
LEMMA QueueOps ==
    ASSUME NEW S, NEW s \in Seq(S)
    PROVE  /\ Len(s) \in Nat
           /\ \A m \in S : Append(s, m) \in Seq(S) /\ Len(Append(s, m)) = Len(s) + 1
           /\ s # <<>> => /\ Head(s) \in S /\ Tail(s) \in Seq(S)
                          /\ Len(Tail(s)) = Len(s) - 1
  OBVIOUS

LEMMA Singleton ==
    ASSUME NEW S, NEW m \in S
    PROVE  <<m>> \in Seq(S) /\ <<m>> # <<>> /\ Head(<<m>>) = m
  OBVIOUS

LEMMA SeqMono ==
    ASSUME NEW S, NEW T, S \subseteq T
    PROVE  Seq(S) \subseteq Seq(T)
  OBVIOUS

LEMMA EmptyQueue == ASSUME NEW S PROVE <<>> \in Seq(S) /\ Len(<<>>) = 0
  OBVIOUS

\* The envelopes of calls whose request has been handed to the writer: all that can be
\* in transit.  The call that is still waiting to send is not among them.
Issued == {m \in Envelope : m.id < (IF cpc = "send" THEN n ELSE n + 1)}

\* What is inductive: besides the types and the property, only envelopes of issued
\* calls are in transit, a handler that replies has a request, and a call that sends
\* has a number.
InTransit ==
    /\ out \in [Ends -> Seq(Issued)] /\ inbox \in [Ends -> Seq(Issued)]
    /\ inhand \in [Ends -> Seq(Issued)] /\ pipe \in [Ends -> Seq(Issued)]
    /\ request \in Seq(Issued)
    /\ hpc = "reply" => request # <<>>
    /\ cpc = "send" => n \in 1..MaxCalls

RpcInv == TypeOK /\ InTransit /\ ReplyToItsCall

\* Initially nothing is in transit.
LEMMA RpcInit == Init => RpcInv
  <1> SUFFICES ASSUME Init PROVE RpcInv
    OBVIOUS
  <1>1. /\ <<>> \in Seq(Issued) /\ <<>> \in Seq(Envelope) /\ Len(<<>>) = 0
        /\ Buffer \in Nat /\ PipeCap \in Nat /\ MaxCalls \in Nat
    BY RpcConnAssumption, EmptyQueue
  <1>2. TypeOK /\ ReplyToItsCall
    BY <1>1 DEF Init, TypeOK, ReplyToItsCall, Ends
  <1>3. InTransit
    BY <1>1 DEF Init, InTransit, Ends
  <1> QED  BY <1>2, <1>3 DEF RpcInv

\* What a queue of issued envelopes gives, and what stays a queue of them.
LEMMA IssuedQueues ==
    ASSUME RpcInv, NEW e \in Ends
    PROVE  /\ out[e] \in Seq(Issued) /\ inbox[e] \in Seq(Issued)
           /\ inhand[e] \in Seq(Issued) /\ pipe[e] \in Seq(Issued)
           /\ pipe[Peer(e)] \in Seq(Issued) /\ Peer(e) \in Ends
           /\ Seq(Issued) \subseteq Seq(Envelope) /\ Issued \subseteq Envelope
           /\ <<>> \in Seq(Issued) /\ Len(<<>>) = 0
           /\ Buffer \in Nat \ {0} /\ PipeCap \in Nat \ {0} /\ MaxCalls \in Nat
  <1>1. Issued \subseteq Envelope
    BY DEF Issued
  <1>2. Seq(Issued) \subseteq Seq(Envelope)
    BY <1>1, SeqMono
  <1>3. Peer(e) \in Ends
    BY DEF Peer, Ends
  <1> QED  BY <1>1, <1>2, <1>3, EmptyQueue, RpcConnAssumption DEF RpcInv, InTransit

\* The tasks move envelopes from queue to queue; only the reader touches the calls.
LEMMA TasksKeep ==
    ASSUME RpcInv, NEW e \in Ends, TaskStep(e)
    PROVE  RpcInv'
  <1>a. /\ out[e] \in Seq(Issued) /\ inbox[e] \in Seq(Issued)
        /\ inhand[e] \in Seq(Issued) /\ pipe[e] \in Seq(Issued)
        /\ pipe[Peer(e)] \in Seq(Issued) /\ Peer(e) \in Ends
        /\ Seq(Issued) \subseteq Seq(Envelope) /\ Issued \subseteq Envelope
        /\ <<>> \in Seq(Issued) /\ Len(<<>>) = 0
        /\ Buffer \in Nat \ {0} /\ PipeCap \in Nat \ {0} /\ MaxCalls \in Nat
    BY IssuedQueues
  <1>b. cpc' = cpc /\ n' = n => Issued' = Issued
    BY DEF Issued
  <1> USE DEF RpcInv
  <1>1. CASE Write(e)
    <2>1. /\ Issued' = Issued
          /\ pipe' \in [Ends -> Seq(Issued)] /\ out' \in [Ends -> Seq(Issued)]
          /\ Len(pipe'[e]) <= PipeCap /\ Len(out'[e]) <= Buffer
      BY <1>1, <1>a, <1>b, QueueOps DEF InTransit, TypeOK, Write, userVars
    <2>2. TypeOK' /\ InTransit'
      BY <1>1, <1>a, <2>1 DEF InTransit, TypeOK, Write, userVars
    <2> QED  BY <1>1, <2>2 DEF ReplyToItsCall, Write, userVars
  <1>2. CASE WriterEnds(e)
    <2>1. Issued' = Issued /\ out' \in [Ends -> Seq(Issued)]
      BY <1>2, <1>a, <1>b DEF InTransit, WriterEnds, userVars
    <2>2. TypeOK' /\ InTransit'
      <3>1. TypeOK'
        BY <1>2, <1>a, <2>1, SMTT(30) DEF TypeOK, WriterEnds, userVars
      <3>2. InTransit'
        BY <1>2, <1>a, <2>1, SMTT(30) DEF InTransit, WriterEnds, userVars
      <3> QED  BY <3>1, <3>2
    <2> QED  BY <1>2, <2>2 DEF ReplyToItsCall, WriterEnds, userVars
  <1>3. CASE Read(e)
    <2> DEFINE m == Head(pipe[Peer(e)])
    <2>1. m \in Issued /\ Tail(pipe[Peer(e)]) \in Seq(Issued)
          /\ Len(Tail(pipe[Peer(e)])) <= PipeCap
      BY <1>3, <1>a, QueueOps DEF TypeOK, Read
    <2>2. <<m>> \in Seq(Issued) /\ <<m>> # <<>> /\ Head(<<m>>) = m
      BY <2>1, Singleton
    <2>3. m.id \in 1..MaxCalls /\ (cpc = "send" => m.id # n)
      BY <2>1, <1>a, SMTT(30) DEF Issued, Envelope, TypeOK
    <2> HIDE DEF m
    <2>4. /\ Issued' = Issued
          /\ pipe' = [pipe EXCEPT ![Peer(e)] = Tail(@)]
          /\ \/ /\ m.kind \in Replies /\ m.id \in pending /\ pending' = pending \ {m.id}
                /\ slot' = IF cpc = "expired" THEN slot ELSE <<m>>
                /\ inhand' = inhand
             \/ /\ inhand' = [inhand EXCEPT ![e] = <<m>>]
                /\ pending' = pending /\ slot' = slot
          /\ UNCHANGED <<link, held, out, inbox, writing, reading, cpc, n, hpc, request>>
      BY <1>3, <1>b DEF Read, IsAwaited, m
    <2>5. InTransit' /\ TypeOK'
      BY <1>a, <2>1, <2>2, <2>4 DEF InTransit, TypeOK
    <2>6. ReplyToItsCall'
      BY <2>2, <2>3, <2>4 DEF ReplyToItsCall
    <2> QED  BY <2>5, <2>6
  <1>4. CASE HandOn(e)
    <2>1. /\ Issued' = Issued
          /\ inbox' \in [Ends -> Seq(Issued)] /\ inhand' \in [Ends -> Seq(Issued)]
          /\ Len(inbox'[e]) <= Buffer
      BY <1>4, <1>a, <1>b, QueueOps DEF InTransit, TypeOK, HandOn, userVars
    <2>2. TypeOK' /\ InTransit'
      BY <1>4, <1>a, <2>1 DEF InTransit, TypeOK, HandOn, userVars
    <2> QED  BY <1>4, <2>2 DEF ReplyToItsCall, HandOn, userVars
  <1>5. CASE ReaderEnds(e)
    <2>1. Issued' = Issued /\ inhand' \in [Ends -> Seq(Issued)]
      BY <1>5, <1>a, <1>b DEF InTransit, ReaderEnds, userVars
    <2>2. TypeOK' /\ InTransit'
      BY <1>5, <1>a, <2>1 DEF InTransit, TypeOK, ReaderEnds, userVars
    <2> QED  BY <1>5, <2>2 DEF ReplyToItsCall, ReaderEnds, userVars
  <1> QED  BY <1>1, <1>2, <1>3, <1>4, <1>5 DEF TaskStep

\* Dropping an end empties its incoming queue.
LEMMA DropType ==
    ASSUME RpcInv, NEW e \in Ends, Drop(e)
    PROVE  /\ held' \in [Ends -> BOOLEAN]
           /\ inbox' \in [Ends -> Seq(Issued)]
           /\ \A d \in Ends : Len(inbox'[d]) <= Buffer
  <1>1. <<>> \in Seq(Issued) /\ Len(<<>>) = 0 /\ Buffer \in Nat
    BY IssuedQueues
  <1> QED  BY <1>1 DEF RpcInv, TypeOK, InTransit, Drop

\* The steps of the client.
LEMMA ClientKeeps ==
    ASSUME RpcInv, CallStart \/ CallStep \/ ClientDropped
    PROVE  RpcInv'
  <1>a. /\ "client" \in Ends /\ out["client"] \in Seq(Issued)
        /\ Seq(Issued) \subseteq Seq(Envelope) /\ Issued \subseteq Envelope
        /\ <<>> \in Seq(Issued) /\ <<>> \in Seq(Envelope) /\ Len(<<>>) = 0
        /\ Buffer \in Nat \ {0} /\ PipeCap \in Nat \ {0} /\ MaxCalls \in Nat
    BY IssuedQueues DEF Ends
  <1> USE DEF RpcInv
  <1>1. CASE CallStart
    <2>1. Issued' = Issued /\ n \in Nat /\ n + 1 \in 1..MaxCalls
      BY <1>1, <1>a DEF CallStart, Issued, TypeOK
    <2>2. TypeOK' /\ InTransit'
      BY <1>1, <1>a, <2>1 DEF InTransit, TypeOK, CallStart, rpcVars
    <2> QED  BY <1>1, <2>1, <2>2 DEF ReplyToItsCall, CallStart
  <1>2. ASSUME NEW kind \in Requests, CallSend(kind)
        PROVE  RpcInv'
    <2> DEFINE m == [kind |-> kind, id |-> n]
    <2>1. n \in 1..MaxCalls
      BY <1>2 DEF CallSend, InTransit
    <2>2. m \in Issued' /\ Issued \subseteq Issued' /\ Issued' \subseteq Envelope
      BY <1>2, <1>a, <2>1 DEF CallSend, Issued, Envelope, TypeOK
    <2>3. Seq(Issued) \subseteq Seq(Issued') /\ Seq(Issued') \subseteq Seq(Envelope)
      BY <2>2, SeqMono
    <2> HIDE DEF m
    <2>4. /\ out["client"] \in Seq(Issued')
          /\ Append(out["client"], m) \in Seq(Issued')
          /\ Len(Append(out["client"], m)) <= Buffer
      BY <1>2, <1>a, <2>2, <2>3, QueueOps DEF CallSend, TypeOK
    <2>5. out' = [out EXCEPT !["client"] = Append(@, m)]
      BY <1>2 DEF CallSend, m
    <2>6. TypeOK' /\ InTransit'
      BY <1>2, <1>a, <2>3, <2>4, <2>5 DEF InTransit, TypeOK, CallSend
    <2> QED  BY <1>2, <2>6 DEF ReplyToItsCall, CallSend
  <1>3. CASE CallSendFails
    <2>1. n + 1 > n /\ InTransit'
      <3>1. Issued \subseteq Issued'
        BY <1>3, <1>a DEF CallSendFails, Issued, TypeOK, Envelope
      <3>2. Seq(Issued) \subseteq Seq(Issued')
        BY <3>1, SeqMono
      <3> QED  BY <1>3, <3>2 DEF InTransit, CallSendFails, rpcVars, TypeOK
    <2> QED  BY <1>3, <2>1 DEF TypeOK, ReplyToItsCall, CallSendFails, rpcVars
  <1>4. CASE CallExpires \/ CallTimesOut
    <2>1. Issued' = Issued
      BY <1>4 DEF CallExpires, CallTimesOut, Issued
    <2> QED  BY <1>4, <2>1
             DEF TypeOK, InTransit, ReplyToItsCall, CallExpires, CallTimesOut, rpcVars
  <1>5. CASE CallAnswered \/ ClientDropped
    <2>1. Issued' = Issued
      BY <1>5 DEF CallAnswered, ClientDropped, Issued
    <2>2. /\ held' \in [Ends -> BOOLEAN] /\ inbox' \in [Ends -> Seq(Issued)]
          /\ \A d \in Ends : Len(inbox'[d]) <= Buffer
      BY <1>5, <1>a, DropType DEF CallAnswered, ClientDropped, TypeOK, InTransit
    <2>3. TypeOK' /\ InTransit'
      BY <1>5, <1>a, <2>1, <2>2 DEF TypeOK, InTransit, CallAnswered, ClientDropped
    <2> QED  BY <1>5, <2>3 DEF ReplyToItsCall, CallAnswered, ClientDropped
  <1> QED  BY <1>1, <1>2, <1>3, <1>4, <1>5 DEF CallStep

\* The steps of the server's handler.
LEMMA HandlerKeeps ==
    ASSUME RpcInv, HandlerStep
    PROVE  RpcInv'
  <1>a. /\ "server" \in Ends /\ out["server"] \in Seq(Issued) /\ inbox["server"] \in Seq(Issued)
        /\ Seq(Issued) \subseteq Seq(Envelope) /\ Issued \subseteq Envelope
        /\ <<>> \in Seq(Issued) /\ Len(<<>>) = 0
        /\ Buffer \in Nat \ {0} /\ PipeCap \in Nat \ {0} /\ MaxCalls \in Nat
    BY IssuedQueues DEF Ends
  <1>b. cpc' = cpc /\ n' = n => Issued' = Issued
    BY DEF Issued
  <1> USE DEF RpcInv
  <1>1. CASE HandlerRecv
    <2> DEFINE m == Head(inbox["server"])
    <2>1. /\ m \in Issued /\ Tail(inbox["server"]) \in Seq(Issued)
          /\ Len(Tail(inbox["server"])) <= Buffer
      BY <1>1, <1>a, QueueOps DEF HandlerRecv, TypeOK
    <2>2. <<m>> \in Seq(Issued) /\ <<m>> # <<>>
      BY <2>1, Singleton
    <2>3. request' = <<m>> /\ Issued' = Issued
      BY <1>1, <1>b DEF HandlerRecv
    <2> HIDE DEF m
    <2>4. TypeOK' /\ InTransit'
      BY <1>1, <1>a, <2>1, <2>2, <2>3 DEF TypeOK, InTransit, HandlerRecv
    <2> QED  BY <1>1, <2>4 DEF ReplyToItsCall, HandlerRecv
  <1>2. ASSUME NEW kind \in Replies, HandlerReply(kind)
        PROVE  RpcInv'
    <2> DEFINE m == [kind |-> kind, id |-> Head(request).id]
    <2>1. Head(request) \in Issued
      BY <1>2, QueueOps DEF HandlerReply, InTransit
    <2>2. m \in Issued
      BY <2>1 DEF Issued, Envelope
    <2>3. Issued' = Issued
      BY <1>2, <1>b DEF HandlerReply
    <2> HIDE DEF m
    <2>4. /\ Append(out["server"], m) \in Seq(Issued)
          /\ Len(Append(out["server"], m)) = Len(out["server"]) + 1
          /\ Len(out["server"]) \in Nat
      BY <1>a, <2>2, QueueOps
    <2>5. /\ out' = out \/ /\ Len(out["server"]) < Buffer
                           /\ out' = [out EXCEPT !["server"] = Append(@, m)]
      BY <1>2 DEF HandlerReply, m
    <2>6. out' \in [Ends -> Seq(Issued)] /\ \A d \in Ends : Len(out'[d]) <= Buffer
      <3>1. CASE out' = out
        BY <3>1 DEF InTransit, TypeOK
      <3>2. CASE Len(out["server"]) < Buffer /\ out' = [out EXCEPT !["server"] = Append(@, m)]
        <4>1. out'["server"] = Append(out["server"], m)
              /\ \A d \in Ends \ {"server"} : out'[d] = out[d]
          BY <1>a, <3>2 DEF InTransit
        <4>2. out' \in [Ends -> Seq(Issued)]
          BY <1>a, <2>4, <3>2 DEF InTransit
        <4>3. \A d \in Ends : Len(out'[d]) <= Buffer
          BY <1>a, <2>4, <3>2, <4>1 DEF TypeOK
        <4> QED  BY <4>2, <4>3
      <3> QED  BY <2>5, <3>1, <3>2
    <2>7. /\ held' \in [Ends -> BOOLEAN] /\ inbox' \in [Ends -> Seq(Issued)]
          /\ \A d \in Ends : Len(inbox'[d]) <= Buffer
      BY <1>2, <1>a, DropType DEF HandlerReply, TypeOK, InTransit
    <2>8. TypeOK' /\ InTransit'
      BY <1>2, <1>a, <2>3, <2>6, <2>7 DEF TypeOK, InTransit, HandlerReply
    <2> QED  BY <1>2, <2>8 DEF ReplyToItsCall, HandlerReply
  <1>3. CASE HandlerEnds
    <2>1. Issued' = Issued
      BY <1>3, <1>b DEF HandlerEnds
    <2>2. /\ held' \in [Ends -> BOOLEAN] /\ inbox' \in [Ends -> Seq(Issued)]
          /\ \A d \in Ends : Len(inbox'[d]) <= Buffer
      BY <1>3, <1>a, DropType DEF HandlerEnds
    <2>3. TypeOK' /\ InTransit'
      BY <1>3, <1>a, <2>1, <2>2 DEF TypeOK, InTransit, HandlerEnds
    <2> QED  BY <1>3, <2>3 DEF ReplyToItsCall, HandlerEnds
  <1> QED  BY <1>1, <1>2, <1>3 DEF HandlerStep

\* Every step keeps the invariant.
LEMMA RpcStep == RpcInv /\ [Next]_vars => RpcInv'
  <1> SUFFICES ASSUME RpcInv, [Next]_vars PROVE RpcInv'
    OBVIOUS
  <1>1. CASE LinkFails
    <2>1. Issued' = Issued
      BY <1>1 DEF LinkFails, userVars, Issued
    <2>2. \A e \in Ends : /\ <<>> \in Seq(Issued) /\ <<>> \in Seq(Envelope) /\ Len(<<>>) = 0
                          /\ PipeCap \in Nat
      BY IssuedQueues
    <2>3. TypeOK' /\ InTransit'
      <3>1. /\ pipe' \in [Ends -> Seq(Issued)] /\ pipe' \in [Ends -> Seq(Envelope)]
            /\ \A e \in Ends : Len(pipe'[e]) <= PipeCap
        BY <1>1, <2>2 DEF LinkFails
      <3> QED  BY <1>1, <2>1, <3>1 DEF RpcInv, TypeOK, InTransit, LinkFails, userVars
    <2> QED  BY <1>1, <2>3 DEF RpcInv, ReplyToItsCall, LinkFails, userVars
  <1>2. CASE UNCHANGED vars
    <2>1. Issued' = Issued
      BY <1>2 DEF vars, Issued
    <2> QED  BY <1>2, <2>1 DEF vars, RpcInv, TypeOK, InTransit, ReplyToItsCall
  <1> QED  BY <1>1, <1>2, TasksKeep, ClientKeeps, HandlerKeeps DEF Next

\* The queues of a connection never exceed their capacities.
THEOREM RpcTypeCorrect == Spec => []TypeOK
  <1>1. RpcInv => TypeOK
    BY DEF RpcInv
  <1> QED  BY <1>1, RpcInit, RpcStep, PTL DEF Spec

\* A call is given the reply to its own request, while it waits for one; a late reply
\* never answers a later call.
THEOREM RpcReplyToItsCall == Spec => []ReplyToItsCall
  <1>1. RpcInv => ReplyToItsCall
    BY DEF RpcInv
  <1> QED  BY <1>1, RpcInit, RpcStep, PTL DEF Spec

=============================================================================

-------------------------------- MODULE Wire --------------------------------
(***************************************************************************)
(* The RPC connections between a dispatcher and ersha-prime, as the two    *)
(* ends see them through RpcTcp (ersha-rpc/src/rpc.rs).                    *)
(*                                                                         *)
(* reqs[c] holds the requests written to connection c that prime's handler *)
(* has not finished, in order; the one being handled stays at the head.    *)
(* reps[c] holds the replies on their way back.  A reply carries the       *)
(* msg_id it answers in `to`, which is all that links it to a call: a      *)
(* reply may arrive long after its caller has given up.                    *)
(*                                                                         *)
(* A connection the client drops is not closed: the reader task of each    *)
(* end keeps its half of the stream, so requests already written are       *)
(* still handled.  Only a lost link or the death of a process ends it.     *)
(***************************************************************************)
EXTENDS DispatchStorage, Sequences, FiniteSets

CONSTANTS Conns,        \* connection slots (bound on concurrent connections)
          MsgIds,       \* message ids (ULIDs); an id is reused once it is nowhere
          Devices,      \* edge devices
          DeviceOf,     \* the device that produced a record
          NoConn, NoMsg, NoEvent,
          FrameLimit,   \* records that fit in one frame of MAX_FRAME_BYTES
          MaxDisturbances   \* bound on the faults and interventions of a behaviour

ASSUME WireAssumption ==
    /\ NoConn \notin Conns
    /\ NoMsg \notin MsgIds
    /\ DeviceOf \in [Records -> Devices]
    /\ FrameLimit \in Nat
    /\ MaxDisturbances \in Nat

VARIABLES up,           \* connections whose link works in both directions
          reqs,         \* [Conns -> Seq(Request)]
          reps,         \* [Conns -> SUBSET Response]
          disturbances  \* faults and interventions so far (not part of the program)

wireVars == <<up, reqs, reps, disturbances>>

\* PrimeEvent (ersha-dispatch/src/state.rs): what an event is about identifies it.
PrimeEvent == [kind: {"Disconnection", "CriticalBattery", "SensorFailure"},
               of: Devices \cup Statuses, sensor: Nat]

Request ==
    {m \in [id: MsgIds, kind: {"Hello", "Status", "Event", "Batch"},
            recs: SUBSET Records, event: PrimeEvent \cup {NoEvent}] :
        m.kind = "Event" => m.event \in PrimeEvent}

Response == [to: MsgIds, kind: {"Accepted", "Rejected", "Status", "Event", "Batch"}]

WireTypeOK ==
    /\ up \subseteq Conns
    /\ reqs \in [Conns -> Seq(Request)]
    /\ reps \in [Conns -> SUBSET Response]
    /\ disturbances \in 0..MaxDisturbances

WireInit ==
    /\ up = {}
    /\ reqs = [c \in Conns |-> <<>>]
    /\ reps = [c \in Conns |-> {}]
    /\ disturbances = 0

-----------------------------------------------------------------------------
\* Something the code must cope with happens: a fault, a crash, a device that leaves,
\* an operator who intervenes.  There are at most MaxDisturbances in a behaviour.
Disturb == disturbances < MaxDisturbances /\ disturbances' = disturbances + 1

IdsIn(c) == {reqs[c][i].id : i \in DOMAIN reqs[c]} \cup {p.to : p \in reps[c]}

\* MessageId::new(): an id that occurs nowhere in the system.
FreshIds == MsgIds \ UNION {IdsIn(c) : c \in Conns}

\* Mutant: message ids are not unique.
NewId_Constant == CHOOSE i \in MsgIds : TRUE

NewId == CHOOSE i \in MsgIds : i \in FreshIds

Msg(kind, recs, event) == [id |-> NewId, kind |-> kind, recs |-> recs, event |-> event]

\* write_frame refuses a message longer than MAX_FRAME_BYTES.
Fits(m) == Cardinality(m.recs) <= FrameLimit

\* The writer task puts the request on the stream.  It is lost on a broken one, and
\* if it does not fit (the writer task then ends; no caller sends after that).
Send(c, m) == reqs' = [reqs EXCEPT ![c] = IF c \in up /\ Fits(m) THEN Append(@, m) ELSE @]

\* RpcTcp::reply to the request at the head of reqs[c], and on to the next one.
Reply(c, kind) ==
    /\ reps' = [reps EXCEPT ![c] = IF c \in up THEN @ \cup {[to |-> Head(reqs[c]).id, kind |-> kind]}
                                                ELSE @]
    /\ reqs' = [reqs EXCEPT ![c] = Tail(@)]

\* The link of c fails: the last requests and every reply under way are lost.
\* The first `keep` requests have already reached prime.
Cut(c, keep) ==
    /\ up' = up \ {c}
    /\ reqs' = [reqs EXCEPT ![c] = SubSeq(@, 1, keep)]
    /\ reps' = [reps EXCEPT ![c] = {}]

=============================================================================

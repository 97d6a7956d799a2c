------------------------------- MODULE Prime -------------------------------
(***************************************************************************)
(* ersha-prime: the RPC server's connection handlers (ersha-rpc/src/       *)
(* server.rs with the closures of ersha-prime/src/main.rs) and the         *)
(* registries they read and write.  Each connection has a handler task     *)
(* that serves its requests one at a time; handlers of different           *)
(* connections, and the HTTP API, interleave at every registry access.     *)
(***************************************************************************)
EXTENDS Wire

CONSTANTS KnownDevices,     \* devices registered at the start
          PrimeDurable      \* TRUE: SQLite or ClickHouse registries, FALSE: in-memory

ASSUME PrimeAssumption ==
    /\ KnownDevices \subseteq Devices
    /\ PrimeDurable \in BOOLEAN

VARIABLES
    devices,        \* device registry: ids it has an entry for
    dstate,         \* dispatcher registry: the dispatcher's state, "unknown" without entry
    hpc,            \* handler of a connection: control
    htodo,          \* records of the batch it still has to look up
    hvalid,         \* records of the batch that passed the lookup
    stored,         \* reading and status registries
    rejected,       \* records a batch counted as rejected (log)
    unstored,       \* records a failed batch_store did not store (log)
    received        \* alerts and disconnections acknowledged, in order (log)

handlerVars  == <<hpc, htodo, hvalid>>
registryVars == <<devices, dstate>>
recordVars   == <<stored, rejected, unstored>>
primeVars    == <<devices, dstate, hpc, htodo, hvalid, stored, rejected, unstored, received>>

Busy == {"filter", "storeR", "storeS", "reply"}

PrimeTypeOK ==
    /\ devices \subseteq Devices
    /\ dstate \in {"unknown", "Active", "Suspended"}
    /\ hpc \in [Conns -> {"recv", "closed"} \cup Busy]
    /\ \A c \in Conns : hpc[c] \in Busy => reqs[c] # <<>>
    /\ htodo \in [Conns -> SUBSET Records]
    /\ hvalid \in [Conns -> SUBSET Records]
    /\ stored \subseteq Records
    /\ rejected \subseteq Records
    /\ unstored \subseteq Records
    /\ received \in Seq(PrimeEvent)

PrimeInit ==
    /\ devices = KnownDevices
    /\ dstate \in {"unknown", "Active"}
    /\ hpc = [c \in Conns |-> "closed"]
    /\ htodo = [c \in Conns |-> {}]
    /\ hvalid = [c \in Conns |-> {}]
    /\ stored = {} /\ rejected = {} /\ unstored = {}
    /\ received = <<>>

\* Records whose fate prime has decided and logged.
Settled == stored \cup rejected \cup unstored

-----------------------------------------------------------------------------
(* The HTTP API.                                                           *)

RegisterDevice(d) ==
    /\ d \notin devices /\ Disturb
    /\ devices' = devices \cup {d}
    /\ UNCHANGED <<up, reqs, reps, dstate, handlerVars, recordVars, received>>

\* Registering replaces the entry, also a suspended one, by an active one.
RegisterDispatcher ==
    /\ dstate # "Active" /\ Disturb
    /\ dstate' = "Active"
    /\ UNCHANGED <<up, reqs, reps, devices, handlerVars, recordVars, received>>

SuspendDispatcher ==
    /\ dstate = "Active" /\ Disturb
    /\ dstate' = "Suspended"
    /\ UNCHANGED <<up, reqs, reps, devices, handlerVars, recordVars, received>>

-----------------------------------------------------------------------------
(* Server::handle_connection and the handlers of ersha-prime.              *)

\* serve accepts the connection in slot c and spawns its handler.
Accept(c) ==
    /\ hpc' = [hpc EXCEPT ![c] = "recv"]
    /\ UNCHANGED <<registryVars, htodo, hvalid, recordVars, received>>

\* The next request on connection c, if its handler is ready for one.
Receives(c, kind) == hpc[c] = "recv" /\ reqs[c] # <<>> /\ Head(reqs[c]).kind = kind

\* on_hello accepts an active dispatcher only; the handler of a rejected one ends.
HandleHello(c) ==
    /\ Receives(c, "Hello")
    /\ IF dstate = "Active"
         THEN Reply(c, "Accepted") /\ UNCHANGED hpc
         ELSE Reply(c, "Rejected") /\ hpc' = [hpc EXCEPT ![c] = "closed"]
    /\ UNCHANGED <<up, disturbances, registryVars, htodo, hvalid, recordVars, received>>

\* The dispatcher registry returns an error: rejected with InternalError.
HelloLookupFails(c) ==
    /\ Receives(c, "Hello") /\ PrimeDurable /\ Disturb
    /\ Reply(c, "Rejected") /\ hpc' = [hpc EXCEPT ![c] = "closed"]
    /\ UNCHANGED <<up, registryVars, htodo, hvalid, recordVars, received>>

HandleStatus(c) ==
    /\ Receives(c, "Status")
    /\ Reply(c, "Status")
    /\ UNCHANGED <<up, disturbances, primeVars>>

\* on_alert and on_device_disconnection: log and acknowledge.
HandleEvent(c) ==
    /\ Receives(c, "Event")
    /\ Reply(c, "Event")
    /\ received' = Append(received, Head(reqs[c]).event)
    /\ UNCHANGED <<up, disturbances, registryVars, handlerVars, recordVars>>

\* on_batch_upload, first the lookups: readings, then statuses.
RecvBatch(c) ==
    /\ Receives(c, "Batch")
    /\ hpc' = [hpc EXCEPT ![c] = "filter"]
    /\ htodo' = [htodo EXCEPT ![c] = Head(reqs[c]).recs]
    /\ hvalid' = [hvalid EXCEPT ![c] = {}]
    /\ UNCHANGED <<wireVars, registryVars, recordVars, received>>

LookupNext(c, r) ==
    /\ hpc[c] = "filter" /\ r \in htodo[c]
    /\ r \in Statuses => htodo[c] \cap Readings = {}
    /\ htodo' = [htodo EXCEPT ![c] = @ \ {r}]
    /\ UNCHANGED <<up, reqs, reps, registryVars, hpc, stored, unstored, received>>

Lookup(c, r) ==
    /\ LookupNext(c, r)
    /\ IF DeviceOf[r] \in devices
         THEN hvalid' = [hvalid EXCEPT ![c] = @ \cup {r}] /\ UNCHANGED rejected
         ELSE rejected' = rejected \cup {r} /\ UNCHANGED hvalid
    /\ UNCHANGED disturbances

\* An error of the device registry counts as an unknown device.
LookupFails(c, r) ==
    /\ LookupNext(c, r) /\ PrimeDurable /\ Disturb
    /\ rejected' = rejected \cup {r} /\ UNCHANGED hvalid

LookupsDone(c) ==
    /\ hpc[c] = "filter" /\ htodo[c] = {}
    /\ hpc' = [hpc EXCEPT ![c] = "storeR"]
    /\ UNCHANGED <<wireVars, registryVars, htodo, hvalid, recordVars, received>>

\* batch_store of the valid readings, in one transaction ...
StoreReadings(c) ==
    /\ hpc[c] = "storeR"
    /\ hpc' = [hpc EXCEPT ![c] = "storeS"]
    /\ stored' = stored \cup (hvalid[c] \cap Readings)
    /\ UNCHANGED <<wireVars, registryVars, htodo, hvalid, rejected, unstored, received>>

StoreReadingsFails(c) ==
    /\ hpc[c] = "storeR" /\ hvalid[c] \cap Readings # {} /\ PrimeDurable /\ Disturb
    /\ hpc' = [hpc EXCEPT ![c] = "storeS"]
    /\ unstored' = unstored \cup (hvalid[c] \cap Readings)
    /\ UNCHANGED <<up, reqs, reps, registryVars, htodo, hvalid, stored, rejected, received>>

\* ... and of the valid statuses, one transaction each: a failure leaves some stored.
StoreStatuses(c) ==
    /\ hpc[c] = "storeS"
    /\ hpc' = [hpc EXCEPT ![c] = "reply"]
    /\ stored' = stored \cup (hvalid[c] \cap Statuses)
    /\ UNCHANGED <<wireVars, registryVars, htodo, hvalid, rejected, unstored, received>>

StoreStatusesFails(c, done) ==
    LET valid == hvalid[c] \cap Statuses
    IN  /\ hpc[c] = "storeS" /\ done \subseteq valid /\ done # valid /\ PrimeDurable /\ Disturb
        /\ hpc' = [hpc EXCEPT ![c] = "reply"]
        /\ stored' = stored \cup done
        /\ unstored' = unstored \cup (valid \ done)
        /\ UNCHANGED <<up, reqs, reps, registryVars, htodo, hvalid, rejected, received>>

\* The response does not depend on whether the batch_stores succeeded.
ReplyBatch(c) ==
    /\ hpc[c] = "reply"
    /\ Reply(c, "Batch")
    /\ hpc' = [hpc EXCEPT ![c] = "recv"]
    /\ hvalid' = [hvalid EXCEPT ![c] = {}]
    /\ UNCHANGED <<up, disturbances, registryVars, htodo, recordVars, received>>

\* rpc.recv() returns None: the link is gone and every request was served.
HandlerEnds(c) ==
    /\ hpc[c] = "recv" /\ c \notin up /\ reqs[c] = <<>>
    /\ hpc' = [hpc EXCEPT ![c] = "closed"]
    /\ UNCHANGED <<wireVars, registryVars, htodo, hvalid, recordVars, received>>

HandlerNext(c) ==
    \/ HandleHello(c) \/ HelloLookupFails(c) \/ HandleStatus(c) \/ HandleEvent(c)
    \/ RecvBatch(c) \/ LookupsDone(c)
    \/ \E r \in Records : Lookup(c, r) \/ LookupFails(c, r)
    \/ StoreReadings(c) \/ StoreReadingsFails(c) \/ StoreStatuses(c)
    \/ \E done \in SUBSET Statuses : StoreStatusesFails(c, done)
    \/ ReplyBatch(c) \/ HandlerEnds(c)

ApiNext ==
    \/ \E d \in Devices : RegisterDevice(d)
    \/ RegisterDispatcher \/ SuspendDispatcher

\* The process dies and starts again: the handlers and every connection are gone.
PrimeRestart ==
    /\ Disturb
    /\ up' = {}
    /\ reqs' = [c \in Conns |-> <<>>]
    /\ reps' = [c \in Conns |-> {}]
    /\ hpc' = [c \in Conns |-> "closed"]
    /\ htodo' = [c \in Conns |-> {}]
    /\ hvalid' = [c \in Conns |-> {}]
    /\ IF PrimeDurable THEN UNCHANGED <<registryVars, stored>>
                       ELSE devices' = {} /\ dstate' = "unknown" /\ stored' = {}
    /\ UNCHANGED <<rejected, unstored, received>>

=============================================================================

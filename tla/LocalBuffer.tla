---------------------------- MODULE LocalBuffer ----------------------------
(***************************************************************************)
(* The two implementations of the dispatcher's local buffer, with all of   *)
(* their operations and the steps a concurrent caller can observe.         *)
(*                                                                         *)
(* memory.rs keeps two maps, each behind a tokio RwLock; an operation      *)
(* waits for its locks one after the other and keeps them to its end; the  *)
(* threads of the runtime go on meanwhile.  sqlite.rs runs one transaction per operation, and two separate  *)
(* queries for the statistics.  A query or a transaction may fail, and     *)
(* then has no effect.                                                     *)
(***************************************************************************)
EXTENDS DispatchStorage, Sequences, SequencesExt, FiniteSets

CONSTANTS Tasks,            \* tasks that share the buffer
          Ages,             \* arguments of cleanup_uploaded, in seconds
          TicksPerSecond,   \* resolution of the clock of the model
          MaxTime           \* bound on the clock, in ticks

ASSUME BufferAssumption ==
    /\ Ages \subseteq Nat
    /\ TicksPerSecond \in Nat \ {0}
    /\ MaxTime \in Nat

VARIABLES backend,   \* which implementation the configuration selected
          rows,      \* the rows of both tables
          marked,    \* SQLite: when each row was last marked uploaded, in ticks
          now,       \* the clock, in ticks; only SQLite looks at it
          queue,     \* per table: the requests for its RwLock, in FIFO order
          op,        \* per task: the operation under way
          result     \* per task: what its query returned, so far or at its end

vars == <<backend, rows, marked, now, queue, op, result>>

Table == {"readings", "statuses"}

Keys(tab) == IF tab = "readings" THEN Readings ELSE Statuses

Idle == [kind |-> "idle"]

Operations ==
         {Idle}
    \cup [kind : {"store_batch"}, tab : Table, ids : SUBSET Records]
    \cup [kind : {"fetch_pending"}, tab : Table]
    \cup [kind : {"mark_uploaded"}, tab : Table, ids : SUBSET Records]
    \cup [kind : {"get_stats"}]
    \cup [kind : {"cleanup_uploaded"}, age : Ages]

\* What get_stats counts, in this order; the uploaded rows of a table are its total less
\* its pending ones.
Counters == <<[tab |-> "readings", of |-> {"pending", "uploaded"}],
              [tab |-> "readings", of |-> {"pending"}],
              [tab |-> "statuses", of |-> {"pending", "uploaded"}],
              [tab |-> "statuses", of |-> {"pending"}]>>

Count(i, r) == Cardinality({k \in Keys(Counters[i].tab) : r[k] \in Counters[i].of})

\* The ids a query returned, and the numbers counted so far.
Nothing == [ids |-> {}, stats |-> <<>>]

Init ==
    /\ backend \in {"memory", "sqlite"}
    /\ rows = EmptyTables
    /\ marked = [r \in Records |-> 0]
    /\ now = 0
    /\ queue = [tab \in Table |-> <<>>]
    /\ op = [t \in Tasks |-> Idle]
    /\ result = [t \in Tasks |-> Nothing]

-----------------------------------------------------------------------------
(* The locks of the in-memory buffer. *)

\* Mutant: cleanup takes the locks in the other order.
LockOrder_Opposite(o) ==
    CASE o.kind = "get_stats"        -> <<"readings", "statuses">>
      [] o.kind = "cleanup_uploaded" -> <<"statuses", "readings">>
      [] OTHER                       -> <<o.tab>>

\* The order in which an operation takes the locks it needs.
LockOrder(o) ==
    CASE o.kind = "get_stats"        -> <<"readings", "statuses">>
      [] o.kind = "cleanup_uploaded" -> <<"readings", "statuses">>
      [] OTHER                       -> <<o.tab>>

\* Read or write access.
Exclusive(o) == o.kind \notin {"get_stats", "fetch_pending"}

Waits(t, tab) == \E i \in DOMAIN queue[tab] : queue[tab][i].task = t

\* tokio's RwLock grants requests in FIFO order, neighbouring readers together.
Holds(t, tab) ==
    \E i \in DOMAIN queue[tab] :
        /\ queue[tab][i].task = t
        /\ \/ i = 1
           \/ \A j \in 1 .. i : ~queue[tab][j].exclusive

Enqueue(t, tab, o) ==
    queue' = [queue EXCEPT ![tab] = Append(@, [task |-> t, exclusive |-> Exclusive(o)])]

\* The requests q without that of task t: a task asks for a lock once.
Without(q, t) ==
    IF \E i \in DOMAIN q : q[i].task = t
    THEN RemoveAt(q, CHOOSE i \in DOMAIN q : q[i].task = t)
    ELSE q

\* Mutant: only the lock of the readings is given back.
Release_Readings(t) == queue' = [queue EXCEPT !["readings"] = Without(@, t)]

Release(t) == queue' = [tab \in Table |-> Without(queue[tab], t)]

\* The operation has all of its locks and can run to its end.
Ready(t) ==
    /\ op[t] # Idle
    /\ backend = "memory" => \A i \in DOMAIN LockOrder(op[t]) : Holds(t, LockOrder(op[t])[i])

\* The first of two locks is held, and the second not yet asked for.
HalfWay(t) ==
    /\ backend = "memory"
    /\ op[t] # Idle
    /\ Len(LockOrder(op[t])) = 2
    /\ Holds(t, LockOrder(op[t])[1])
    /\ ~Waits(t, LockOrder(op[t])[2])

NextLock(t) ==
    /\ HalfWay(t)
    /\ Enqueue(t, LockOrder(op[t])[2], op[t])
    /\ UNCHANGED <<backend, rows, marked, now, op, result>>

-----------------------------------------------------------------------------
(* Calls. *)

Call(t, o) ==
    /\ op[t] = Idle
    /\ op' = [op EXCEPT ![t] = o]
    /\ IF backend = "memory" THEN Enqueue(t, LockOrder(o)[1], o) ELSE UNCHANGED queue
    /\ result' = [result EXCEPT ![t] = Nothing]
    /\ UNCHANGED <<backend, rows, marked, now>>

\* store (a batch of one), store_batch, fetch_pending and mark_uploaded of the
\* ids that fetch_pending returned.
Begin(t) ==
    \E tab \in Table :
        \/ \E ids \in SUBSET Keys(tab) :
               /\ ids # {}
               /\ Call(t, [kind |-> "store_batch", tab |-> tab, ids |-> ids])
        \/ Call(t, [kind |-> "fetch_pending", tab |-> tab])
        \/ /\ result[t].ids \cap Keys(tab) # {}
           /\ Call(t, [kind |-> "mark_uploaded", tab |-> tab, ids |-> result[t].ids])

BeginMaintenance(t) ==
    \/ Call(t, [kind |-> "get_stats"])
    \/ \E age \in Ages : Call(t, [kind |-> "cleanup_uploaded", age |-> age])

\* The operation of t ends and leaves the rows r.
Returns(t, r) ==
    /\ rows' = r
    /\ op' = [op EXCEPT ![t] = Idle]
    /\ Release(t)

\* SQLite's INSERT refuses an id that has a row, and the batch is rolled back.
StoreBatch(t) ==
    /\ op[t].kind = "store_batch"
    /\ Ready(t)
    /\ backend = "sqlite" => \A r \in op[t].ids : rows[r] = "none"
    /\ Returns(t, [r \in Records |-> IF r \in op[t].ids THEN "pending" ELSE rows[r]])
    /\ UNCHANGED <<backend, marked, now, result>>

Fetch(t) ==
    /\ op[t].kind = "fetch_pending"
    /\ Ready(t)
    /\ result' = [result EXCEPT ![t].ids = FetchPending(rows, Keys(op[t].tab))]
    /\ Returns(t, rows)
    /\ UNCHANGED <<backend, marked, now>>

\* The column uploaded_at exists in SQLite only.
Mark(t) ==
    /\ op[t].kind = "mark_uploaded"
    /\ Ready(t)
    /\ Returns(t, MarkUploaded(rows, op[t].ids))
    /\ marked' = [r \in Records |-> IF /\ backend = "sqlite"
                                       /\ r \in op[t].ids
                                       /\ rows[r] # "none"
                                    THEN now ELSE marked[r]]
    /\ UNCHANGED <<backend, now, result>>

\* Mutant: a row exactly as old as the argument stays.
Expired_Strictly(r, age) ==
    \/ backend = "memory"
    \/ age = 0
    \/ now - (marked[r] \div TicksPerSecond) * TicksPerSecond > age * TicksPerSecond

\* CURRENT_TIMESTAMP has whole seconds, julianday('now') has fractions.
Expired(r, age) ==
    \/ backend = "memory"
    \/ age = 0
    \/ now - (marked[r] \div TicksPerSecond) * TicksPerSecond >= age * TicksPerSecond

\* Mutant: the DELETE looks at the age only.
Cleanup_AnyState(t) ==
    /\ op[t].kind = "cleanup_uploaded"
    /\ Ready(t)
    /\ Returns(t, [r \in Records |-> IF Expired(r, op[t].age) THEN "none" ELSE rows[r]])
    /\ UNCHANGED <<backend, marked, now, result>>

\* cleanup_uploaded deletes uploaded rows, in SQLite those older than the argument,
\* and returns how many.
Cleanup(t) ==
    /\ op[t].kind = "cleanup_uploaded"
    /\ Ready(t)
    /\ LET gone == {r \in Records : rows[r] = "uploaded" /\ Expired(r, op[t].age)}
       IN /\ Returns(t, [r \in Records |-> IF r \in gone THEN "none" ELSE rows[r]])
          /\ marked' = [r \in Records |-> IF r \in gone THEN 0 ELSE marked[r]]
          /\ result' = [result EXCEPT ![t].stats = <<Cardinality(gone \cap Readings),
                                                      Cardinality(gone \cap Statuses)>>]
    /\ UNCHANGED <<backend, now>>

\* Mutant: the lock of the readings is given back as soon as they are counted.
MemoryStats_LockByLock(t) ==
    /\ op[t].kind = "get_stats"
    /\ backend = "memory"
    /\ LET i == Len(result[t].stats) + 1
       IN /\ Holds(t, Counters[i].tab) /\ Waits(t, "statuses")
          /\ result' = [result EXCEPT ![t].stats = Append(@, Count(i, rows))]
          /\ CASE i = 2 -> Release_Readings(t) /\ UNCHANGED <<rows, op>>
               [] i = Len(Counters) -> Returns(t, rows)
               [] OTHER -> UNCHANGED <<rows, op, queue>>
    /\ UNCHANGED <<backend, marked, now>>

\* The maps are counted one after the other, under both locks.
MemoryStats(t) ==
    /\ op[t].kind = "get_stats"
    /\ backend = "memory"
    /\ Ready(t)
    /\ LET i == Len(result[t].stats) + 1
       IN /\ result' = [result EXCEPT ![t].stats = Append(@, Count(i, rows))]
          /\ IF i = Len(Counters) THEN Returns(t, rows) ELSE UNCHANGED <<rows, op, queue>>
    /\ UNCHANGED <<backend, marked, now>>

\* One query per table, the readings first.
SqliteStats(t) ==
    /\ op[t].kind = "get_stats"
    /\ backend = "sqlite"
    /\ LET i == Len(result[t].stats) + 1
       IN /\ result' = [result EXCEPT ![t].stats = @ \o <<Count(i, rows), Count(i + 1, rows)>>]
          /\ IF i = 1 THEN UNCHANGED <<rows, op, queue>> ELSE Returns(t, rows)
    /\ UNCHANGED <<backend, marked, now>>

\* An SQLite operation fails: no row changes, whatever it had done so far.
Fails(t) ==
    /\ backend = "sqlite"
    /\ op[t] # Idle
    /\ Returns(t, rows)
    /\ result' = [result EXCEPT ![t] = Nothing]
    /\ UNCHANGED <<backend, marked, now>>

Tick ==
    /\ backend = "sqlite"
    /\ now < MaxTime
    /\ now' = now + 1
    /\ UNCHANGED <<backend, rows, marked, queue, op, result>>

Step(t) ==
    \/ NextLock(t) \/ StoreBatch(t) \/ Fetch(t) \/ Mark(t)
    \/ Cleanup(t) \/ MemoryStats(t) \/ SqliteStats(t) \/ Fails(t)

Next ==
    \/ Tick
    \/ \E t \in Tasks : Begin(t) \/ BeginMaintenance(t) \/ Step(t)

Spec == Init /\ [][Next]_vars

\* The runtime polls every task that is not blocked.
FairSpec == Spec /\ \A t \in Tasks : WF_vars(Step(t))

-----------------------------------------------------------------------------
(* Properties. *)

\* The type invariant; a lock is asked for at most once per task, and an idle task,
\* whose guards are dropped, asks for none.
TypeOK ==
    /\ backend \in {"memory", "sqlite"}
    /\ rows \in Tables
    /\ now \in 0 .. MaxTime
    /\ marked \in [Records -> 0 .. MaxTime]
    /\ op \in [Tasks -> Operations]
    /\ queue \in [Table -> Seq([task : Tasks, exclusive : BOOLEAN])]
    /\ \A tab \in Table :
           /\ \A i \in DOMAIN queue[tab] : op[queue[tab][i].task] # Idle
           /\ \A i, j \in DOMAIN queue[tab] :
                  queue[tab][i].task = queue[tab][j].task => i = j

\* cleanup_uploaded and get_stats run beside the uploader: a pending row leaves
\* its state only through mark_uploaded by a task that fetched it, also when it is
\* stored again, and nothing else removes it.
PendingKept ==
    [][\A r \in Records :
          rows[r] = "pending" /\ rows'[r] # "pending" =>
              /\ rows'[r] = "uploaded"
              /\ \E t \in Tasks : op[t].kind = "mark_uploaded" /\ r \in op[t].ids]_vars

\* What cleanup_uploaded(age) of SQLite deletes, with stamps of whole seconds: every
\* row uploaded for at least age seconds goes, and no row uploaded for less than
\* age - 1 seconds does (uploaded_at is rounded down, the current time is not).
CleanupByAge ==
    [][\A t \in Tasks :
          /\ backend = "sqlite"
          /\ op[t].kind = "cleanup_uploaded" /\ op'[t] = Idle
          /\ result'[t] # Nothing
          => \A r \in Records : rows[r] = "uploaded" =>
                LET uploadedFor == now - marked[r]
                IN /\ uploadedFor >= op[t].age * TicksPerSecond => rows'[r] = "none"
                   /\ rows'[r] = "none" =>
                        uploadedFor + TicksPerSecond > op[t].age * TicksPerSecond]_vars

\* get_stats of the in-memory buffer counts four times while other tasks store, mark and
\* clean up, and subtracts: what it returns are the figures of one instant, so that no
\* difference is negative and no row is counted twice or in neither state.
StatsOfOneInstant ==
    [][\A t \in Tasks :
          backend = "memory" /\ op[t].kind = "get_stats" /\ op'[t] = Idle =>
              /\ Len(result'[t].stats) = Len(Counters)
              /\ \A i \in DOMAIN Counters : result'[t].stats[i] = Count(i, rows')]_vars

\* Every operation returns: no two of them wait for each other's lock, and no stream
\* of calls by one task starves another.
EveryCallReturns == \A t \in Tasks : op[t] # Idle ~> op[t] = Idle

=============================================================================

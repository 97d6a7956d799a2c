--------------------------- MODULE RegistryProofs ---------------------------
(***************************************************************************)
(* Proofs about module Registry, for any ids and sensors and any number of *)
(* overlapping requests, in all three back ends: a request whose entries   *)
(* nobody else changes does what its name says, what the back ends list    *)
(* for a filter is what the filter asks for, and a list taken page by page *)
(* is complete.                                                            *)
(***************************************************************************)
EXTENDS Registry, QueryProofs

USE RegistryAssumption, TicksAssumption

(***************************************************************************)
(* The inductive invariant.                                                *)
(***************************************************************************)

ItemType == [id : Ids, state : States \cup {"none"}, at : Nat, sensors : SUBSET Sensors]

RowType == [state : States \cup {"none"}, at : Nat, count : Nat, version : Nat]

WasType == [row : RowType, sens : SUBSET Sensors]

\* The table of entries and that of sensors, and what holds of every row: the SQL back
\* ends keep whole seconds.
TablesInv(r, s) ==
    /\ r \in [Ids -> RowType] /\ s \in [Ids -> SUBSET Sensors]
    /\ \A id \in Ids : Kept(backend, r[id].at) = r[id].at

IsWalk(o) ==
    /\ {"kind", "pc"} \subseteq DOMAIN o /\ o = [x \in DOMAIN o |-> o[x]]
    /\ o.kind = "walk" /\ o.pc = "page"

IsRequest(o) ==
    /\ DOMAIN o = {"kind", "pc", "items", "next", "version", "row", "was"}
    /\ o = [x \in DOMAIN o |-> o[x]]
    /\ o.kind \in Writes \cup {"get"}
    /\ o.items \in Seq(ItemType) /\ o.next \in 1 .. Len(o.items)
    /\ o.was \in Seq(WasType) /\ Len(o.was) = Len(o.items)
    /\ o.version \in Nat /\ o.row \in RowType
    /\ \A i, j \in 1 .. Len(o.items) : o.items[i].id = o.items[j].id => i = j
    /\ o.kind # "batch_register" => Len(o.items) = 1

\* Where a request can be, in which back end, and what it carries.
Stage(o) ==
    /\ o.pc \in {"read", "read_sensors", "answer", "write", "row", "sensors", "batch",
                 "version", "insert"}
    /\ o.pc \in {"read", "read_sensors"} => o.kind \in {"get", "update", "suspend"}
    /\ o.pc = "read_sensors" => backend # "memory" /\ table = "devices" /\ o.row # None
    /\ o.pc = "answer" => o.kind = "suspend" /\ table = "dispatchers"
    /\ o.pc = "write" => backend = "memory" /\ o.kind # "get"
    /\ o.pc = "row" => backend = "sqlite" /\ o.kind \in {"register", "update", "suspend"}
    /\ o.pc = "sensors" => backend # "memory" /\ table = "devices" /\ o.kind # "get"
    /\ o.pc = "sensors" /\ backend = "sqlite" => o.kind # "batch_register"
    /\ o.pc = "batch" => backend = "sqlite" /\ o.kind = "batch_register"
    /\ o.pc \in {"version", "insert"} =>
          backend = "clickhouse" /\ o.kind \in {"register", "batch_register", "update", "suspend"}
    /\ o.kind = "batch_register" /\ backend = "sqlite" => o.pc = "batch"
    /\ o.kind = "add_sensor" =>
          table = "devices" /\ o.items[1].sensors # {} /\ o.pc \in {"write", "sensors"}
    /\ o.pc \notin {"write", "sensors"} => o.next = 1
    /\ table = "dispatchers" /\ o.kind \in {"register", "batch_register", "update"} =>
          \A i \in 1 .. Len(o.items) : o.items[i].sensors = {}

TypeInv ==
    /\ table \in {"dispatchers", "devices"} /\ backend \in Backends
    /\ clock \in Nat
    /\ TablesInv(rows, sens)
    /\ op = [t \in Tasks |-> op[t]] /\ answer = [t \in Tasks |-> answer[t]]
    /\ alone \in [Tasks -> BOOLEAN]
    /\ \A t \in Tasks : op[t] = Idle \/ IsWalk(op[t]) \/ (IsRequest(op[t]) /\ Stage(op[t]))

\* What a request whose entries nobody else has changed has done to them, in the tables r
\* and s, when it is at its place in the code.
Untouched(o, i, r, s) ==
    r[o.items[i].id] = o.was[i].row /\ s[o.items[i].id] = o.was[i].sens

RowDone(o, i, r) ==
    IF Superseded(o, i)
    THEN /\ r[o.items[i].id].state = o.was[i].row.state
         /\ r[o.items[i].id].at = o.was[i].row.at
    ELSE /\ r[o.items[i].id].state = o.items[i].state
         /\ r[o.items[i].id].at = Kept(backend, o.items[i].at)

Progress(o, r, s) ==
    /\ o.pc \in {"read", "read_sensors", "row", "batch", "version", "insert"} =>
          \A i \in 1 .. Len(o.items) : Untouched(o, i, r, s)
    /\ o.pc = "read_sensors" => o.row = o.was[1].row
    /\ o.kind = "suspend" /\ o.pc \notin {"read", "read_sensors"} =>
          /\ o.items[1] = Suspended(o.items[1].id, o.was[1].row, o.was[1].sens)
          /\ o.was[1].row # None /\ Kept(backend, o.was[1].row.at) = o.was[1].row.at
    /\ o.kind = "add_sensor" => Untouched(o, 1, r, s)
    /\ o.pc = "write" /\ o.kind # "add_sensor" =>
          \A i \in 1 .. Len(o.items) :
              IF i < o.next THEN RowDone(o, i, r) /\ s[o.items[i].id] = o.items[i].sensors
              ELSE Untouched(o, i, r, s)
    /\ o.pc = "sensors" /\ o.kind # "add_sensor" =>
          \A i \in 1 .. Len(o.items) :
              /\ RowDone(o, i, r)
              /\ ~Superseded(o, i) =>
                    r[o.items[i].id].count =
                       IF backend = "clickhouse" THEN Cardinality(o.items[i].sensors) ELSE 0
              /\ s[o.items[i].id] =
                    o.was[i].sens \cup (IF i < o.next THEN o.items[i].sensors ELSE {})
    /\ o.pc = "answer" => RowDone(o, 1, r) /\ s[o.items[1].id] = o.was[1].sens

ProgressInv ==
    \A t \in Tasks : (alone[t] /\ IsRequest(op[t])) => Progress(op[t], rows, sens)

RegistryInv == TypeInv /\ ProgressInv

(***************************************************************************)
(* What a step of a request does.                                          *)
(***************************************************************************)

\* The same request at another place in the code.
Continues(o, p) ==
    /\ IsRequest(p) /\ Stage(p) /\ p.kind = o.kind
    /\ Len(p.items) = Len(o.items)
    /\ \A i \in 1 .. Len(o.items) : p.items[i].id = o.items[i].id

\* What becomes of a walk during a step of another request.
WalkSees(o, p) ==
    \/ p = o /\ UNCHANGED <<rows, sens>>
    \/ p = [o EXCEPT !.touched =
                o.touched \cup {id \in Ids : rows'[id] # rows[id] \/ sens'[id] # sens[id]}]

\* What a step of a request does to the tables, the other requests notice when it is about
\* their entries; when it ends and nobody has changed its own, it has done what its name
\* says.
RequestStep(t) ==
    /\ UNCHANGED <<table, backend, clock>>
    /\ TablesInv(rows', sens')
    /\ alone' \in [Tasks -> BOOLEAN] /\ alone'[t] = alone[t]
    /\ \A u \in Tasks : u # t /\ alone'[u] =>
          /\ alone[u]
          /\ \A id \in Ids \cap About(op[u]) : rows'[id] = rows[id] /\ sens'[id] = sens[id]
    /\ op' = [u \in Tasks |-> op'[u]] /\ answer' = [u \in Tasks |-> answer'[u]]
    /\ \A u \in Tasks : u # t => op'[u] = op[u] \/ (IsWalk(op[u]) /\ IsWalk(op'[u]))
    /\ \A u \in Tasks : u # t /\ IsWalk(op[u]) => WalkSees(op[u], op'[u])
    /\ op'[t] = Idle \/ Continues(op[t], op'[t])
    /\ alone[t] => IF op'[t] = Idle THEN Exact(op[t], answer'[t])
                   ELSE Progress(op'[t], rows', sens')

\* A request that is not at the end of its items is at some place of Stage.
LEMMA RequestFacts ==
    ASSUME TypeInv, NEW t \in Tasks, op[t].pc # "idle", op[t].pc # "page"
    PROVE  IsRequest(op[t]) /\ Stage(op[t])
  BY DEF TypeInv, Idle, IsWalk

\* What a request is about.
LEMMA AboutRequest ==
    ASSUME NEW o, IsRequest(o)
    PROVE  /\ About(o) = {o.items[i].id : i \in 1 .. Len(o.items)}
           /\ DOMAIN o.items = 1 .. Len(o.items) /\ DOMAIN o.was = 1 .. Len(o.items)
           /\ 1 \in 1 .. Len(o.items) /\ Len(o.items) \in Nat
           /\ \A i \in 1 .. Len(o.items) :
                 o.items[i] \in ItemType /\ o.was[i] \in WasType
  <1>1. o.kind # "idle" /\ o.kind # "walk"
    BY DEF IsRequest, Writes
  <1>2. DOMAIN o.items = 1 .. Len(o.items) /\ Len(o.items) \in Nat
    BY DEF IsRequest
  <1>3. DOMAIN o.was = 1 .. Len(o.items)
    BY DEF IsRequest
  <1>4. 1 \in 1 .. Len(o.items)
    BY <1>2 DEF IsRequest
  <1>5. \A i \in 1 .. Len(o.items) :
            o.items[i] \in ItemType /\ o.was[i] \in WasType
    <2>1. o.items \in Seq(ItemType) /\ o.was \in Seq(WasType) /\ Len(o.was) = Len(o.items)
      BY DEF IsRequest
    <2> QED  BY <2>1
  <1>6. About(o) = {o.items[i].id : i \in DOMAIN o.items}
    BY <1>1 DEF About
  <1> QED  BY <1>2, <1>3, <1>4, <1>5, <1>6

LEMMA GotoStep ==
    ASSUME TypeInv, NEW t \in Tasks, NEW p, Goto(t, p), Continues(op[t], p),
           alone[t] => Progress(p, rows, sens)
    PROVE  RequestStep(t)
  <1>1. op' = [op EXCEPT ![t] = p] /\ UNCHANGED <<table, backend, rows, sens, clock, alone, answer>>
    BY DEF Goto
  <1>2. op'[t] = p /\ op' = [u \in Tasks |-> op'[u]] /\ \A u \in Tasks : u # t => op'[u] = op[u]
    BY <1>1 DEF TypeInv
  <1>3. p # Idle
    BY SMTT(30) DEF Continues, IsRequest, Idle
  <1>4. TablesInv(rows', sens')
    BY <1>1 DEF TypeInv
  <1>5. answer' = [u \in Tasks |-> answer'[u]]
    BY <1>1 DEF TypeInv
  <1>6. alone[t] => Progress(op'[t], rows', sens')
    BY <1>1, <1>2
  <1>7. \A u \in Tasks : u # t => WalkSees(op[u], op'[u])
    BY <1>1, <1>2 DEF WalkSees
  <1>8. alone' \in [Tasks -> BOOLEAN]
    BY <1>1 DEF TypeInv
  <1> QED  BY <1>1, <1>2, <1>3, <1>4, <1>5, <1>6, <1>7, <1>8 DEF RequestStep

LEMMA FinishStep ==
    ASSUME TypeInv, NEW t \in Tasks, NEW a, Finish(t, a), alone[t] => Exact(op[t], a)
    PROVE  RequestStep(t)
  <1>1. /\ op' = [op EXCEPT ![t] = Idle] /\ answer' = [answer EXCEPT ![t] = a]
        /\ UNCHANGED <<table, backend, rows, sens, clock, alone>>
    BY DEF Finish
  <1>2. op'[t] = Idle /\ op' = [u \in Tasks |-> op'[u]] /\ \A u \in Tasks : u # t => op'[u] = op[u]
    BY <1>1 DEF TypeInv
  <1>4. TablesInv(rows', sens')
    BY <1>1 DEF TypeInv
  <1>5. answer' = [u \in Tasks |-> answer'[u]] /\ answer'[t] = a
    BY <1>1 DEF TypeInv
  <1>6. alone[t] => Exact(op[t], answer'[t])
    BY <1>5
  <1>7. \A u \in Tasks : u # t => WalkSees(op[u], op'[u])
    BY <1>1, <1>2 DEF WalkSees
  <1>8. alone' \in [Tasks -> BOOLEAN]
    BY <1>1 DEF TypeInv
  <1> QED  BY <1>1, <1>2, <1>4, <1>5, <1>6, <1>7, <1>8 DEF RequestStep

LEMMA StoreStep ==
    ASSUME TypeInv, NEW t \in Tasks, NEW p, NEW r, NEW s, Store(t, p, r, s),
           TablesInv(r, s),
           p = Idle \/ Continues(op[t], p),
           alone[t] /\ p # Idle => Progress(p, r, s),
           alone[t] /\ p = Idle => Exact(op[t], Plain("ok"))
    PROVE  RequestStep(t)
  <1> DEFINE changed == {id \in Ids : r[id] # rows[id] \/ s[id] # sens[id]}
  <1>1. /\ rows' = r /\ sens' = s
        /\ op' = [u \in Tasks |-> IF u = t THEN p
                                  ELSE IF op[u].kind = "walk"
                                       THEN [op[u] EXCEPT !.touched = @ \cup changed]
                                       ELSE op[u]]
        /\ alone' = [u \in Tasks |-> alone[u] /\ (u # t => About(op[u]) \cap changed = {})]
        /\ answer' = IF p = Idle THEN [answer EXCEPT ![t] = Plain("ok")] ELSE answer
        /\ UNCHANGED <<table, backend, clock>>
    BY DEF Store
  <1> HIDE DEF changed
  <1>2. op'[t] = p /\ op' = [u \in Tasks |-> op'[u]]
    BY <1>1
  <1>3. ASSUME NEW u \in Tasks, u # t
        PROVE  op'[u] = op[u] \/ (IsWalk(op[u]) /\ IsWalk(op'[u]))
    <2>1. CASE op[u].kind # "walk"
      BY <1>1, <1>3, <2>1
    <2>2. CASE op[u].kind = "walk"
      <3>1. IsWalk(op[u])
        BY <2>2 DEF TypeInv, IsRequest, Idle, Writes
      <3>2. op'[u] = [op[u] EXCEPT !.touched = @ \cup changed]
        BY <1>1, <1>3, <2>2
      <3>3. IsWalk(op'[u])
        BY <3>1, <3>2 DEF IsWalk
      <3> QED  BY <3>1, <3>3
    <2> QED  BY <2>1, <2>2
  <1>4. answer' = [u \in Tasks |-> answer'[u]] /\ (p = Idle => answer'[t] = Plain("ok"))
    BY <1>1 DEF TypeInv
  <1>5. alone[t] => IF op'[t] = Idle THEN Exact(op[t], answer'[t])
                    ELSE Progress(op'[t], rows', sens')
    BY <1>1, <1>2, <1>4
  <1>6. ASSUME NEW u \in Tasks, u # t, IsWalk(op[u])
        PROVE  WalkSees(op[u], op'[u])
    <2>1. op'[u] = [op[u] EXCEPT !.touched = @ \cup changed]
      BY <1>1, <1>6 DEF IsWalk
    <2>2. changed = {id \in Ids : rows'[id] # rows[id] \/ sens'[id] # sens[id]}
      BY <1>1 DEF changed
    <2> QED  BY <2>1, <2>2 DEF WalkSees
  <1>7. alone' \in [Tasks -> BOOLEAN] /\ alone'[t] = alone[t]
    BY <1>1 DEF TypeInv
  <1>8. ASSUME NEW u \in Tasks, u # t, alone'[u], NEW id \in Ids \cap About(op[u])
        PROVE  rows'[id] = rows[id] /\ sens'[id] = sens[id]
    <2>1. About(op[u]) \cap changed = {}
      BY <1>1, <1>8
    <2> QED  BY <1>1, <1>8, <2>1 DEF changed
  <1>9. \A u \in Tasks : u # t /\ alone'[u] => alone[u]
    BY <1>1
  <1> QED  BY <1>1, <1>2, <1>3, <1>4, <1>5, <1>6, <1>7, <1>8, <1>9 DEF RequestStep

(***************************************************************************)
(* Reading.                                                                *)
(***************************************************************************)

\* A request that only moves to another place in the code.
LEMMA Moved ==
    ASSUME NEW o, IsRequest(o), NEW x, NEW p, p = [o EXCEPT !.pc = x]
    PROVE  /\ IsRequest(p)
           /\ p.pc = x /\ p.kind = o.kind /\ p.items = o.items /\ p.next = o.next
           /\ p.version = o.version /\ p.row = o.row /\ p.was = o.was
  <1>1. /\ p.pc = x /\ p.kind = o.kind /\ p.items = o.items /\ p.next = o.next
        /\ p.version = o.version /\ p.row = o.row /\ p.was = o.was
        /\ DOMAIN p = DOMAIN o /\ p = [y \in DOMAIN p |-> p[y]]
    BY DEF IsRequest
  <1> QED  BY <1>1 DEF IsRequest

LEMMA FirstWriteIs ==
    ASSUME TypeInv
    PROVE  /\ backend = "memory" => FirstWrite = "write"
           /\ backend = "sqlite" => FirstWrite = "row"
           /\ backend = "clickhouse" => FirstWrite = "version"
           /\ backend \in {"memory", "sqlite", "clickhouse"}
  BY DEF TypeInv, Backends, FirstWrite

\* What get has found, the caller that is alone still finds there.
LEMMA HaveReadStep ==
    ASSUME TypeInv, NEW t \in Tasks, NEW row \in RowType, NEW s \in SUBSET Sensors,
           op[t].pc \in {"read", "read_sensors"}, row # None, HaveRead(t, row, s),
           alone[t] => /\ Progress(op[t], rows, sens)
                       /\ row = op[t].was[1].row /\ s = op[t].was[1].sens
                       /\ Kept(backend, row.at) = row.at
    PROVE  RequestStep(t)
  <1> DEFINE o == op[t]
  <1>1. IsRequest(o) /\ Stage(o)
    BY RequestFacts
  <1>2. /\ DOMAIN o.items = 1 .. Len(o.items) /\ 1 \in 1 .. Len(o.items) /\ Len(o.items) \in Nat
        /\ \A i \in 1 .. Len(o.items) : o.items[i] \in ItemType
    BY <1>1, AboutRequest
  <1>3. o.kind \in {"get", "update", "suspend"} /\ o.next = 1 /\ Len(o.items) = 1
    BY <1>1 DEF Stage, IsRequest
  <1>4. alone[t] => \A i \in 1 .. Len(o.items) : Untouched(o, i, rows, sens)
    BY DEF Progress
  <1>5. CASE o.kind = "get"
    <2>1. Finish(t, Answer("ok", row.state, row.at, s))
      BY <1>5 DEF HaveRead
    <2>2. alone[t] => Exact(o, Answer("ok", row.state, row.at, s))
      BY <1>5 DEF Exact, Answer
    <2> HIDE DEF o
    <2> QED  BY <2>1, <2>2, FinishStep DEF o
  <1>6. CASE o.kind = "update"
    <2> DEFINE p == [o EXCEPT !.pc = FirstWrite]
    <2>1. Goto(t, p)
      BY <1>6 DEF HaveRead
    <2>2. /\ IsRequest(p)
          /\ p.pc = FirstWrite /\ p.kind = o.kind /\ p.items = o.items /\ p.next = o.next
          /\ p.version = o.version /\ p.row = o.row /\ p.was = o.was
      BY <1>1, Moved
    <2> HIDE DEF p
    <2>3. Stage(p)
      BY <1>1, <1>3, <1>6, <2>2, FirstWriteIs DEF Stage
    <2>4. Continues(o, p)
      BY <2>2, <2>3, SMTT(30) DEF Continues
    <2>5. alone[t] => Progress(p, rows, sens)
      <3>1. p.pc \in {"write", "row", "version"} /\ p.kind = "update" /\ p.next = 1
        BY <1>3, <1>6, <2>2, FirstWriteIs
      <3>2. alone[t] => \A i \in 1 .. Len(p.items) : Untouched(p, i, rows, sens)
        BY <1>4, <2>2 DEF Untouched
      <3>3. \A i \in 1 .. Len(p.items) : ~(i < p.next)
        BY <3>1
      <3> QED  BY <3>1, <3>2, <3>3 DEF Progress
    <2> QED  BY <2>1, <2>4, <2>5, GotoStep
  <1>7. CASE o.kind = "suspend"
    <2> DEFINE p == [o EXCEPT !.pc = FirstWrite, !.items[1] = Suspended(@.id, row, s)]
    <2>1. Goto(t, p)
      BY <1>7 DEF HaveRead
    <2>2. /\ p.pc = FirstWrite /\ p.kind = o.kind /\ p.next = o.next
          /\ p.items = [o.items EXCEPT ![1] = Suspended(@.id, row, s)]
          /\ p.version = o.version /\ p.row = o.row /\ p.was = o.was
          /\ DOMAIN p = DOMAIN o /\ p = [y \in DOMAIN p |-> p[y]]
      BY <1>1 DEF IsRequest
    <2> HIDE DEF p
    <2>3. Suspended(o.items[1].id, row, s) \in ItemType
          /\ Suspended(o.items[1].id, row, s).id = o.items[1].id
      BY <1>2 DEF Suspended, Item, ItemType, RowType, States
    <2>4. /\ p.items \in Seq(ItemType) /\ Len(p.items) = 1 /\ p.items[1].id = o.items[1].id
          /\ p.items[1] = Suspended(o.items[1].id, row, s)
      BY <1>1, <1>2, <1>3, <2>2, <2>3 DEF IsRequest
    <2>5. IsRequest(p)
      BY <1>1, <1>3, <2>2, <2>4 DEF IsRequest
    <2>6. Stage(p)
      BY <1>1, <1>3, <1>7, <2>2, FirstWriteIs DEF Stage
    <2>7. Continues(o, p)
      BY <1>3, <2>2, <2>4, <2>5, <2>6 DEF Continues
    <2>8. ASSUME alone[t] PROVE Progress(p, rows, sens)
      <3>0. Untouched(o, 1, rows, sens)
        BY <1>2, <1>4, <2>8
      <3>1. Untouched(p, 1, rows, sens)
        <4> HIDE DEF o
        <4> QED  BY <2>2, <2>4, <3>0 DEF Untouched
      <3>2. p.items[1] = Suspended(p.items[1].id, p.was[1].row, p.was[1].sens)
            /\ p.was[1].row # None /\ Kept(backend, p.was[1].row.at) = p.was[1].row.at
        BY <2>2, <2>4, <2>8
      <3>3. /\ p.pc \in {"write", "row", "version"} /\ p.next = 1 /\ Len(p.items) = 1
            /\ p.kind = "suspend"
        BY <1>3, <1>7, <2>2, <2>4, FirstWriteIs
      <3> QED  BY <3>1, <3>2, <3>3 DEF Progress
    <2> QED  BY <2>1, <2>7, <2>8, GotoStep
  <1> QED  BY <1>3, <1>5, <1>6, <1>7

LEMMA ReadRowStep ==
    ASSUME TypeInv, ProgressInv, NEW t \in Tasks, ReadRow(t)
    PROVE  RequestStep(t)
  <1> DEFINE o == op[t]
             id == o.items[1].id
  <1>1. IsRequest(o) /\ Stage(o) /\ o.pc = "read"
    BY RequestFacts DEF ReadRow
  <1>2. /\ 1 \in 1 .. Len(o.items) /\ o.items[1] \in ItemType
    BY <1>1, AboutRequest
  <1>3. id \in Ids
    BY <1>2 DEF ItemType
  <1>4. /\ rows[id] \in RowType /\ sens[id] \in SUBSET Sensors
        /\ Kept(backend, rows[id].at) = rows[id].at
    BY <1>3 DEF TypeInv, TablesInv
  <1>5. alone[t] => Progress(o, rows, sens)
    BY <1>1 DEF ProgressInv
  <1>6. alone[t] => rows[id] = o.was[1].row /\ sens[id] = o.was[1].sens
    BY <1>1, <1>2, <1>5 DEF Progress, Untouched
  <1>7. CASE rows[id] = None
    <2>1. Finish(t, Plain("not_found"))
      BY <1>7 DEF ReadRow
    <2>2. alone[t] => Exact(o, Plain("not_found"))
      BY <1>6, <1>7, <2>1 DEF Exact, Plain, Answer, Finish
    <2> QED  BY <2>1, <2>2, FinishStep
  <1>8. CASE rows[id] # None /\ (backend = "memory" \/ table = "dispatchers")
    <2>1. HaveRead(t, rows[id], sens[id])
      BY <1>8 DEF ReadRow
    <2> QED  BY <1>1, <1>4, <1>5, <1>6, <1>8, <2>1, HaveReadStep
  <1>9. CASE rows[id] # None /\ ~(backend = "memory" \/ table = "dispatchers")
    <2> DEFINE p == [o EXCEPT !.pc = "read_sensors", !.row = rows[id]]
    <2>1. Goto(t, p)
      BY <1>9 DEF ReadRow
    <2>2. /\ p.pc = "read_sensors" /\ p.kind = o.kind /\ p.items = o.items /\ p.next = o.next
          /\ p.version = o.version /\ p.row = rows[id] /\ p.was = o.was
          /\ DOMAIN p = DOMAIN o /\ p = [y \in DOMAIN p |-> p[y]]
      BY <1>1 DEF IsRequest
    <2> HIDE DEF p
    <2>3. IsRequest(p)
      BY <1>1, <1>4, <2>2 DEF IsRequest
    <2>4. Stage(p)
      BY <1>1, <1>9, <2>2 DEF Stage, TypeInv
    <2>5. Continues(o, p)
      BY <2>2, <2>3, <2>4 DEF Continues
    <2>6. alone[t] => Progress(p, rows, sens)
      <3>1. alone[t] => \A i \in 1 .. Len(p.items) : Untouched(p, i, rows, sens)
        BY <1>1, <1>5, <2>2 DEF Progress, Untouched
      <3>2. alone[t] => p.row = p.was[1].row
        BY <1>6, <2>2
      <3>3. p.kind # "add_sensor"
        BY <2>2, <2>4 DEF Stage
      <3> QED  BY <2>2, <3>1, <3>2, <3>3 DEF Progress
    <2> QED  BY <2>1, <2>5, <2>6, GotoStep
  <1> QED  BY <1>7, <1>8, <1>9

LEMMA ReadSensorsStep ==
    ASSUME TypeInv, ProgressInv, NEW t \in Tasks, ReadSensors(t)
    PROVE  RequestStep(t)
  <1> DEFINE o == op[t]
             id == o.items[1].id
  <1>1. IsRequest(o) /\ Stage(o) /\ o.pc = "read_sensors" /\ HaveRead(t, o.row, sens[id])
    BY RequestFacts DEF ReadSensors
  <1>2. /\ 1 \in 1 .. Len(o.items) /\ o.items[1] \in ItemType
    BY <1>1, AboutRequest
  <1>3. id \in Ids
    BY <1>2 DEF ItemType
  <1>4. o.row \in RowType /\ o.row # None /\ sens[id] \in SUBSET Sensors
    BY <1>1, <1>3 DEF TypeInv, TablesInv, IsRequest, Stage
  <1>5. alone[t] => Progress(o, rows, sens)
    BY <1>1 DEF ProgressInv
  <1>6. alone[t] => rows[id] = o.was[1].row /\ sens[id] = o.was[1].sens /\ o.row = o.was[1].row
    BY <1>1, <1>2, <1>5 DEF Progress, Untouched
  <1>7. Kept(backend, rows[id].at) = rows[id].at
    BY <1>3 DEF TypeInv, TablesInv
  <1> QED  BY <1>1, <1>4, <1>5, <1>6, <1>7, HaveReadStep

LEMMA ReadBackStep ==
    ASSUME TypeInv, ProgressInv, NEW t \in Tasks, ReadBack(t)
    PROVE  RequestStep(t)
  <1> DEFINE o == op[t]
             id == o.items[1].id
             a == Answer("ok", rows[id].state, rows[id].at, {})
  <1>1. IsRequest(o) /\ Stage(o) /\ o.pc = "answer" /\ Finish(t, a)
    BY RequestFacts DEF ReadBack
  <1>2. o.kind = "suspend" /\ table = "dispatchers"
    BY <1>1 DEF Stage
  <1>3. ASSUME alone[t]
        PROVE  Exact(o, a)
    <2>1. Progress(o, rows, sens)
      BY <1>1, <1>3 DEF ProgressInv
    <2>2. /\ RowDone(o, 1, rows) /\ sens[id] = o.was[1].sens
          /\ o.items[1] = Suspended(id, o.was[1].row, o.was[1].sens)
          /\ o.was[1].row # None /\ Kept(backend, o.was[1].row.at) = o.was[1].row.at
      BY <1>1, <1>2, <2>1 DEF Progress
    <2>3. /\ rows[id].at = o.was[1].row.at
          /\ rows[id].state = IF Superseded(o, 1) THEN o.was[1].row.state ELSE "suspended"
      BY <2>2 DEF RowDone, Suspended, Item
    <2>4. rows' = rows /\ sens' = sens
      BY <1>1 DEF Finish
    <2>5. a.result = "ok" /\ a.state = rows[id].state
      BY DEF Answer
    <2> HIDE DEF a, o
    <2> QED  BY <1>2, <2>2, <2>3, <2>4, <2>5, SMTT(60) DEF Exact
  <1> QED  BY <1>1, <1>3, FinishStep

LEMMA FailsStep ==
    ASSUME TypeInv, ProgressInv, NEW t \in Tasks, Fails(t), IsRequest(op[t])
    PROVE  RequestStep(t)
  <1> DEFINE o == op[t]
             a == Plain("failed")
  <1>1. Stage(o) /\ Finish(t, a) /\ backend # "memory"
    BY DEF TypeInv, Fails, IsWalk, IsRequest, Writes
  <1>2. ASSUME alone[t]
        PROVE  Exact(o, a)
    <2>1. Progress(o, rows, sens) /\ rows' = rows /\ sens' = sens
      BY <1>1, <1>2 DEF ProgressInv, Finish
    <2>2. backend = "sqlite" /\ o.kind \in {"batch_register", "add_sensor"} =>
              \A i \in 1 .. Len(o.items) : Untouched(o, i, rows, sens)
      <3>1. CASE o.kind = "batch_register" /\ backend = "sqlite"
        BY <1>1, <2>1, <3>1 DEF Progress, Stage
      <3>2. CASE o.kind = "add_sensor"
        <4>1. Len(o.items) = 1 /\ Untouched(o, 1, rows, sens)
          BY <2>1, <3>2 DEF Progress, IsRequest
        <4> QED  BY <4>1
      <3> QED  BY <3>1, <3>2
    <2>3. DOMAIN o.items = 1 .. Len(o.items)
      BY AboutRequest
    <2>4. a.result = "failed"
      BY DEF Plain, Answer
    <2> HIDE DEF a
    <2> QED  BY <1>1, <2>1, <2>2, <2>3, <2>4 DEF Exact, Untouched
  <1> QED  BY <1>1, <1>2, FinishStep

(***************************************************************************)
(* Writing.                                                                *)
(***************************************************************************)

\* What the three kinds of write must have left when they end with Ok.
LEMMA ExactRegister ==
    ASSUME NEW o, IsRequest(o), o.kind \in {"register", "batch_register", "update"},
           \A i \in 1 .. Len(o.items) :
               /\ RowDone(o, i, rows')
               /\ sens'[o.items[i].id] =
                     o.items[i].sensors \cup (IF backend # "memory" THEN o.was[i].sens ELSE {})
    PROVE  Exact(o, Plain("ok"))
  <1>1. DOMAIN o.items = 1 .. Len(o.items)
    BY AboutRequest
  <1>2. Plain("ok").result = "ok"
    BY DEF Plain, Answer
  <1> QED  BY <1>1, <1>2 DEF Exact, RowDone

LEMMA ExactSuspend ==
    ASSUME NEW o, IsRequest(o), o.kind = "suspend", table = "devices",
           o.items[1] = Suspended(o.items[1].id, o.was[1].row, o.was[1].sens),
           o.was[1].row # None, Kept(backend, o.was[1].row.at) = o.was[1].row.at,
           RowDone(o, 1, rows'), sens'[o.items[1].id] = o.was[1].sens,
           backend # "memory" /\ ~Superseded(o, 1) =>
               rows'[o.items[1].id].count = Cardinality(o.was[1].sens)
    PROVE  Exact(o, Plain("ok"))
  <1>1. /\ rows'[o.items[1].id].at = o.was[1].row.at
        /\ rows'[o.items[1].id].state =
              IF Superseded(o, 1) THEN o.was[1].row.state ELSE "suspended"
    BY DEF RowDone, Suspended, Item
  <1>2. Plain("ok").result = "ok"
    BY DEF Plain, Answer
  <1> QED  BY <1>1, <1>2 DEF Exact

LEMMA ExactAdd ==
    ASSUME NEW o, IsRequest(o), o.kind = "add_sensor",
           backend # "clickhouse" => o.was[1].row # None,
           rows'[o.items[1].id].state = o.was[1].row.state,
           rows'[o.items[1].id].at = o.was[1].row.at,
           sens'[o.items[1].id] = o.was[1].sens \cup o.items[1].sensors
    PROVE  Exact(o, Plain("ok"))
  <1>1. Plain("ok").result = "ok"
    BY DEF Plain, Answer
  <1> QED  BY <1>1 DEF Exact

\* The step to the next of several items.
LEMMA NextItem ==
    ASSUME NEW o, IsRequest(o), Stage(o), o.pc \in {"write", "sensors"},
           o.next < Len(o.items), NEW p, p = [o EXCEPT !.next = @ + 1]
    PROVE  /\ Continues(o, p) /\ p.next = o.next + 1 /\ o.kind = "batch_register"
           /\ p.pc = o.pc /\ p.kind = o.kind /\ p.items = o.items
           /\ p.version = o.version /\ p.row = o.row /\ p.was = o.was
  <1>1. /\ p.pc = o.pc /\ p.kind = o.kind /\ p.items = o.items /\ p.next = o.next + 1
        /\ p.version = o.version /\ p.row = o.row /\ p.was = o.was
        /\ DOMAIN p = DOMAIN o /\ p = [y \in DOMAIN p |-> p[y]]
    BY DEF IsRequest
  <1>2. o.next + 1 \in 1 .. Len(o.items)
    BY DEF IsRequest
  <1>3. IsRequest(p)
    BY <1>1, <1>2 DEF IsRequest
  <1>4. o.kind = "batch_register"
    BY SMTT(30) DEF IsRequest
  <1>5. Stage(p)
    BY <1>1 DEF Stage
  <1> QED  BY <1>1, <1>3, <1>4, <1>5 DEF Continues

\* Where a write ends: only suspend of a dispatcher goes on.
LEMMA WrittenIs ==
    ASSUME NEW o, IsRequest(o), Stage(o), o.next = 1
    PROVE  /\ o.kind = "suspend" /\ table = "dispatchers" =>
                 /\ Continues(o, Written(o))
                 /\ Written(o).pc = "answer" /\ Written(o).kind = o.kind
                 /\ Written(o).items = o.items /\ Written(o).was = o.was
                 /\ Written(o).version = o.version
           /\ ~(o.kind = "suspend" /\ table = "dispatchers") => Written(o) = Idle
  <1>1. CASE o.kind = "suspend" /\ table = "dispatchers"
    <2>0. Written(o) = [o EXCEPT !.pc = "answer"]
      BY <1>1 DEF Written
    <2> DEFINE p == Written(o)
    <2>1. /\ IsRequest(p)
          /\ p.pc = "answer" /\ p.kind = o.kind /\ p.items = o.items /\ p.next = o.next
          /\ p.version = o.version /\ p.row = o.row /\ p.was = o.was
      BY <2>0, Moved
    <2>2. Stage(p)
      <3> HIDE DEF p
      <3> QED  BY <1>1, <2>1 DEF Stage
    <2> QED  BY <1>1, <2>1, <2>2 DEF Continues
  <1>2. CASE ~(o.kind = "suspend" /\ table = "dispatchers")
    BY <1>2 DEF Written
  <1> QED  BY <1>1, <1>2

LEMMA MemoryWriteStep ==
    ASSUME TypeInv, ProgressInv, NEW t \in Tasks, MemoryWrite(t)
    PROVE  RequestStep(t)
  <1> DEFINE o == op[t]
             item == o.items[o.next]
             row == Row(item.state, item.at, 0, 0)
             r == [rows EXCEPT ![item.id] = row]
             s == [sens EXCEPT ![item.id] = item.sensors]
             p == IF o.next < Len(o.items) THEN [o EXCEPT !.next = @ + 1] ELSE Written(o)
  <1>1. /\ IsRequest(o) /\ Stage(o) /\ o.pc = "write" /\ o.kind # "add_sensor"
        /\ Store(t, p, r, s)
    BY RequestFacts DEF MemoryWrite
  <1>2. /\ backend = "memory" /\ o.kind \in Writes
    BY <1>1 DEF Stage, IsRequest
  <1>3. /\ o.next \in 1 .. Len(o.items) /\ Len(o.items) \in Nat
        /\ \A i \in 1 .. Len(o.items) : o.items[i] \in ItemType
        /\ \A i, j \in 1 .. Len(o.items) : o.items[i].id = o.items[j].id => i = j
        /\ About(o) = {o.items[i].id : i \in 1 .. Len(o.items)}
    BY <1>1, AboutRequest DEF IsRequest
  <1>4. item.id \in Ids /\ item.sensors \in SUBSET Sensors /\ item.id \in About(o)
    BY <1>3 DEF ItemType
  <1>5. /\ row \in RowType /\ Kept(backend, row.at) = row.at
        /\ row.state = item.state /\ row.at = item.at
    BY <1>2, <1>3 DEF TypeInv, RowType, ItemType, Row, Kept
  <1> HIDE DEF o, row
  <1>6. /\ TablesInv(r, s) /\ r[item.id] = row /\ s[item.id] = item.sensors
        /\ \A j \in Ids : j # item.id => r[j] = rows[j] /\ s[j] = sens[j]
    <2>1. r = [rows EXCEPT ![item.id] = row] /\ s = [sens EXCEPT ![item.id] = item.sensors]
      OBVIOUS
    <2> HIDE DEF r, s, item
    <2> QED  BY <1>4, <1>5, <2>1 DEF TypeInv, TablesInv
  <1> HIDE DEF r, s
  <1>7. \A i \in 1 .. Len(o.items) : i # o.next =>
            r[o.items[i].id] = rows[o.items[i].id] /\ s[o.items[i].id] = sens[o.items[i].id]
    BY <1>3, <1>6 DEF ItemType
  <1>8. /\ RowDone(o, o.next, r) /\ s[o.items[o.next].id] = o.items[o.next].sensors
    BY <1>2, <1>5, <1>6 DEF RowDone, Superseded, Kept
  <1>9. alone[t] => Progress(o, rows, sens)
    BY <1>1 DEF ProgressInv, o
  <1>10. ASSUME alone[t], NEW i \in 1 .. Len(o.items)
         PROVE  IF i <= o.next THEN RowDone(o, i, r) /\ s[o.items[i].id] = o.items[i].sensors
                ELSE Untouched(o, i, r, s)
    <2>1. IF i < o.next THEN RowDone(o, i, rows) /\ sens[o.items[i].id] = o.items[i].sensors
          ELSE Untouched(o, i, rows, sens)
      BY <1>1, <1>9, <1>10 DEF Progress
    <2>2. CASE i = o.next
      BY <1>3, <1>8, <2>2
    <2>3. CASE i # o.next
      <3>1. r[o.items[i].id] = rows[o.items[i].id] /\ s[o.items[i].id] = sens[o.items[i].id]
        BY <1>7, <2>3
      <3>2. (i <= o.next) = (i < o.next)
        BY <1>3, <2>3
      <3> QED  BY <2>1, <3>1, <3>2 DEF RowDone, Untouched, Superseded
    <2> QED  BY <2>2, <2>3
  <1>11. rows' = r /\ sens' = s
    BY <1>1 DEF Store
  <1>12. CASE o.next < Len(o.items)
    <2>0. p = [o EXCEPT !.next = @ + 1]
      BY <1>12
    <2>1. /\ Continues(o, p) /\ p.next = o.next + 1 /\ o.kind = "batch_register"
          /\ p.pc = o.pc /\ p.kind = o.kind /\ p.items = o.items
          /\ p.version = o.version /\ p.row = o.row /\ p.was = o.was
      BY <1>1, <1>12, <2>0, NextItem
    <2> HIDE DEF p
    <2>2. p # Idle
      BY <2>1 DEF Continues, IsRequest, Idle
    <2>3. ASSUME alone[t] PROVE Progress(p, r, s)
      <3>1. \A i \in 1 .. Len(p.items) :
                IF i < p.next THEN RowDone(p, i, r) /\ s[p.items[i].id] = p.items[i].sensors
                ELSE Untouched(p, i, r, s)
        BY <1>3, <1>10, <2>1, <2>3 DEF RowDone, Untouched, Superseded
      <3> QED  BY <1>1, <2>1, <3>1 DEF Progress
    <2> QED  BY <1>1, <1>2, <1>4, <1>6, <2>1, <2>2, <2>3, StoreStep DEF o
  <1>13. CASE ~(o.next < Len(o.items))
    <2>0. p = Written(o) /\ o.next = Len(o.items)
      BY <1>3, <1>13
    <2> HIDE DEF p
    <2>1. CASE o.kind = "suspend"
      <3>1. o.next = 1 /\ Len(o.items) = 1
        BY <1>1, <2>0, <2>1 DEF IsRequest
      <3>2. ASSUME alone[t]
            PROVE  /\ o.items[1] = Suspended(o.items[1].id, o.was[1].row, o.was[1].sens)
                   /\ o.was[1].row # None /\ Kept(backend, o.was[1].row.at) = o.was[1].row.at
                   /\ RowDone(o, 1, r) /\ s[o.items[1].id] = o.was[1].sens
        <4>1. /\ o.items[1] = Suspended(o.items[1].id, o.was[1].row, o.was[1].sens)
              /\ o.was[1].row # None /\ Kept(backend, o.was[1].row.at) = o.was[1].row.at
          BY <1>1, <1>9, <2>1, <3>2 DEF Progress
        <4>2. RowDone(o, 1, r) /\ s[o.items[1].id] = o.items[1].sensors
          BY <1>8, <3>1
        <4>3. o.items[1].sensors = o.was[1].sens
          BY <4>1 DEF Suspended, Item
        <4> QED  BY <4>1, <4>2, <4>3
      <3>3. CASE table = "dispatchers"
        <4>1. /\ Continues(o, p) /\ p.pc = "answer" /\ p.kind = o.kind
              /\ p.items = o.items /\ p.was = o.was /\ p.version = o.version
          BY <1>1, <2>0, <2>1, <3>1, <3>3, WrittenIs
        <4>2. p # Idle
          BY <4>1 DEF Continues, IsRequest, Idle
        <4>3. alone[t] => Progress(p, r, s)
          BY <2>1, <3>2, <4>1 DEF Progress, RowDone, Superseded
        <4> QED  BY <1>1, <1>2, <1>4, <1>6, <4>1, <4>2, <4>3, StoreStep DEF o
      <3>4. CASE table # "dispatchers"
        <4>1. p = Idle /\ table = "devices"
          BY <1>1, <2>0, <3>1, <3>4, WrittenIs DEF TypeInv
        <4>2. alone[t] => Exact(o, Plain("ok"))
          BY <1>1, <1>2, <1>11, <2>1, <3>2, <4>1, ExactSuspend
        <4> QED  BY <1>1, <1>2, <1>4, <1>6, <4>1, <4>2, StoreStep DEF o
      <3> QED  BY <3>3, <3>4
    <2>2. CASE o.kind # "suspend"
      <3>1. p = Idle
        BY <2>0, <2>2 DEF Written
      <3>2. o.kind \in {"register", "batch_register", "update"}
        BY <1>1, <1>2, <2>2 DEF Writes
      <3>3. alone[t] => \A i \in 1 .. Len(o.items) :
                            RowDone(o, i, r) /\ s[o.items[i].id] = o.items[i].sensors
        BY <1>3, <1>10, <2>0
      <3>4. alone[t] => Exact(o, Plain("ok"))
        BY <1>1, <1>2, <1>11, <3>2, <3>3, ExactRegister
      <3> QED  BY <1>1, <1>2, <1>4, <1>6, <3>1, <3>4, StoreStep DEF o
    <2> QED  BY <2>1, <2>2
  <1> QED  BY <1>12, <1>13

\* The items of a request, field by field.
LEMMA RequestItems ==
    ASSUME NEW o, IsRequest(o)
    PROVE  /\ o.next \in 1 .. Len(o.items) /\ Len(o.items) \in Nat /\ 1 \in 1 .. Len(o.items)
           /\ \A i \in 1 .. Len(o.items) :
                 /\ o.items[i].id \in Ids /\ o.items[i].id \in About(o)
                 /\ o.items[i].state \in States \cup {"none"} /\ o.items[i].at \in Nat
                 /\ o.items[i].sensors \in SUBSET Sensors
                 /\ o.was[i].sens \in SUBSET Sensors
           /\ \A i, j \in 1 .. Len(o.items) : o.items[i].id = o.items[j].id => i = j
           /\ About(o) = {o.items[i].id : i \in 1 .. Len(o.items)}
           /\ DOMAIN o.items = 1 .. Len(o.items)
  <1>1. /\ About(o) = {o.items[i].id : i \in 1 .. Len(o.items)}
        /\ DOMAIN o.items = 1 .. Len(o.items) /\ 1 \in 1 .. Len(o.items) /\ Len(o.items) \in Nat
        /\ \A i \in 1 .. Len(o.items) : o.items[i] \in ItemType /\ o.was[i] \in WasType
    BY AboutRequest
  <1>2. /\ o.next \in 1 .. Len(o.items)
        /\ \A i, j \in 1 .. Len(o.items) : o.items[i].id = o.items[j].id => i = j
    BY DEF IsRequest
  <1>3. ASSUME NEW i \in 1 .. Len(o.items)
        PROVE  /\ o.items[i].id \in Ids /\ o.items[i].id \in About(o)
               /\ o.items[i].state \in States \cup {"none"} /\ o.items[i].at \in Nat
               /\ o.items[i].sensors \in SUBSET Sensors
               /\ o.was[i].sens \in SUBSET Sensors
    <2>1. o.items[i] \in ItemType /\ o.was[i] \in WasType /\ o.items[i].id \in About(o)
      BY <1>1
    <2> QED  BY <2>1 DEF ItemType, WasType
  <1> QED  BY <1>1, <1>2, <1>3

LEMMA SensorCount ==
    ASSUME NEW x \in SUBSET Sensors
    PROVE  Cardinality(x) \in Nat /\ (x = {} => Cardinality(x) = 0)
  BY FS_Subset, FS_CardinalityType, FS_EmptySet

LEMMA MemoryAddSensorStep ==
    ASSUME TypeInv, ProgressInv, NEW t \in Tasks, MemoryAddSensor(t)
    PROVE  RequestStep(t)
  <1> DEFINE o == op[t]
             item == o.items[1]
             s == [sens EXCEPT ![item.id] = @ \cup item.sensors]
  <1>1. IsRequest(o) /\ Stage(o) /\ o.pc = "write" /\ o.kind = "add_sensor"
    BY RequestFacts DEF MemoryAddSensor
  <1>2. backend = "memory" /\ o.kind \in Writes
    BY <1>1 DEF Stage, Writes
  <1>3. item.id \in Ids /\ item.sensors \in SUBSET Sensors /\ item.id \in About(o)
    BY <1>1, RequestItems
  <1>4. alone[t] => rows[item.id] = o.was[1].row /\ sens[item.id] = o.was[1].sens
    BY <1>1 DEF ProgressInv, Progress, Untouched
  <1>5. CASE rows[item.id] = None
    <2>1. Finish(t, Plain("not_found"))
      BY <1>5 DEF MemoryAddSensor
    <2>2. alone[t] => Exact(o, Plain("not_found"))
      BY <1>4, <1>5, <2>1 DEF Exact, Plain, Answer, Finish
    <2> QED  BY <2>1, <2>2, FinishStep
  <1>6. CASE rows[item.id] # None
    <2>1. Store(t, Idle, rows, s)
      BY <1>6 DEF MemoryAddSensor
    <2>2. /\ TablesInv(rows, s) /\ s[item.id] = sens[item.id] \cup item.sensors
          /\ \A j \in Ids : j # item.id => s[j] = sens[j]
      BY <1>3 DEF TypeInv, TablesInv
    <2> HIDE DEF s
    <2>3. alone[t] => Exact(o, Plain("ok"))
      <3>1. rows' = rows /\ sens' = s
        BY <2>1 DEF Store
      <3>2. ASSUME alone[t]
            PROVE  /\ o.was[1].row # None /\ rows'[item.id].state = o.was[1].row.state
                   /\ rows'[item.id].at = o.was[1].row.at
                   /\ sens'[item.id] = o.was[1].sens \cup item.sensors
        BY <1>4, <1>6, <2>2, <3>1, <3>2
      <3> QED  BY <1>1, <3>2, ExactAdd
    <2> QED  BY <2>1, <2>2, <2>3, StoreStep
  <1> QED  BY <1>5, <1>6

\* What SQLite and ClickHouse store of an item.
LEMMA SqlRow ==
    ASSUME TypeInv, NEW item, item.state \in States \cup {"none"}, item.at \in Nat,
           item.sensors \in SUBSET Sensors, NEW v \in Nat
    PROVE  /\ backend = "sqlite" =>
                 /\ SqliteRow(item) \in RowType
                 /\ SqliteRow(item).state = item.state
                 /\ SqliteRow(item).at = Kept(backend, item.at)
                 /\ Kept(backend, SqliteRow(item).at) = SqliteRow(item).at
                 /\ SqliteRow(item).count = 0
           /\ backend = "clickhouse" =>
                 /\ ClickHouseRow(item, v) \in RowType
                 /\ ClickHouseRow(item, v).state = item.state
                 /\ ClickHouseRow(item, v).at = Kept(backend, item.at)
                 /\ Kept(backend, ClickHouseRow(item, v).at) = ClickHouseRow(item, v).at
                 /\ ClickHouseRow(item, v).version = v
                 /\ ClickHouseRow(item, v).count = Cardinality(item.sensors)
  <1>1. /\ Kept(backend, item.at) \in Nat
        /\ Kept(backend, Kept(backend, item.at)) = Kept(backend, item.at)
    BY KeptTwice
  <1>2. Cardinality(item.sensors) \in Nat
    BY SensorCount
  <1>3. CASE backend = "sqlite"
    BY <1>1, <1>2, <1>3 DEF SqliteRow, Row, RowType
  <1>4. CASE backend = "clickhouse"
    BY <1>1, <1>2, <1>4 DEF ClickHouseRow, Row, RowType
  <1> QED  BY <1>3, <1>4

\* After the row of its only item a request of SQLite is done, answers, or goes on with
\* the sensors.
LEMMA SqliteWriteRowStep ==
    ASSUME TypeInv, ProgressInv, NEW t \in Tasks, SqliteWriteRow(t)
    PROVE  RequestStep(t)
  <1> DEFINE o == op[t]
             item == o.items[1]
             row == SqliteRow(item)
             r == [rows EXCEPT ![item.id] = row]
             p == IF table = "devices" THEN [o EXCEPT !.pc = "sensors"] ELSE Written(o)
  <1>1. IsRequest(o) /\ Stage(o) /\ o.pc = "row" /\ Store(t, p, r, sens)
    BY RequestFacts DEF SqliteWriteRow
  <1>2. /\ backend = "sqlite" /\ o.kind \in {"register", "update", "suspend"} /\ o.next = 1
        /\ Len(o.items) = 1 /\ o.kind \in Writes
    BY <1>1 DEF Stage, IsRequest, Writes
  <1>3. /\ item.id \in Ids /\ item.sensors \in SUBSET Sensors /\ item.id \in About(o)
        /\ item.state \in States \cup {"none"} /\ item.at \in Nat
    BY <1>1, RequestItems
  <1>4. /\ row \in RowType /\ row.state = item.state /\ row.at = Kept(backend, item.at)
        /\ Kept(backend, row.at) = row.at /\ row.count = 0
    <2>1. 0 \in Nat
      OBVIOUS
    <2> QED  BY <1>2, <1>3, <2>1, SqlRow
  <1>5. alone[t] => Progress(o, rows, sens)
    BY <1>1 DEF ProgressInv
  <1> HIDE DEF o, row
  <1>6. /\ TablesInv(r, sens) /\ r[item.id] = row
        /\ \A j \in Ids : j # item.id => r[j] = rows[j]
    BY <1>3, <1>4 DEF TypeInv, TablesInv
  <1> HIDE DEF r
  <1>7. RowDone(o, 1, r) /\ r[item.id].count = 0
    BY <1>2, <1>4, <1>6 DEF RowDone, Superseded
  <1>8. alone[t] => sens[item.id] = o.was[1].sens
    BY <1>1, <1>2, <1>5 DEF Progress, Untouched
  <1>9. alone[t] /\ o.kind = "suspend" =>
            /\ item = Suspended(item.id, o.was[1].row, o.was[1].sens)
            /\ o.was[1].row # None /\ Kept(backend, o.was[1].row.at) = o.was[1].row.at
    BY <1>1, <1>5 DEF Progress
  <1>11. rows' = r /\ sens' = sens
    BY <1>1 DEF Store
  <1>12. CASE table = "devices"
    <2>1. /\ IsRequest(p)
          /\ p.pc = "sensors" /\ p.kind = o.kind /\ p.items = o.items /\ p.next = o.next
          /\ p.version = o.version /\ p.row = o.row /\ p.was = o.was
      BY <1>1, <1>12, Moved
    <2> HIDE DEF p
    <2>2. Stage(p)
      BY <1>1, <1>2, <1>12, <2>1 DEF Stage
    <2>3. Continues(o, p) /\ p # Idle
      BY <2>1, <2>2 DEF Continues, Idle
    <2>4. alone[t] => Progress(p, r, sens)
      BY <1>2, <1>7, <1>8, <1>9, <2>1 DEF Progress, RowDone, Superseded
    <2> QED  BY <1>1, <1>2, <1>6, <2>3, <2>4, StoreStep DEF o
  <1>13. CASE table = "dispatchers" /\ o.kind = "suspend"
    <2>0. p = Written(o)
      BY <1>13
    <2>1. /\ Continues(o, p) /\ p.pc = "answer" /\ p.kind = o.kind
          /\ p.items = o.items /\ p.was = o.was /\ p.version = o.version
      BY <1>1, <1>2, <1>13, <2>0, WrittenIs
    <2> HIDE DEF p
    <2>2. p # Idle
      BY <2>1 DEF Continues, IsRequest, Idle
    <2>3. alone[t] => Progress(p, r, sens)
      BY <1>7, <1>8, <1>9, <1>13, <2>1 DEF Progress, RowDone, Superseded
    <2> QED  BY <1>1, <1>2, <1>6, <2>1, <2>2, <2>3, StoreStep DEF o
  <1>14. CASE table = "dispatchers" /\ o.kind # "suspend"
    <2>1. p = Idle
      BY <1>14 DEF Written
    <2>2. item.sensors = {}
      BY <1>1, <1>2, <1>14 DEF Stage
    <2>3. alone[t] => Exact(o, Plain("ok"))
      <3>1. ASSUME alone[t], NEW i \in 1 .. Len(o.items)
            PROVE  /\ RowDone(o, i, rows')
                   /\ sens'[o.items[i].id] =
                         o.items[i].sensors \cup (IF backend # "memory" THEN o.was[i].sens ELSE {})
        <4>1. i = 1
          BY <1>2
        <4>2. sens[o.items[1].id] = {} \cup o.was[1].sens
          BY <1>8, <3>1
        <4> QED  BY <1>2, <1>7, <1>11, <2>2, <4>1, <4>2
      <3> QED  BY <1>1, <1>2, <1>14, <3>1, ExactRegister
    <2> HIDE DEF p
    <2> QED  BY <1>1, <1>2, <1>6, <2>1, <2>3, StoreStep DEF o
  <1> QED  BY <1>12, <1>13, <1>14 DEF TypeInv

LEMMA SqliteAddSensorsStep ==
    ASSUME TypeInv, ProgressInv, NEW t \in Tasks, SqliteAddSensors(t)
    PROVE  RequestStep(t)
  <1> DEFINE o == op[t]
             item == o.items[1]
             n == Cardinality(item.sensors)
             r == [rows EXCEPT ![item.id].count = @ + n]
             s == [id \in Ids |-> IF id = item.id THEN sens[id] \cup item.sensors
                                  ELSE sens[id] \ item.sensors]
  <1>1. IsRequest(o) /\ Stage(o) /\ o.pc = "sensors" /\ backend = "sqlite"
    BY RequestFacts DEF SqliteAddSensors
  <1>2. /\ o.kind \in {"register", "update", "suspend", "add_sensor"} /\ table = "devices"
        /\ Len(o.items) = 1 /\ o.next = 1 /\ o.kind \in Writes
    BY <1>1 DEF Stage, IsRequest, Writes
  <1>3. /\ item.id \in Ids /\ item.sensors \in SUBSET Sensors /\ item.id \in About(o)
    BY <1>1, RequestItems
  <1>4. alone[t] => Progress(o, rows, sens)
    BY <1>1 DEF ProgressInv
  <1>5. n \in Nat
    BY <1>3, SensorCount
  <1>6. CASE item.sensors # {} /\ rows[item.id] = None
    <2>1. Finish(t, Plain("failed"))
      BY <1>6 DEF SqliteAddSensors
    <2>2. alone[t] => Exact(o, Plain("failed"))
      <3>1. rows' = rows /\ sens' = sens
        BY <2>1 DEF Finish
      <3>2. alone[t] /\ o.kind = "add_sensor" => Untouched(o, 1, rows, sens)
        BY <1>4 DEF Progress
      <3>3. Plain("failed").result = "failed" /\ DOMAIN o.items = 1 .. Len(o.items)
        BY <1>1, AboutRequest DEF Plain, Answer
      <3> HIDE DEF o
      <3> QED  BY <1>1, <1>2, <3>1, <3>2, <3>3 DEF Exact, Untouched
    <2> QED  BY <2>1, <2>2, FinishStep
  <1>7. CASE ~(item.sensors # {} /\ rows[item.id] = None)
    <2>1. Store(t, Idle, r, s)
      BY <1>7 DEF SqliteAddSensors
    <2> HIDE DEF o, n
    <2>2. /\ r \in [Ids -> RowType]
          /\ r[item.id].state = rows[item.id].state /\ r[item.id].at = rows[item.id].at
          /\ r[item.id].count = rows[item.id].count + n
          /\ r[item.id].version = rows[item.id].version
          /\ \A j \in Ids : j # item.id => r[j] = rows[j]
      BY <1>3, <1>5 DEF TypeInv, TablesInv, RowType
    <2>3. s \in [Ids -> SUBSET Sensors] /\ s[item.id] = sens[item.id] \cup item.sensors
      BY <1>3 DEF TypeInv, TablesInv
    <2> HIDE DEF r, s
    <2>4. TablesInv(r, s)
      BY <1>3, <2>2, <2>3 DEF TypeInv, TablesInv
    <2>6. rows' = r /\ sens' = s
      BY <2>1 DEF Store
    <2>7. ASSUME alone[t]
          PROVE  Exact(o, Plain("ok"))
      <3>1. CASE o.kind = "add_sensor"
        <4>1. rows[item.id] = o.was[1].row /\ sens[item.id] = o.was[1].sens /\ item.sensors # {}
          BY <1>1, <1>4, <2>7, <3>1 DEF Progress, Untouched, Stage
        <4> QED  BY <1>1, <1>7, <2>2, <2>3, <2>6, <3>1, <4>1, ExactAdd
      <3>2. CASE o.kind # "add_sensor"
        <4>1. /\ RowDone(o, 1, rows) /\ rows[item.id].count = 0
              /\ sens[item.id] = o.was[1].sens \cup {}
          BY <1>1, <1>2, <1>4, <2>7, <3>2 DEF Progress, Superseded
        <4>2. RowDone(o, 1, rows') /\ sens'[item.id] = item.sensors \cup o.was[1].sens
          BY <2>2, <2>3, <2>6, <4>1 DEF RowDone
        <4>3. CASE o.kind = "suspend"
          <5>1. /\ item = Suspended(item.id, o.was[1].row, o.was[1].sens)
                /\ o.was[1].row # None /\ Kept(backend, o.was[1].row.at) = o.was[1].row.at
            BY <1>1, <1>4, <2>7, <4>3 DEF Progress
          <5>2. item.sensors = o.was[1].sens
            BY <5>1 DEF Suspended, Item
          <5>3. sens'[item.id] = o.was[1].sens
            BY <4>2, <5>2
          <5>4. rows'[item.id].count = Cardinality(o.was[1].sens)
            BY <1>5, <2>2, <2>6, <4>1, <5>2 DEF n
          <5> QED  BY <1>1, <1>2, <4>2, <4>3, <5>1, <5>3, <5>4, ExactSuspend
        <4>4. CASE o.kind # "suspend"
          <5>1. \A i \in 1 .. Len(o.items) :
                   /\ RowDone(o, i, rows')
                   /\ sens'[o.items[i].id] =
                         o.items[i].sensors \cup (IF backend # "memory" THEN o.was[i].sens ELSE {})
            BY <1>1, <1>2, <4>2
          <5> QED  BY <1>1, <1>2, <3>2, <4>4, <5>1, ExactRegister
        <4> QED  BY <4>3, <4>4
      <3> QED  BY <3>1, <3>2
    <2> QED  BY <2>1, <2>4, <2>7, StoreStep DEF o
  <1> QED  BY <1>6, <1>7

\* The item of a request with a given id.
LEMMA ItemOf ==
    ASSUME NEW o, IsRequest(o), NEW i \in 1 .. Len(o.items)
    PROVE  (CHOOSE it \in Range(o.items) : it.id = o.items[i].id) = o.items[i]
  <1>1. /\ DOMAIN o.items = 1 .. Len(o.items)
        /\ \A j, k \in 1 .. Len(o.items) : o.items[j].id = o.items[k].id => j = k
    BY RequestItems
  <1>2. o.items[i] \in Range(o.items)
    BY <1>1 DEF Range
  <1>3. \A it \in Range(o.items) : it.id = o.items[i].id => it = o.items[i]
    BY <1>1 DEF Range
  <1> QED  BY <1>2, <1>3

LEMMA SqliteBatchStep ==
    ASSUME TypeInv, ProgressInv, NEW t \in Tasks, SqliteBatch(t)
    PROVE  RequestStep(t)
  <1> DEFINE o == op[t]
             of(id) == CHOOSE it \in Range(o.items) : it.id = id
             r == [id \in Ids |-> IF \E i \in DOMAIN o.items : o.items[i].id = id
                                  THEN SqliteRow(of(id)) ELSE rows[id]]
  <1>1. IsRequest(o) /\ Stage(o) /\ o.pc = "batch"
    BY RequestFacts DEF SqliteBatch
  <1>2. backend = "sqlite" /\ o.kind = "batch_register" /\ o.kind \in Writes
    BY <1>1 DEF Stage, Writes
  <1>3. /\ DOMAIN o.items = 1 .. Len(o.items)
        /\ About(o) = {o.items[i].id : i \in 1 .. Len(o.items)}
        /\ \A i \in 1 .. Len(o.items) :
              /\ o.items[i].id \in Ids /\ o.items[i].id \in About(o)
              /\ o.items[i].state \in States \cup {"none"} /\ o.items[i].at \in Nat
              /\ o.items[i].sensors \in SUBSET Sensors
    <2> HIDE DEF o
    <2> QED  BY <1>1, RequestItems
  <1>4. alone[t] => \A i \in 1 .. Len(o.items) : Untouched(o, i, rows, sens)
    BY <1>1 DEF ProgressInv, Progress
  <1>5. CASE \E i \in DOMAIN o.items : o.items[i].sensors # {}
    <2>1. Finish(t, Plain("failed"))
      BY <1>5 DEF SqliteBatch
    <2>2. rows' = rows /\ sens' = sens
      BY <2>1 DEF Finish
    <2>3. Plain("failed").result = "failed"
      BY DEF Plain, Answer
    <2>4. alone[t] => Exact(o, Plain("failed"))
      <3> HIDE DEF o
      <3> QED  BY <1>2, <1>3, <1>4, <2>2, <2>3 DEF Exact, Untouched
    <2> QED  BY <2>1, <2>4, FinishStep
  <1>6. CASE ~ \E i \in DOMAIN o.items : o.items[i].sensors # {}
    <2>1. Store(t, Idle, r, sens)
      BY <1>6 DEF SqliteBatch
    <2> HIDE DEF o
    <2>2. ASSUME NEW i \in 1 .. Len(o.items)
          PROVE  /\ r[o.items[i].id] = SqliteRow(o.items[i])
                 /\ r[o.items[i].id] \in RowType /\ RowDone(o, i, r)
                 /\ Kept(backend, r[o.items[i].id].at) = r[o.items[i].id].at
      <3>1. of(o.items[i].id) = o.items[i]
        BY <1>1, ItemOf
      <3> HIDE DEF of
      <3>2. r[o.items[i].id] = SqliteRow(o.items[i])
        BY <1>3, <3>1
      <3>3. 0 \in Nat
        OBVIOUS
      <3> HIDE DEF r
      <3>4. /\ SqliteRow(o.items[i]) \in RowType
            /\ SqliteRow(o.items[i]).state = o.items[i].state
            /\ SqliteRow(o.items[i]).at = Kept(backend, o.items[i].at)
            /\ Kept(backend, SqliteRow(o.items[i]).at) = SqliteRow(o.items[i]).at
        BY <1>2, <1>3, <3>3, SqlRow
      <3>5. ~Superseded(o, i)
        BY <1>2 DEF Superseded
      <3> QED  BY <3>2, <3>4, <3>5 DEF RowDone
    <2>3. \A id \in Ids : id \notin About(o) => r[id] = rows[id]
      BY <1>3
    <2>4. r = [id \in Ids |-> r[id]]
      OBVIOUS
    <2> HIDE DEF r
    <2>5. ASSUME NEW id \in Ids
          PROVE  r[id] \in RowType /\ Kept(backend, r[id].at) = r[id].at
      <3>1. CASE id \in About(o)
        BY <1>3, <2>2, <3>1
      <3>2. CASE id \notin About(o)
        BY <2>3, <3>2 DEF TypeInv, TablesInv
      <3> QED  BY <3>1, <3>2
    <2>6. TablesInv(r, sens)
      <3>1. r \in [Ids -> RowType]
        BY <2>4, <2>5
      <3> QED  BY <2>5, <3>1 DEF TypeInv, TablesInv
    <2>7. rows' = r /\ sens' = sens
      BY <2>1 DEF Store
    <2>8. alone[t] => Exact(o, Plain("ok"))
      <3>1. ASSUME alone[t], NEW i \in 1 .. Len(o.items)
            PROVE  /\ RowDone(o, i, rows')
                   /\ sens'[o.items[i].id] =
                         o.items[i].sensors \cup (IF backend # "memory" THEN o.was[i].sens ELSE {})
        <4>1. o.items[i].sensors = {}
          BY <1>3, <1>6
        <4>2. sens[o.items[i].id] = {} \cup o.was[i].sens
          BY <1>4, <3>1 DEF Untouched
        <4> QED  BY <1>2, <2>2, <2>7, <4>1, <4>2
      <3> QED  BY <1>1, <1>2, <3>1, ExactRegister
    <2> QED  BY <2>1, <2>6, <2>8, StoreStep DEF o
  <1> QED  BY <1>5, <1>6

LEMMA ClickHouseVersionStep ==
    ASSUME TypeInv, ProgressInv, NEW t \in Tasks, ClickHouseVersion(t)
    PROVE  RequestStep(t)
  <1> DEFINE o == op[t]
             p == [o EXCEPT !.pc = "insert", !.version = clock]
  <1>1. IsRequest(o) /\ Stage(o) /\ o.pc = "version" /\ Goto(t, p)
    BY RequestFacts DEF ClickHouseVersion
  <1>2. /\ p.pc = "insert" /\ p.kind = o.kind /\ p.items = o.items /\ p.next = o.next
        /\ p.version = clock /\ p.row = o.row /\ p.was = o.was
        /\ DOMAIN p = DOMAIN o /\ p = [y \in DOMAIN p |-> p[y]]
    BY <1>1 DEF IsRequest
  <1> HIDE DEF p
  <1>3. IsRequest(p)
    BY <1>1, <1>2 DEF IsRequest, TypeInv
  <1>4. Stage(p)
    BY <1>1, <1>2 DEF Stage
  <1>5. Continues(o, p)
    BY <1>2, <1>3, <1>4 DEF Continues
  <1>6. ASSUME alone[t]
        PROVE  Progress(p, rows, sens)
    <2>1. Progress(o, rows, sens)
      BY <1>1, <1>6 DEF ProgressInv
    <2>2. \A i \in 1 .. Len(p.items) : Untouched(p, i, rows, sens)
      BY <1>1, <1>2, <2>1 DEF Progress, Untouched
    <2>3. o.kind = "suspend" =>
            /\ p.items[1] = Suspended(p.items[1].id, p.was[1].row, p.was[1].sens)
            /\ p.was[1].row # None /\ Kept(backend, p.was[1].row.at) = p.was[1].row.at
      BY <1>1, <1>2, <2>1 DEF Progress
    <2>4. o.kind # "add_sensor"
      BY <1>1 DEF Stage
    <2> QED  BY <1>2, <2>2, <2>3, <2>4 DEF Progress
  <1> QED  BY <1>1, <1>5, <1>6, GotoStep

LEMMA ClickHouseInsertStep ==
    ASSUME TypeInv, ProgressInv, NEW t \in Tasks, ClickHouseInsert(t)
    PROVE  RequestStep(t)
  <1> DEFINE o == op[t]
             of(id) == CHOOSE it \in Range(o.items) : it.id = id
             r == [id \in Ids |-> IF id \in About(o)
                                  THEN Merge(ClickHouseRow(of(id), o.version), rows[id])
                                  ELSE rows[id]]
             p == IF table = "devices" THEN [o EXCEPT !.pc = "sensors"] ELSE Written(o)
  <1>1. IsRequest(o) /\ Stage(o) /\ o.pc = "insert" /\ Store(t, p, r, sens)
    BY RequestFacts DEF ClickHouseInsert
  <1> HIDE DEF o
  <1>2. /\ backend = "clickhouse" /\ o.kind \in {"register", "batch_register", "update", "suspend"}
        /\ o.kind \in Writes /\ o.next = 1 /\ o.version \in Nat
    BY <1>1 DEF Stage, IsRequest, Writes
  <1>3. /\ About(o) = {o.items[i].id : i \in 1 .. Len(o.items)} /\ 1 \in 1 .. Len(o.items)
        /\ \A i \in 1 .. Len(o.items) :
              /\ o.items[i].id \in Ids /\ o.items[i].id \in About(o)
              /\ o.items[i].state \in States \cup {"none"} /\ o.items[i].at \in Nat
              /\ o.items[i].sensors \in SUBSET Sensors
    BY <1>1, RequestItems
  <1>4. alone[t] => Progress(o, rows, sens)
    BY <1>1 DEF ProgressInv, o
  <1>5. ASSUME NEW i \in 1 .. Len(o.items)
        PROVE  LET id == o.items[i].id IN
               /\ r[id] \in RowType /\ Kept(backend, r[id].at) = r[id].at
               /\ alone[t] => RowDone(o, i, r)
               /\ alone[t] /\ ~Superseded(o, i) =>
                     r[id].count = Cardinality(o.items[i].sensors)
    <2> DEFINE id == o.items[i].id
               new == ClickHouseRow(o.items[i], o.version)
    <2>1. of(id) = o.items[i]
      BY <1>1, ItemOf
    <2> HIDE DEF of
    <2>2. r[id] = Merge(new, rows[id])
      BY <1>3, <2>1
    <2>3. /\ new \in RowType /\ new.state = o.items[i].state /\ new.version = o.version
          /\ new.at = Kept(backend, o.items[i].at) /\ Kept(backend, new.at) = new.at
          /\ new.count = Cardinality(o.items[i].sensors)
      BY <1>2, <1>3, SqlRow, ZenonT(60)
    <2>4. rows[id] \in RowType /\ Kept(backend, rows[id].at) = rows[id].at
      BY <1>3 DEF TypeInv, TablesInv
    <2> HIDE DEF new, r
    <2>5. r[id] \in {new, rows[id]}
      BY <2>2 DEF Merge
    <2>6. ASSUME alone[t]
          PROVE  r[id] = IF Superseded(o, i) THEN o.was[i].row ELSE new
      <3>1. rows[id] = o.was[i].row
        BY <1>1, <1>4, <2>6 DEF Progress, Untouched
      <3>2. rows[id].version \in Nat /\ None.version = 0
        BY <2>4 DEF RowType, None, Row
      <3>3. Superseded(o, i) <=> rows[id].version > o.version
        BY <1>2, <3>1 DEF Superseded
      <3>4. CASE Superseded(o, i)
        <4>0. rows[id].version > o.version
          BY <3>3, <3>4
        <4>1. rows[id] # None /\ ~(new.version >= rows[id].version)
          <5> HIDE DEF id
          <5> QED  BY <1>2, <2>3, <3>2, <4>0
        <4> QED  BY <2>2, <3>1, <3>4, <4>1 DEF Merge
      <3>5. CASE ~Superseded(o, i)
        <4>0. ~(rows[id].version > o.version)
          BY <3>3, <3>5
        <4>1. new.version >= rows[id].version
          <5> HIDE DEF id
          <5> QED  BY <1>2, <2>3, <3>2, <4>0
        <4> QED  BY <2>2, <3>5, <4>1 DEF Merge
      <3> QED  BY <3>4, <3>5
    <2>7. r[id] \in RowType /\ Kept(backend, r[id].at) = r[id].at
      BY <2>3, <2>4, <2>5
    <2>8. /\ alone[t] => RowDone(o, i, r)
          /\ alone[t] /\ ~Superseded(o, i) => r[id].count = Cardinality(o.items[i].sensors)
      BY <2>3, <2>6 DEF RowDone
    <2> QED  BY <2>7, <2>8
  <1>6. \A id \in Ids : id \notin About(o) => r[id] = rows[id]
    OBVIOUS
  <1>7. r = [id \in Ids |-> r[id]]
    OBVIOUS
  <1> HIDE DEF r
  <1>8. TablesInv(r, sens)
    <2>1. ASSUME NEW id \in Ids
          PROVE  r[id] \in RowType /\ Kept(backend, r[id].at) = r[id].at
      <3>1. CASE id \in About(o)
        <4>1. PICK i \in 1 .. Len(o.items) : id = o.items[i].id
          BY <1>3, <3>1
        <4> QED  BY <1>5, <4>1
      <3>2. CASE id \notin About(o)
        BY <1>6, <3>2 DEF TypeInv, TablesInv
      <3> QED  BY <3>1, <3>2
    <2>2. r \in [Ids -> RowType]
      BY <1>7, <2>1
    <2> QED  BY <2>1, <2>2 DEF TypeInv, TablesInv
  <1>9. alone[t] => \A i \in 1 .. Len(o.items) : sens[o.items[i].id] = o.was[i].sens
    BY <1>1, <1>4 DEF Progress, Untouched
  <1>11. rows' = r /\ sens' = sens
    BY <1>1 DEF Store
  <1>12. alone[t] /\ o.kind = "suspend" =>
            /\ o.items[1] = Suspended(o.items[1].id, o.was[1].row, o.was[1].sens)
            /\ o.was[1].row # None /\ Kept(backend, o.was[1].row.at) = o.was[1].row.at
    BY <1>1, <1>4 DEF Progress
  <1>13. CASE table = "devices"
    <2>1. /\ IsRequest(p)
          /\ p.pc = "sensors" /\ p.kind = o.kind /\ p.items = o.items /\ p.next = o.next
          /\ p.version = o.version /\ p.row = o.row /\ p.was = o.was
      BY <1>1, <1>13, Moved
    <2> HIDE DEF p
    <2>2. Stage(p)
      BY <1>1, <1>2, <1>13, <2>1 DEF Stage
    <2>3. Continues(o, p) /\ p # Idle
      BY <2>1, <2>2 DEF Continues, Idle, IsRequest
    <2>4. ASSUME alone[t]
          PROVE  Progress(p, r, sens)
      <3>1. ASSUME NEW i \in 1 .. Len(p.items)
            PROVE  /\ RowDone(p, i, r)
                   /\ ~Superseded(p, i) =>
                        r[p.items[i].id].count =
                           IF backend = "clickhouse" THEN Cardinality(p.items[i].sensors) ELSE 0
                   /\ sens[p.items[i].id] =
                        p.was[i].sens \cup (IF i < p.next THEN p.items[i].sensors ELSE {})
        <4>1. /\ RowDone(o, i, r)
              /\ ~Superseded(o, i) => r[o.items[i].id].count = Cardinality(o.items[i].sensors)
              /\ sens[o.items[i].id] = o.was[i].sens /\ ~(i < p.next)
          BY <1>2, <1>5, <1>9, <2>1, <2>4
        <4> QED  BY <1>2, <2>1, <4>1 DEF RowDone, Superseded
      <3> QED  BY <1>2, <1>12, <2>1, <2>4, <3>1 DEF Progress
    <2> QED  BY <1>1, <1>2, <1>8, <2>3, <2>4, StoreStep DEF o
  <1>14. CASE table = "dispatchers" /\ o.kind = "suspend"
    <2>0. p = Written(o)
      BY <1>14
    <2>1. /\ Continues(o, p) /\ p.pc = "answer" /\ p.kind = o.kind
          /\ p.items = o.items /\ p.was = o.was /\ p.version = o.version
      BY <1>1, <1>2, <1>14, <2>0, WrittenIs
    <2> HIDE DEF p
    <2>2. p # Idle
      BY <2>1 DEF Continues, IsRequest, Idle
    <2>3. alone[t] => Progress(p, r, sens)
      <3>1. alone[t] => RowDone(o, 1, r) /\ sens[o.items[1].id] = o.was[1].sens
        BY <1>3, <1>5, <1>9
      <3> QED  BY <1>12, <1>14, <2>1, <3>1 DEF Progress, RowDone, Superseded
    <2> QED  BY <1>1, <1>2, <1>8, <2>1, <2>2, <2>3, StoreStep DEF o
  <1>15. CASE table = "dispatchers" /\ o.kind # "suspend"
    <2>1. p = Idle
      BY <1>15 DEF Written
    <2>2. \A i \in 1 .. Len(o.items) : o.items[i].sensors = {}
      BY <1>1, <1>2, <1>15 DEF Stage
    <2>3. alone[t] => Exact(o, Plain("ok"))
      <3>1. ASSUME alone[t], NEW i \in 1 .. Len(o.items)
            PROVE  /\ RowDone(o, i, rows')
                   /\ sens'[o.items[i].id] =
                         o.items[i].sensors \cup (IF backend # "memory" THEN o.was[i].sens ELSE {})
        <4>1. sens[o.items[i].id] = {} \cup o.was[i].sens
          BY <1>9, <3>1
        <4> QED  BY <1>2, <1>5, <1>11, <2>2, <3>1, <4>1
      <3> QED  BY <1>1, <1>2, <1>15, <3>1, ExactRegister
    <2> HIDE DEF p
    <2> QED  BY <1>1, <1>2, <1>8, <2>1, <2>3, StoreStep DEF o
  <1> QED  BY <1>13, <1>14, <1>15 DEF TypeInv

LEMMA ClickHouseSensorsStep ==
    ASSUME TypeInv, ProgressInv, NEW t \in Tasks, ClickHouseSensors(t)
    PROVE  RequestStep(t)
  <1> DEFINE o == op[t]
             item == o.items[o.next]
             s == [sens EXCEPT ![item.id] = @ \cup item.sensors]
             p == IF o.next < Len(o.items) THEN [o EXCEPT !.next = @ + 1] ELSE Idle
  <1>1. /\ IsRequest(o) /\ Stage(o) /\ o.pc = "sensors" /\ backend = "clickhouse"
        /\ Store(t, p, rows, s)
    BY RequestFacts DEF ClickHouseSensors
  <1> HIDE DEF o
  <1>2. o.kind \in Writes /\ table = "devices"
    BY <1>1 DEF Stage, IsRequest
  <1>3. /\ o.next \in 1 .. Len(o.items) /\ Len(o.items) \in Nat
        /\ \A i \in 1 .. Len(o.items) :
              /\ o.items[i].id \in Ids /\ o.items[i].id \in About(o)
              /\ o.items[i].sensors \in SUBSET Sensors
        /\ \A i, j \in 1 .. Len(o.items) : o.items[i].id = o.items[j].id => i = j
    BY <1>1, RequestItems
  <1>4. alone[t] => Progress(o, rows, sens)
    BY <1>1 DEF ProgressInv, o
  <1>5. item.id \in Ids /\ item.id \in About(o) /\ item.sensors \in SUBSET Sensors
    BY <1>3
  <1>6. /\ TablesInv(rows, s) /\ s[item.id] = sens[item.id] \cup item.sensors
        /\ \A j \in Ids : j # item.id => s[j] = sens[j]
    BY <1>5 DEF TypeInv, TablesInv
  <1> HIDE DEF s
  <1>8. rows' = rows /\ sens' = s
    BY <1>1 DEF Store
  <1>9. ASSUME alone[t], o.kind # "add_sensor", NEW i \in 1 .. Len(o.items)
        PROVE  /\ RowDone(o, i, rows)
               /\ ~Superseded(o, i) =>
                     rows[o.items[i].id].count = Cardinality(o.items[i].sensors)
               /\ s[o.items[i].id] =
                     o.was[i].sens \cup (IF i < o.next + 1 THEN o.items[i].sensors ELSE {})
    <2>1. /\ RowDone(o, i, rows)
          /\ ~Superseded(o, i) =>
                rows[o.items[i].id].count = Cardinality(o.items[i].sensors)
          /\ sens[o.items[i].id] =
                     o.was[i].sens \cup (IF i < o.next THEN o.items[i].sensors ELSE {})
      BY <1>1, <1>4, <1>9 DEF Progress
    <2>2. CASE i = o.next
      <3>1. sens[o.items[i].id] = o.was[i].sens /\ i < o.next + 1
        BY <1>3, <2>1, <2>2
      <3> QED  BY <1>6, <2>1, <2>2, <3>1
    <2>3. CASE i # o.next
      <3>1. s[o.items[i].id] = sens[o.items[i].id]
        BY <1>3, <1>6, <2>3
      <3>2. (i < o.next + 1) = (i < o.next)
        BY <1>3, <2>3
      <3> QED  BY <2>1, <3>1, <3>2
    <2> QED  BY <2>2, <2>3
  <1>10. CASE o.next < Len(o.items)
    <2>0. p = [o EXCEPT !.next = @ + 1]
      BY <1>10
    <2>1. /\ Continues(o, p) /\ p.next = o.next + 1 /\ o.kind = "batch_register"
          /\ p.pc = o.pc /\ p.kind = o.kind /\ p.items = o.items
          /\ p.version = o.version /\ p.row = o.row /\ p.was = o.was
      BY <1>1, <1>10, <2>0, NextItem
    <2> HIDE DEF p
    <2>2. p # Idle
      BY <2>1 DEF Continues, IsRequest, Idle
    <2>3. ASSUME alone[t] PROVE Progress(p, rows, s)
      <3>1. \A i \in 1 .. Len(p.items) :
               /\ RowDone(p, i, rows)
               /\ ~Superseded(p, i) =>
                     rows[p.items[i].id].count = Cardinality(p.items[i].sensors)
               /\ s[p.items[i].id] =
                     p.was[i].sens \cup (IF i < p.next THEN p.items[i].sensors ELSE {})
        BY <1>9, <2>1, <2>3 DEF RowDone, Superseded
      <3> QED  BY <1>1, <2>1, <3>1 DEF Progress
    <2> QED  BY <1>1, <1>2, <1>6, <2>1, <2>2, <2>3, StoreStep DEF o
  <1>11. CASE ~(o.next < Len(o.items))
    <2>0. p = Idle /\ o.next = Len(o.items)
      BY <1>3, <1>11
    <2> HIDE DEF p
    <2>1. ASSUME alone[t]
          PROVE  Exact(o, Plain("ok"))
      <3>1. CASE o.kind = "add_sensor"
        <4>1. o.next = 1
          BY <1>1, <2>0, <3>1 DEF IsRequest
        <4>2. rows[o.items[1].id] = o.was[1].row /\ sens[o.items[1].id] = o.was[1].sens
          BY <1>4, <2>1, <3>1 DEF Progress, Untouched
        <4> QED  BY <1>1, <1>6, <1>8, <3>1, <4>1, <4>2, ExactAdd
      <3>2. CASE o.kind # "add_sensor"
        <4>1. ASSUME NEW i \in 1 .. Len(o.items)
              PROVE  /\ RowDone(o, i, rows')
                     /\ sens'[o.items[i].id] = o.was[i].sens \cup o.items[i].sensors
                     /\ ~Superseded(o, i) =>
                           rows'[o.items[i].id].count = Cardinality(o.items[i].sensors)
          <5>1. i < o.next + 1
            BY <1>3, <2>0
          <5> QED  BY <1>8, <1>9, <2>1, <3>2, <5>1
        <4>2. CASE o.kind = "suspend"
          <5>1. /\ o.items[1] = Suspended(o.items[1].id, o.was[1].row, o.was[1].sens)
                /\ o.was[1].row # None /\ Kept(backend, o.was[1].row.at) = o.was[1].row.at
            BY <1>1, <1>4, <2>1, <4>2 DEF Progress
          <5>2. o.items[1].sensors = o.was[1].sens /\ 1 \in 1 .. Len(o.items)
            BY <1>1, <5>1, RequestItems DEF Suspended, Item
          <5>3. sens'[o.items[1].id] = o.was[1].sens
            BY <4>1, <5>2
          <5> QED  BY <1>1, <1>2, <4>1, <4>2, <5>1, <5>2, <5>3, ExactSuspend
        <4>3. CASE o.kind # "suspend"
          <5>1. o.kind \in {"register", "batch_register", "update"}
            BY <1>2, <3>2, <4>3 DEF Writes
          <5>2. \A i \in 1 .. Len(o.items) :
                   o.was[i].sens \cup o.items[i].sensors = o.items[i].sensors \cup o.was[i].sens
            OBVIOUS
          <5> QED  BY <1>1, <4>1, <5>1, <5>2, ExactRegister
        <4> QED  BY <4>2, <4>3
      <3> QED  BY <3>1, <3>2
    <2> QED  BY <1>1, <1>2, <1>6, <2>0, <2>1, StoreStep DEF o
  <1> QED  BY <1>10, <1>11

(***************************************************************************)
(* Walks, and requests that begin.                                         *)
(***************************************************************************)

\* A step of a walk changes nothing but the walk.
WalkStep(t) ==
    /\ UNCHANGED <<table, backend, rows, sens, clock, alone>>
    /\ op' = [u \in Tasks |-> op'[u]] /\ answer' = [u \in Tasks |-> answer'[u]]
    /\ \A u \in Tasks : u # t => op'[u] = op[u]
    /\ op'[t] = Idle \/ IsWalk(op'[t])

LEMMA WalkFinish ==
    ASSUME TypeInv, NEW t \in Tasks, NEW a, Finish(t, a)
    PROVE  WalkStep(t)
  BY DEF TypeInv, Finish, WalkStep

LEMMA WalkGoto ==
    ASSUME TypeInv, NEW t \in Tasks, NEW o, IsWalk(o), Goto(t, o)
    PROVE  WalkStep(t)
  BY DEF TypeInv, Goto, WalkStep

LEMMA WalkPageStep ==
    ASSUME TypeInv, NEW t \in Tasks, WalkPage(t)
    PROVE  WalkStep(t)
  <1> DEFINE o == op[t]
             key == [id \in Listed(o.filter) |-> SortKey(o.by, o.order, id)]
             next(s) == [o EXCEPT !.listed = @ \o Page(o, s), !.pages = @ + 1,
                                  !.tied = @ \/ Tied(o)]
  <1>1. IsWalk(o)
    BY DEF TypeInv, WalkPage, Idle, Stage
  <1>2. \E s \in Sorted(key, o.order) :
            Finish(t, Plain("ok")) \/ Finish(t, Plain("gave_up")) \/ Goto(t, next(s))
    <2> HIDE DEF next, key
    <2>1. \E s \in Sorted(key, o.order) :
              CASE Page(o, s) = <<>> -> Finish(t, Plain("ok"))
                [] Page(o, s) # <<>> /\ o.pages + 1 = MaxPages -> Finish(t, Plain("gave_up"))
                [] OTHER -> Goto(t, next(s))
      BY Zenon DEF WalkPage, key, next
    <2> QED  BY <2>1
  <1>3. ASSUME NEW s
        PROVE  IsWalk(next(s))
    <2>1. \A x, y, z : IsWalk([o EXCEPT !.listed = x, !.pages = y, !.tied = z])
      BY <1>1, ZenonT(60) DEF IsWalk
    <2> QED  BY <2>1
  <1> HIDE DEF next, key
  <1> QED  BY <1>2, <1>3, WalkFinish, WalkGoto

\* A request, or a walk, that begins.
LEMMA BeginStep ==
    ASSUME RegistryInv, NEW t \in Tasks, NEW o, Begin(t, o),
           IsWalk(o) \/ (IsRequest(o) /\ Stage(o) /\ Progress(o, rows, sens))
    PROVE  RegistryInv'
  <1>1. /\ op[t] = Idle
        /\ op' = [op EXCEPT ![t] = o] /\ answer' = [answer EXCEPT ![t] = Plain("none")]
        /\ alone' = [alone EXCEPT ![t] = TRUE]
        /\ UNCHANGED <<table, backend, rows, sens, clock>>
    BY DEF Begin
  <1>2. op'[t] = o /\ op' = [u \in Tasks |-> op'[u]] /\ \A u \in Tasks : u # t => op'[u] = op[u]
    BY <1>1 DEF RegistryInv, TypeInv
  <1>3. TypeInv'
    <2>1. answer' = [u \in Tasks |-> answer'[u]]
      BY <1>1 DEF RegistryInv, TypeInv
    <2>2. alone' \in [Tasks -> BOOLEAN]
      BY <1>1 DEF RegistryInv, TypeInv
    <2>3. TablesInv(rows, sens)'
      BY <1>1 DEF RegistryInv, TypeInv, TablesInv
    <2>4. ASSUME NEW u \in Tasks
          PROVE  (op[u] = Idle \/ IsWalk(op[u]) \/ (IsRequest(op[u]) /\ Stage(op[u])))'
      <3>1. op'[u] = Idle \/ IsWalk(op'[u]) \/ (IsRequest(op'[u]) /\ Stage(op'[u]))
        BY <1>2 DEF RegistryInv, TypeInv
      <3> QED  BY <1>1, <3>1 DEF IsWalk, IsRequest, Stage, Idle
    <2> QED  BY <1>1, <1>2, <2>1, <2>2, <2>3, <2>4 DEF RegistryInv, TypeInv
  <1>4. ProgressInv'
    <2> SUFFICES ASSUME NEW u \in Tasks, alone'[u], IsRequest(op[u])'
                 PROVE  Progress(op[u], rows, sens)'
      BY DEF ProgressInv
    <2>1. IsRequest(op'[u])
      BY <1>1 DEF IsRequest
    <2>2. Progress(op'[u], rows, sens)
      <3>1. CASE u = t
        BY <1>2, <2>1, <3>1 DEF IsWalk, IsRequest, Writes
      <3>2. CASE u # t
        <4>1. alone[u] /\ op'[u] = op[u]
          BY <1>1, <1>2, <3>2 DEF RegistryInv, TypeInv
        <4> QED  BY <2>1, <4>1 DEF RegistryInv, ProgressInv
      <3> QED  BY <3>1, <3>2
    <2>3. backend' = backend /\ rows' = rows /\ sens' = sens
      BY <1>1
    <2> QED  BY <2>2, <2>3, ZenonT(60) DEF Progress, Untouched, RowDone, Superseded, Suspended, Item, Kept
  <1> QED  BY <1>3, <1>4 DEF RegistryInv

\* The items that a kind of request may have, and what Request makes of them.
FitFor(kind, items) ==
    /\ kind \in Writes \cup {"get"} /\ items \in Seq(ItemType)
    /\ Len(items) >= 1 /\ (kind # "batch_register" => Len(items) = 1)
    /\ \A i, j \in 1 .. Len(items) : items[i].id = items[j].id => i = j

LEMMA RequestIs ==
    ASSUME TypeInv, NEW kind, NEW pc, NEW items, FitFor(kind, items),
           NEW o, o = Request(kind, pc, items)
    PROVE  /\ IsRequest(o) /\ o.kind = kind /\ o.pc = pc /\ o.items = items /\ o.next = 1
           /\ \A i \in 1 .. Len(o.items) : Untouched(o, i, rows, sens)
  <1> DEFINE was == [i \in DOMAIN items |-> [row |-> rows[items[i].id], sens |-> sens[items[i].id]]]
  <1>1. o = [kind |-> kind, pc |-> pc, items |-> items, next |-> 1, version |-> 0, row |-> None,
             was |-> was]
    BY DEF Request
  <1>2. DOMAIN items = 1 .. Len(items) /\ Len(items) \in Nat /\ items \in Seq(ItemType)
    BY DEF FitFor
  <1>3. \A i \in 1 .. Len(items) : [row |-> rows[items[i].id], sens |-> sens[items[i].id]] \in WasType
    <2>0. \A i \in 1 .. Len(items) : items[i] \in ItemType
      BY <1>2
    <2>1. \A i \in 1 .. Len(items) : items[i].id \in Ids
      BY <2>0 DEF ItemType
    <2>2. \A id \in Ids : rows[id] \in RowType /\ sens[id] \in SUBSET Sensors
      BY DEF TypeInv, TablesInv
    <2> QED  BY <2>1, <2>2 DEF WasType
  <1>4. was \in [1 .. Len(items) -> WasType]
    BY <1>2, <1>3
  <1>5. was \in Seq(WasType) /\ Len(was) = Len(items)
    <2> HIDE DEF was
    <2> QED  BY <1>2, <1>4
  <1>6. \A i \in 1 .. Len(items) :
            was[i].row = rows[items[i].id] /\ was[i].sens = sens[items[i].id]
    BY <1>2
  <1> HIDE DEF was
  <1>7. /\ o.kind = kind /\ o.pc = pc /\ o.items = items /\ o.next = 1 /\ o.version = 0
        /\ o.row = None /\ o.was = was
        /\ DOMAIN o = {"kind", "pc", "items", "next", "version", "row", "was"}
        /\ o = [x \in DOMAIN o |-> o[x]]
    BY <1>1
  <1>8. None \in RowType
    BY DEF None, Row, RowType
  <1>9. IsRequest(o)
    BY <1>2, <1>5, <1>7, <1>8 DEF IsRequest, FitFor
  <1>10. \A i \in 1 .. Len(o.items) : Untouched(o, i, rows, sens)
    BY <1>6, <1>7 DEF Untouched
  <1> QED  BY <1>7, <1>9, <1>10

\* Where a request may start.
LEMMA StartsAt ==
    ASSUME TypeInv, NEW o, IsRequest(o), Stage(o), o.next = 1,
           \A i \in 1 .. Len(o.items) : Untouched(o, i, rows, sens),
           \/ o.kind = "add_sensor"
           \/ o.kind # "suspend" /\ o.pc \in {"read", "row", "batch", "version", "write"}
           \/ o.pc = "read"
    PROVE  Progress(o, rows, sens)
  <1>1. 1 \in 1 .. Len(o.items)
    BY RequestItems
  <1> QED  BY <1>1 DEF Progress, Stage

LEMMA OneItem ==
    ASSUME NEW kind \in (Writes \ {"batch_register"}) \cup {"get"}, NEW item \in ItemType
    PROVE  FitFor(kind, <<item>>) /\ Len(<<item>>) = 1 /\ <<item>>[1] = item
  BY DEF FitFor

LEMMA CallStep ==
    ASSUME RegistryInv, NEW t \in Tasks, Call(t)
    PROVE  RegistryInv'
  <1>0. TypeInv /\ clock \in Nat /\ backend \in {"memory", "sqlite", "clickhouse"}
        /\ table \in {"dispatchers", "devices"}
    BY DEF RegistryInv, TypeInv, Backends
  <1>1. CASE CallRegister(t)
    <2>1. PICK id \in Ids, s \in SensorSets :
              Begin(t, Request("register", FirstWrite, <<Item(id, "active", clock, s)>>))
      BY <1>1 DEF CallRegister
    <2> DEFINE item == Item(id, "active", clock, s)
               items == <<item>>
               o == Request("register", FirstWrite, items)
    <2>2. item \in ItemType /\ (table = "dispatchers" => item.sensors = {})
      BY <1>0 DEF Item, ItemType, States, SensorSets
    <2> HIDE DEF item
    <2>3. FitFor("register", items) /\ Len(items) = 1 /\ items[1] = item
      BY <2>2, OneItem DEF Writes
    <2>4. Begin(t, o)
      BY <2>1 DEF item
    <2> HIDE DEF items
    <2>5. /\ IsRequest(o) /\ o.kind = "register" /\ o.pc = FirstWrite /\ o.next = 1
          /\ o.items = items
          /\ \A i \in 1 .. Len(o.items) : Untouched(o, i, rows, sens)
      BY <1>0, <2>3, RequestIs
    <2> HIDE DEF o
    <2>6. Stage(o)
      <3>1. table = "dispatchers" => \A i \in 1 .. Len(o.items) : o.items[i].sensors = {}
        <4>1. Len(o.items) = 1 /\ o.items[1] = item
          BY <2>3, <2>5
        <4>2. \A i \in 1 .. Len(o.items) : i = 1
          BY <4>1
        <4> QED  BY <2>2, <4>1, <4>2
      <3> QED  BY <1>0, <2>5, <3>1, FirstWriteIs DEF Stage
    <2>7. Progress(o, rows, sens)
      BY <1>0, <2>5, <2>6, FirstWriteIs, StartsAt
    <2> QED  BY <2>5, <2>4, <2>6, <2>7, BeginStep
  <1>2. CASE CallBatchRegister(t)
    <2> DEFINE pc == IF backend = "sqlite" THEN "batch" ELSE FirstWrite
    <2>1. PICK k \in Ids, l \in Ids, s \in SensorSets :
              /\ k < l
              /\ Begin(t, Request("batch_register", pc,
                                  <<Item(k, "active", clock, s), Item(l, "active", clock, {})>>))
      BY <1>2 DEF CallBatchRegister
    <2> DEFINE items == <<Item(k, "active", clock, s), Item(l, "active", clock, {})>>
               o == Request("batch_register", pc, items)
    <2>2. /\ items \in Seq(ItemType) /\ Len(items) = 2
          /\ items[1].id = k /\ items[2].id = l
          /\ table = "dispatchers" => items[1].sensors = {} /\ items[2].sensors = {}
      BY <1>0 DEF Item, ItemType, States, SensorSets
    <2>3. Begin(t, o)
      BY <2>1
    <2> HIDE DEF items
    <2>4. \A i, j \in 1 .. Len(items) : items[i].id = items[j].id => i = j
      <3>1. k # l
        BY <2>1
      <3> QED  BY <2>2, <3>1
    <2>5. /\ IsRequest(o) /\ o.kind = "batch_register" /\ o.pc = pc /\ o.items = items
          /\ o.next = 1 /\ \A i \in 1 .. Len(o.items) : Untouched(o, i, rows, sens)
      <3>1. FitFor("batch_register", items)
        BY <2>2, <2>4 DEF FitFor, Writes
      <3> QED  BY <1>0, <3>1, RequestIs
    <2> HIDE DEF o
    <2>6. Stage(o)
      <3>1. table = "dispatchers" => \A i \in 1 .. Len(o.items) : o.items[i].sensors = {}
        <4>1. Len(o.items) = 2 /\ o.items = items
          BY <2>2, <2>5
        <4>2. \A i \in 1 .. Len(o.items) : i = 1 \/ i = 2
          BY <4>1
        <4> QED  BY <2>2, <4>1, <4>2
      <3>2. o.pc \in {"write", "batch", "version"}
        BY <1>0, <2>5, FirstWriteIs
      <3> QED  BY <1>0, <2>5, <3>1, <3>2, FirstWriteIs DEF Stage
    <2>7. Progress(o, rows, sens)
      BY <1>0, <2>5, <2>6, FirstWriteIs, StartsAt
    <2> QED  BY <2>3, <2>5, <2>6, <2>7, BeginStep
  <1>3. CASE CallUpdate(t)
    <2> DEFINE pc == IF backend = "memory" THEN "write" ELSE "read"
    <2>1. PICK id \in Ids, state \in States :
              Begin(t, Request("update", pc, <<Item(id, state, clock, {})>>))
      BY <1>3 DEF CallUpdate
    <2> DEFINE item == Item(id, state, clock, {})
               items == <<item>>
               o == Request("update", pc, items)
    <2>2. item \in ItemType /\ item.sensors = {}
      BY <1>0 DEF Item, ItemType
    <2> HIDE DEF item
    <2>3. FitFor("update", items) /\ Len(items) = 1 /\ items[1] = item
      BY <2>2, OneItem DEF Writes
    <2>4. Begin(t, o)
      BY <2>1 DEF item
    <2> HIDE DEF items
    <2>5. /\ IsRequest(o) /\ o.kind = "update" /\ o.pc = pc /\ o.next = 1
          /\ o.items = items
          /\ \A i \in 1 .. Len(o.items) : Untouched(o, i, rows, sens)
      BY <1>0, <2>3, RequestIs
    <2> HIDE DEF o
    <2>6. Stage(o)
      <3>1. table = "dispatchers" => \A i \in 1 .. Len(o.items) : o.items[i].sensors = {}
        <4>1. Len(o.items) = 1 /\ o.items[1] = item
          BY <2>3, <2>5
        <4>2. \A i \in 1 .. Len(o.items) : i = 1
          BY <4>1
        <4> QED  BY <2>2, <4>1, <4>2
      <3> QED  BY <1>0, <2>5, <3>1 DEF Stage
    <2>7. Progress(o, rows, sens)
      BY <1>0, <2>5, <2>6, StartsAt
    <2> QED  BY <2>5, <2>4, <2>6, <2>7, BeginStep
  <1>4. CASE CallSuspend(t)
    <2>1. PICK id \in Ids : Begin(t, Request("suspend", "read", <<Item(id, "suspended", 0, {})>>))
      BY <1>4 DEF CallSuspend
    <2> DEFINE item == Item(id, "suspended", 0, {})
               items == <<item>>
               o == Request("suspend", "read", items)
    <2>2. item \in ItemType
      BY DEF Item, ItemType, States
    <2> HIDE DEF item
    <2>3. FitFor("suspend", items) /\ Len(items) = 1 /\ items[1] = item
      BY <2>2, OneItem DEF Writes
    <2>4. Begin(t, o)
      BY <2>1 DEF item
    <2> HIDE DEF items
    <2>5. /\ IsRequest(o) /\ o.kind = "suspend" /\ o.pc = "read" /\ o.next = 1
          /\ o.items = items
          /\ \A i \in 1 .. Len(o.items) : Untouched(o, i, rows, sens)
      BY <1>0, <2>3, RequestIs
    <2> HIDE DEF o
    <2>6. Stage(o)
      BY <1>0, <2>3, <2>5 DEF Stage
    <2>7. Progress(o, rows, sens)
      BY <1>0, <2>5, <2>6, StartsAt
    <2> QED  BY <2>5, <2>4, <2>6, <2>7, BeginStep
  <1>5. CASE CallAddSensor(t)
    <2> DEFINE pc == IF backend = "memory" THEN "write" ELSE "sensors"
    <2>1. table = "devices" /\ \E id \in Ids, s \in Sensors :
              Begin(t, Request("add_sensor", pc, <<Item(id, "none", 0, {s})>>))
      BY <1>5 DEF CallAddSensor
    <2>2. PICK id \in Ids, s \in Sensors :
              Begin(t, Request("add_sensor", pc, <<Item(id, "none", 0, {s})>>))
      BY <2>1
    <2> DEFINE item == Item(id, "none", 0, {s})
               items == <<item>>
               o == Request("add_sensor", pc, items)
    <2>3. item \in ItemType /\ item.sensors # {}
      BY DEF Item, ItemType
    <2> HIDE DEF item
    <2>4. FitFor("add_sensor", items) /\ Len(items) = 1 /\ items[1] = item
      BY <2>3, OneItem DEF Writes
    <2>5. Begin(t, o)
      BY <2>2 DEF item
    <2> HIDE DEF items
    <2>6. /\ IsRequest(o) /\ o.kind = "add_sensor" /\ o.pc = pc /\ o.next = 1
          /\ o.items = items
          /\ \A i \in 1 .. Len(o.items) : Untouched(o, i, rows, sens)
      BY <1>0, <2>4, RequestIs
    <2> HIDE DEF o
    <2>7. Stage(o)
      BY <1>0, <2>4, <2>1, <2>3, <2>6 DEF Stage
    <2>8. Progress(o, rows, sens)
      BY <1>0, <2>6, <2>7, StartsAt
    <2> QED  BY <2>6, <2>5, <2>7, <2>8, BeginStep
  <1>6. CASE CallGet(t)
    <2>1. PICK id \in Ids : Begin(t, Request("get", "read", <<Item(id, "none", 0, {})>>))
      BY <1>6 DEF CallGet
    <2> DEFINE item == Item(id, "none", 0, {})
               items == <<item>>
               o == Request("get", "read", items)
    <2>2. item \in ItemType
      BY DEF Item, ItemType
    <2> HIDE DEF item
    <2>3. FitFor("get", items) /\ Len(items) = 1 /\ items[1] = item
      BY <2>2, OneItem DEF Writes
    <2>4. Begin(t, o)
      BY <2>1 DEF item
    <2> HIDE DEF items
    <2>5. /\ IsRequest(o) /\ o.kind = "get" /\ o.pc = "read" /\ o.next = 1
          /\ o.items = items
          /\ \A i \in 1 .. Len(o.items) : Untouched(o, i, rows, sens)
      BY <1>0, <2>3, RequestIs
    <2> HIDE DEF o
    <2>6. Stage(o)
      BY <1>0, <2>3, <2>5 DEF Stage
    <2>7. Progress(o, rows, sens)
      BY <1>0, <2>5, <2>6, StartsAt
    <2> QED  BY <2>5, <2>4, <2>6, <2>7, BeginStep
  <1>7. CASE CallWalk(t)
    <2>1. \E mode, by, order, f :
              Begin(t, [kind |-> "walk", pc |-> "page", mode |-> mode, by |-> by,
                        order |-> order, filter |-> f, listed |-> <<>>, pages |-> 0,
                        start |-> Listed(f), touched |-> {}, tied |-> FALSE])
      BY <1>7, Zenon DEF CallWalk
    <2>2. PICK mode, by, order, f :
              Begin(t, [kind |-> "walk", pc |-> "page", mode |-> mode, by |-> by,
                        order |-> order, filter |-> f, listed |-> <<>>, pages |-> 0,
                        start |-> Listed(f), touched |-> {}, tied |-> FALSE])
      BY <2>1
    <2>3. IsWalk([kind |-> "walk", pc |-> "page", mode |-> mode, by |-> by,
                  order |-> order, filter |-> f, listed |-> <<>>, pages |-> 0,
                  start |-> Listed(f), touched |-> {}, tied |-> FALSE])
      BY DEF IsWalk
    <2> QED  BY <2>2, <2>3, BeginStep
  <1> QED  BY <1>1, <1>2, <1>3, <1>4, <1>5, <1>6, <1>7 DEF Call

(***************************************************************************)
(* The invariant, and what follows from it.                                *)
(***************************************************************************)

\* A request does not notice what others do to other entries.
LEMMA ProgressKept ==
    ASSUME NEW o, IsRequest(o), NEW r, NEW s, NEW q, NEW v, Progress(o, r, s),
           \A id \in About(o) : q[id] = r[id] /\ v[id] = s[id]
    PROVE  Progress(o, q, v)
  <1>1. \A i \in 1 .. Len(o.items) :
            q[o.items[i].id] = r[o.items[i].id] /\ v[o.items[i].id] = s[o.items[i].id]
    BY RequestItems
  <1>2. 1 \in 1 .. Len(o.items)
    BY RequestItems
  <1>3. \A i \in 1 .. Len(o.items) :
            /\ Untouched(o, i, q, v) = Untouched(o, i, r, s)
            /\ RowDone(o, i, q) = RowDone(o, i, r)
    BY <1>1 DEF Untouched, RowDone
  <1> QED  BY <1>1, <1>2, <1>3 DEF Progress

LEMMA RequestKeeps ==
    ASSUME RegistryInv, NEW t \in Tasks, IsRequest(op[t]), RequestStep(t)
    PROVE  RegistryInv'
  <1>1. /\ table' = table /\ backend' = backend /\ clock' = clock
        /\ alone' \in [Tasks -> BOOLEAN]
        /\ op' = [u \in Tasks |-> op'[u]] /\ answer' = [u \in Tasks |-> answer'[u]]
        /\ \A u \in Tasks : u # t => op'[u] = op[u] \/ (IsWalk(op[u]) /\ IsWalk(op'[u]))
        /\ op'[t] = Idle \/ Continues(op[t], op'[t])
    BY DEF RequestStep
  <1>2. ~IsRequest(Idle) /\ \A o : IsWalk(o) => ~IsRequest(o)
    BY DEF Idle, IsWalk, IsRequest, Writes
  <1>3. \A u \in Tasks : IsRequest(op'[u]) =>
            \/ u # t /\ op'[u] = op[u]
            \/ u = t /\ Continues(op[t], op'[t])
    BY <1>1, <1>2
  <1>4. TypeInv'
    <2>1. TablesInv(rows, sens)'
      BY <1>1 DEF RequestStep, TablesInv
    <2>2. ASSUME NEW u \in Tasks
          PROVE  (op[u] = Idle \/ IsWalk(op[u]) \/ (IsRequest(op[u]) /\ Stage(op[u])))'
      <3>1. op'[u] = Idle \/ IsWalk(op'[u]) \/ (IsRequest(op'[u]) /\ Stage(op'[u]))
        BY <1>1 DEF RegistryInv, TypeInv, Continues
      <3> QED  BY <1>1, <3>1 DEF IsWalk, IsRequest, Stage, Idle
    <2> QED  BY <1>1, <2>1, <2>2 DEF RegistryInv, TypeInv
  <1>5. ProgressInv'
    <2> SUFFICES ASSUME NEW u \in Tasks, alone'[u], IsRequest(op[u])'
                 PROVE  Progress(op[u], rows, sens)'
      BY DEF ProgressInv
    <2>1. IsRequest(op'[u]) /\ alone[u]
      BY <1>1 DEF IsRequest, RequestStep
    <2>2. Progress(op'[u], rows', sens')
      <3>1. CASE u = t
        <4>1. op'[t] # Idle
          BY <1>2, <2>1, <3>1
        <4> QED  BY <2>1, <3>1, <4>1 DEF RequestStep
      <3>2. CASE u # t
        <4>1. op'[u] = op[u] /\ IsRequest(op[u])
          BY <1>3, <2>1, <3>2
        <4>2. Progress(op[u], rows, sens)
          BY <2>1, <4>1 DEF RegistryInv, ProgressInv
        <4>3. ASSUME NEW id \in About(op[u])
              PROVE  rows'[id] = rows[id] /\ sens'[id] = sens[id]
          <5>1. id \in Ids
            BY <4>1, RequestItems
          <5> QED  BY <3>2, <4>3, <5>1 DEF RequestStep
        <4> QED  BY <4>1, <4>2, <4>3, ProgressKept
      <3> QED  BY <3>1, <3>2
    <2> QED  BY <1>1, <2>2 DEF Progress, Untouched, RowDone, Superseded, Suspended, Item, Kept
  <1> QED  BY <1>4, <1>5 DEF RegistryInv

LEMMA WalkKeeps ==
    ASSUME RegistryInv, NEW t \in Tasks, WalkStep(t)
    PROVE  RegistryInv'
  <1>1. /\ UNCHANGED <<table, backend, rows, sens, clock, alone>>
        /\ op' = [u \in Tasks |-> op'[u]] /\ answer' = [u \in Tasks |-> answer'[u]]
        /\ \A u \in Tasks : u # t => op'[u] = op[u]
        /\ op'[t] = Idle \/ IsWalk(op'[t])
    BY DEF WalkStep
  <1>2. ~IsRequest(op'[t])
    BY <1>1 DEF Idle, IsWalk, IsRequest, Writes
  <1>3. TypeInv'
    <2>1. TablesInv(rows, sens)'
      BY <1>1 DEF RegistryInv, TypeInv, TablesInv
    <2>2. ASSUME NEW u \in Tasks
          PROVE  (op[u] = Idle \/ IsWalk(op[u]) \/ (IsRequest(op[u]) /\ Stage(op[u])))'
      <3>1. op'[u] = Idle \/ IsWalk(op'[u]) \/ (IsRequest(op'[u]) /\ Stage(op'[u]))
        BY <1>1 DEF RegistryInv, TypeInv
      <3> QED  BY <1>1, <3>1 DEF IsWalk, IsRequest, Stage, Idle
    <2> QED  BY <1>1, <2>1, <2>2 DEF RegistryInv, TypeInv
  <1>4. ProgressInv'
    <2> SUFFICES ASSUME NEW u \in Tasks, alone'[u], IsRequest(op[u])'
                 PROVE  Progress(op[u], rows, sens)'
      BY DEF ProgressInv
    <2>1. IsRequest(op'[u]) /\ u # t
      BY <1>1, <1>2 DEF IsRequest
    <2>2. op'[u] = op[u] /\ alone[u]
      BY <1>1, <2>1
    <2>3. Progress(op'[u], rows, sens)
      BY <2>1, <2>2 DEF RegistryInv, ProgressInv
    <2> QED  BY <1>1, <2>3 DEF Progress, Untouched, RowDone, Superseded, Suspended, Item, Kept
  <1> QED  BY <1>3, <1>4 DEF RegistryInv

LEMMA StartType == Start \in Nat
  <1>1. Cardinality(Ids) \in Nat
    BY FS_CardinalityType
  <1>2. (Cardinality(Ids) + 1) * TicksPerSecond \in Nat
    BY <1>1
  <1> QED  BY <1>2 DEF Start

LEMMA TickKeeps ==
    ASSUME RegistryInv, Tick \/ UNCHANGED vars
    PROVE  RegistryInv'
  <1>1. /\ clock' \in Nat
        /\ UNCHANGED <<table, backend, rows, sens, op, alone, answer>>
    BY StartType DEF RegistryInv, TypeInv, Tick, vars
  <1>2. TypeInv'
    <2>1. TablesInv(rows, sens)'
      BY <1>1 DEF RegistryInv, TypeInv, TablesInv
    <2>2. ASSUME NEW u \in Tasks
          PROVE  (op[u] = Idle \/ IsWalk(op[u]) \/ (IsRequest(op[u]) /\ Stage(op[u])))'
      <3>1. op[u] = Idle \/ IsWalk(op[u]) \/ (IsRequest(op[u]) /\ Stage(op[u]))
        BY DEF RegistryInv, TypeInv
      <3> QED  BY <1>1, <3>1 DEF IsWalk, IsRequest, Stage, Idle
    <2> QED  BY <1>1, <2>1, <2>2 DEF RegistryInv, TypeInv
  <1>3. \A u \in Tasks : IsRequest(op[u])' => IsRequest(op[u])
    <2> SUFFICES ASSUME NEW u \in Tasks, IsRequest(op[u])'
                 PROVE  IsRequest(op[u])
      OBVIOUS
    <2>1. op[u] # Idle /\ ~IsWalk(op[u])
      BY <1>1 DEF IsRequest, Idle, IsWalk, Writes
    <2> QED  BY <2>1 DEF RegistryInv, TypeInv
  <1>4. ProgressInv'
    <2> SUFFICES ASSUME NEW u \in Tasks, alone'[u], IsRequest(op[u])'
                 PROVE  Progress(op[u], rows, sens)'
      BY DEF ProgressInv
    <2>1. Progress(op'[u], rows, sens)
      BY <1>1, <1>3 DEF RegistryInv, ProgressInv
    <2> QED  BY <1>1, <2>1, ZenonT(60) DEF Progress, Untouched, RowDone, Superseded, Suspended,
                                         Item, Kept
  <1> QED  BY <1>2, <1>4 DEF RegistryInv

LEMMA StepKinds ==
    ASSUME RegistryInv, NEW t \in Tasks, Step(t)
    PROVE  \/ IsRequest(op[t]) /\ RequestStep(t)
           \/ ~IsRequest(op[t]) /\ WalkStep(t)
  <1>0. TypeInv /\ ProgressInv
    BY DEF RegistryInv
  <1>1. CASE op[t].pc \notin {"idle", "page"}
    <2>1. IsRequest(op[t])
      BY <1>0, <1>1, RequestFacts
    <2>2. ~WalkPage(t)
      BY <1>1 DEF WalkPage
    <2> QED  BY <1>0, <2>1, <2>2, ReadRowStep, ReadSensorsStep, ReadBackStep, FailsStep,
                MemoryWriteStep, MemoryAddSensorStep, SqliteWriteRowStep, SqliteAddSensorsStep,
                SqliteBatchStep, ClickHouseVersionStep, ClickHouseInsertStep,
                ClickHouseSensorsStep DEF Step
  <1>2. CASE op[t].pc \in {"idle", "page"}
    <2>1. ~IsRequest(op[t])
      <3>1. op[t] = Idle \/ IsWalk(op[t]) \/ Stage(op[t])
        BY <1>0 DEF TypeInv
      <3> QED  BY <1>2, <3>1, SMTT(30) DEF IsRequest, Idle, IsWalk, Stage, Writes
    <2>2. Fails(t) \/ WalkPage(t)
      BY <1>2 DEF Step, ReadRow, ReadSensors, ReadBack, MemoryWrite, MemoryAddSensor,
                  SqliteWriteRow, SqliteAddSensors, SqliteBatch, ClickHouseVersion,
                  ClickHouseInsert, ClickHouseSensors
    <2>3. CASE Fails(t)
      BY <1>0, <2>1, <2>3, WalkFinish DEF Fails
    <2>4. CASE WalkPage(t)
      BY <1>0, <2>1, <2>4, WalkPageStep
    <2> QED  BY <2>2, <2>3, <2>4
  <1> QED  BY <1>1, <1>2

LEMMA RegistryInit == Init => RegistryInv
  <1> SUFFICES ASSUME Init PROVE RegistryInv
    OBVIOUS
  <1>1. clock \in Nat
    BY StartType DEF Init
  <1>2. sens \in [Ids -> SUBSET Sensors]
    BY DEF Init
  <1>3. ASSUME NEW id \in Ids
        PROVE  rows[id] \in RowType /\ Kept(backend, rows[id].at) = rows[id].at
    <2>1. CASE Registered[id] = {}
      <3>1. rows[id] = None
        BY <2>1 DEF Init
      <3>2. Kept(backend, 0) = 0
        BY DEF Kept, Second
      <3> QED  BY <1>1, <3>1, <3>2 DEF None, Row, RowType
    <2>2. CASE Registered[id] # {}
      <3> DEFINE e == CHOOSE r \in Registered[id] : TRUE
                 n == IF backend = "memory" THEN 0 ELSE Cardinality(sens[id])
      <3>1. e.state \in States
        BY <2>2
      <3>2. n \in Nat
        BY <1>2, SensorCount
      <3>3. rows[id] = Row(e.state, id * TicksPerSecond, n, 0)
        BY <2>2 DEF Init
      <3>4. id * TicksPerSecond \in Nat /\ id \in Nat
        OBVIOUS
      <3>5. Kept(backend, id * TicksPerSecond) = id * TicksPerSecond
        <4>1. (id * TicksPerSecond) \div TicksPerSecond = id
          BY <3>4
        <4> QED  BY <4>1 DEF Kept, Second
      <3> HIDE DEF e, n
      <3> QED  BY <1>1, <3>1, <3>2, <3>3, <3>4, <3>5 DEF Row, RowType
    <2> QED  BY <2>1, <2>2
  <1>4. rows \in [Ids -> RowType]
    BY <1>3 DEF Init
  <1>5. TypeInv
    BY <1>1, <1>2, <1>3, <1>4 DEF Init, TypeInv, TablesInv
  <1>6. \A t \in Tasks : ~IsRequest(op[t])
    BY DEF Init, Idle, IsRequest
  <1> QED  BY <1>5, <1>6 DEF RegistryInv, ProgressInv

LEMMA RegistryStep == RegistryInv /\ [Next]_vars => RegistryInv'
  <1> SUFFICES ASSUME RegistryInv, [Next]_vars PROVE RegistryInv'
    OBVIOUS
  <1>1. CASE Tick \/ UNCHANGED vars
    BY <1>1, TickKeeps
  <1>2. ASSUME NEW t \in Tasks, Call(t) PROVE RegistryInv'
    BY <1>2, CallStep
  <1>3. ASSUME NEW t \in Tasks, Step(t) PROVE RegistryInv'
    BY <1>3, StepKinds, RequestKeeps, WalkKeeps
  <1> QED  BY <1>1, <1>2, <1>3 DEF Next

\* At every moment the SQL back ends keep whole seconds, and a request whose entries nobody
\* else has changed has written exactly as far as its place in the code says, whether or
\* not the clock was set back and ClickHouse takes its row for an old one.
THEOREM RegistryInvariant == Spec => []RegistryInv
  <1> QED  BY RegistryInit, RegistryStep, PTL DEF Spec

\* The step that ends a request.
LEMMA RequestEnds ==
    ASSUME RegistryInv, [Next]_vars, NEW t \in Tasks, op[t].kind \notin {"idle", "walk"},
           op'[t] = Idle, alone[t]
    PROVE  Exact(op[t], answer'[t])
  <1>1. IsRequest(op[t])
    BY DEF RegistryInv, TypeInv, Idle, IsWalk
  <1>2. op[t] # Idle /\ ~IsWalk(op[t])
    BY DEF Idle, IsWalk
  <1>3. op'[t] # op[t]
    BY <1>2
  <1>4. CASE Tick \/ UNCHANGED vars
    BY <1>3, <1>4 DEF Tick, vars
  <1>5. ASSUME NEW u \in Tasks, Call(u) PROVE FALSE
    <2>1. \E o : Begin(u, o)
      BY <1>5, Zenon DEF Call, CallRegister, CallBatchRegister, CallUpdate, CallSuspend,
                         CallAddSensor, CallGet, CallWalk
    <2>2. op[u] = Idle /\ \E o : op' = [op EXCEPT ![u] = o]
      BY <2>1 DEF Begin
    <2>3. u # t
      BY <1>2, <2>2
    <2> QED  BY <1>3, <2>2, <2>3 DEF RegistryInv, TypeInv
  <1>6. ASSUME NEW u \in Tasks, Step(u) PROVE Exact(op[t], answer'[t])
    <2>1. CASE u = t
      BY <1>1, <1>6, <2>1, StepKinds DEF RequestStep
    <2>2. CASE u # t
      BY <1>2, <1>3, <1>6, <2>2, StepKinds DEF RequestStep, WalkStep
    <2> QED  BY <2>1, <2>2
  <1> QED  BY <1>4, <1>5, <1>6 DEF Next

\* The module's IsolatedOperationExact: in every back end, a request ends with exactly the
\* entries and the answer its name promises unless some other request has changed one of
\* its entries meanwhile, be it by a write of the same id or by taking a sensor of it;
\* however many others run, overlap with it and fail halfway, and however the clock is set.
THEOREM RegistryOperationsExact == Spec => IsolatedOperationExact
  <1>1. RegistryInv /\ [Next]_vars
          => [\A t \in Tasks :
                (op[t].kind \notin {"idle", "walk"} /\ op'[t] = Idle /\ alone[t])
                    => Exact(op[t], answer'[t])]_vars
    BY RequestEnds
  <1> QED  BY <1>1, RegistryInvariant, PTL DEF Spec, IsolatedOperationExact

(***************************************************************************)
(* Filters.                                                                *)
(***************************************************************************)

\* The filters on which the back ends mean the same: in SQL no empty list, bounds on whole
\* seconds, and a sensor_count that is up to date; in memory no ids; no wildcard, and
\* for ClickHouse the case in which the manufacturers are written.
Portable(f) ==
    /\ table = "dispatchers" =>
          /\ f.ids = {} /\ f.kinds = {} /\ f.after = {} /\ f.before = {}
          /\ f.count = {} /\ f.maker = {}
    /\ backend = "memory" => f.ids = {}
    /\ backend # "memory" => {} \notin f.ids \cup f.states \cup f.locations
    /\ \A l \in f.kinds : "sensor" \in l
    /\ \A b \in f.after \cup f.before : b \in Nat /\ Kept(backend, b) = b
    /\ \A c \in f.count : c[1] \in Int /\ c[2] \in Int
    /\ (f.count # {} /\ backend # "memory") =>
          \A id \in Present : rows[id].count = Cardinality(sens[id])
    /\ \A p \in f.maker :
          /\ ~p.wild
          /\ backend = "clickhouse" =>
                \A id \in Ids : \A m \in MakerOf[id] : m.word = p.word => m.upper = p.upper

\* Whole seconds are in the same order as the timestamps.
LEMMA SecondsInOrder ==
    ASSUME backend # "memory", NEW x \in Nat, NEW y \in Nat, Kept(backend, x) = x,
           Kept(backend, y) = y
    PROVE  (Second(x) <= Second(y)) <=> x <= y
  <1> DEFINE k == x \div TicksPerSecond
             l == y \div TicksPerSecond
  <1>1. k \in Nat /\ l \in Nat /\ k * TicksPerSecond = x /\ l * TicksPerSecond = y
    BY DEF Kept, Second
  <1>2. Second(x) = k /\ Second(y) = l
    BY DEF Second
  <1> HIDE DEF k, l
  <1>3. k <= l => k * TicksPerSecond <= l * TicksPerSecond
    BY <1>1
  <1>4. l + 1 <= k => l * TicksPerSecond + TicksPerSecond <= k * TicksPerSecond
    BY <1>1
  <1>5. k <= l \/ l + 1 <= k
    BY <1>1
  <1> QED  BY <1>1, <1>2, <1>3, <1>4, <1>5

\* Each back end finds an entry exactly when it matches the filter.
LEMMA FoundWhenMatching ==
    ASSUME TypeInv, NEW f, Portable(f), NEW id \in Present
    PROVE  /\ table = "dispatchers" /\ backend = "memory" =>
                 (MemoryDispatcherFilter(f, id) <=> Matches(f, id))
           /\ table = "dispatchers" /\ backend = "sqlite" =>
                 (SqliteDispatcherFilter(f, id) <=> Matches(f, id))
           /\ table = "dispatchers" /\ backend = "clickhouse" =>
                 (ClickHouseDispatcherFilter(f, id) <=> Matches(f, id))
           /\ table = "devices" /\ backend = "memory" =>
                 (MemoryDeviceFilter(f, id) <=> Matches(f, id))
           /\ table = "devices" /\ backend = "sqlite" =>
                 (SqliteDeviceFilter(f, id) <=> Matches(f, id))
           /\ table = "devices" /\ backend = "clickhouse" =>
                 (ClickHouseDeviceFilter(f, id) <=> Matches(f, id))
  <1>0. /\ id \in Ids /\ rows[id] \in RowType /\ rows[id].at \in Nat
        /\ Kept(backend, rows[id].at) = rows[id].at /\ sens[id] \in SUBSET Sensors
    BY DEF Present, TypeInv, TablesInv, RowType
  <1>1. Cardinality(sens[id]) \in Nat
    BY <1>0, SensorCount
  <1> DEFINE lists == /\ \A l \in f.ids : id \in l
                      /\ \A l \in f.states : rows[id].state \in l
                      /\ \A l \in f.locations : LocationOf[id] \in l
             window == /\ \A a \in f.after : a <= rows[id].at
                       /\ \A b \in f.before : rows[id].at <= b
             counted == \A c \in f.count : Cardinality(sens[id]) \in c[1] .. c[2]
             made == \A p \in f.maker : \E m \in MakerOf[id] : m.word = p.word
  <1>2. Matches(f, id) <=> lists /\ window /\ counted /\ made
    BY DEF Matches
  <1>3. backend # "memory" =>
           ((SqlIn(f.ids, id) /\ SqlIn(f.states, rows[id].state) /\ SqlIn(f.locations, LocationOf[id]))
              <=> lists)
    BY DEF Portable, SqlIn
  <1>4. backend = "memory" =>
           ((Admits(f.states, rows[id].state) /\ Admits(f.locations, LocationOf[id])) <=> lists)
    BY DEF Portable, Admits
  <1>5. Admits(f.kinds, "sensor") /\ SqlIn(f.kinds, "sensor")
    BY DEF Portable, Admits, SqlIn
  <1>6. InWindow(f.after, f.before, rows[id].at) <=> window
    BY <1>0 DEF Portable, InWindow
  <1>7. ASSUME backend # "memory"
        PROVE  SqlInWindow(f.after, f.before, rows[id].at) <=> window
    <2>1. \A b \in f.after \cup f.before : b \in Nat /\ Kept(backend, b) = b
      BY DEF Portable
    <2>2. \A a \in f.after : Second(a) <= Second(rows[id].at) <=> a <= rows[id].at
      BY <1>0, <1>7, <2>1, SecondsInOrder
    <2>3. \A b \in f.before : Second(rows[id].at) <= Second(b) <=> rows[id].at <= b
      BY <1>0, <1>7, <2>1, SecondsInOrder
    <2>4. \A a \in f.after : Second(a) \in Int /\ Second(rows[id].at) \in Int
      BY <1>0, <2>1 DEF Second
    <2>5. \A a \in f.after : Second(rows[id].at) >= Second(a) <=> a <= rows[id].at
      BY <2>2, <2>4
    <2> QED  BY <2>3, <2>5 DEF SqlInWindow
  <1>8. InRange(f.count, Cardinality(sens[id])) <=> counted
    BY <1>1 DEF Portable, InRange
  <1>9. backend # "memory" => (InRange(f.count, rows[id].count) <=> counted)
    <2>1. CASE f.count = {}
      BY <2>1 DEF InRange
    <2>2. CASE f.count # {}
      <3>1. backend # "memory" => rows[id].count = Cardinality(sens[id])
        BY <2>2 DEF Portable
      <3> QED  BY <1>8, <3>1
    <2> QED  BY <2>1, <2>2
  <1>10. /\ (\A p \in f.maker : \E m \in MakerOf[id] : m.word = p.word /\ ~p.wild) <=> made
         /\ backend = "clickhouse" =>
               ((\A p \in f.maker : \E m \in MakerOf[id] : m.word = p.word /\ m.upper = p.upper)
                  <=> made)
    <2>1. \A p \in f.maker : ~p.wild
      BY DEF Portable
    <2>2. backend = "clickhouse" =>
             \A p \in f.maker : \A m \in MakerOf[id] : m.word = p.word => m.upper = p.upper
      BY <1>0 DEF Portable
    <2> QED  BY <2>1, <2>2, Zenon
  <1>11. table = "dispatchers" => window /\ counted /\ made
    BY DEF Portable
  <1> HIDE DEF lists, window, counted, made
  <1>12. CASE table = "dispatchers"
    BY <1>2, <1>3, <1>4, <1>11, <1>12
       DEF MemoryDispatcherFilter, SqliteDispatcherFilter, ClickHouseDispatcherFilter, Portable, SqlIn
  <1>13. CASE table = "devices" /\ backend = "memory"
    BY <1>2, <1>4, <1>5, <1>6, <1>8, <1>10, <1>13 DEF MemoryDeviceFilter
  <1>14. CASE table = "devices" /\ backend = "sqlite"
    <2>1. (\A p \in f.maker : \E m \in MakerOf[id] : m.word = p.word) <=> made
      BY DEF made
    <2> QED  BY <1>2, <1>3, <1>5, <1>7, <1>9, <1>14, <2>1 DEF SqliteDeviceFilter
  <1>15. CASE table = "devices" /\ backend = "clickhouse"
    BY <1>2, <1>3, <1>5, <1>7, <1>9, <1>10, <1>15 DEF ClickHouseDeviceFilter
  <1> QED  BY <1>12, <1>13, <1>14, <1>15

LEMMA FilterAgrees ==
    ASSUME TypeInv, NEW f, Portable(f)
    PROVE  Listed(f) = {id \in Present : Matches(f, id)}
  <1>1. table \in {"dispatchers", "devices"} /\ backend \in {"memory", "sqlite", "clickhouse"}
    BY DEF TypeInv, Backends
  <1>2. \A id \in Present :
           (CASE table = "dispatchers" /\ backend = "memory"     -> MemoryDispatcherFilter(f, id)
              [] table = "dispatchers" /\ backend = "sqlite"     -> SqliteDispatcherFilter(f, id)
              [] table = "dispatchers" /\ backend = "clickhouse" -> ClickHouseDispatcherFilter(f, id)
              [] table = "devices" /\ backend = "memory"         -> MemoryDeviceFilter(f, id)
              [] table = "devices" /\ backend = "sqlite"         -> SqliteDeviceFilter(f, id)
              [] table = "devices" /\ backend = "clickhouse"     -> ClickHouseDeviceFilter(f, id))
           <=> Matches(f, id)
    BY <1>1, FoundWhenMatching
  <1> QED  BY <1>2 DEF Listed

\* Every back end lists and counts, for any filter that means the same to all of them,
\* exactly the entries the filter asks for.
THEOREM RegistryFiltersAgree ==
    ASSUME NEW CONSTANT f
    PROVE  Spec => [](Portable(f) => Listed(f) = {id \in Present : Matches(f, id)})
  <1>1. RegistryInv => (Portable(f) => Listed(f) = {id \in Present : Matches(f, id)})
    BY FilterAgrees DEF RegistryInv
  <1> QED  BY <1>1, RegistryInvariant, PTL

\* The filters of the model-checked property are among them.
LEMMA FieldsOfFilters ==
    /\ NoFilter.ids = {} /\ NoFilter.states = {} /\ NoFilter.kinds = {} /\ NoFilter.locations = {}
    /\ NoFilter.after = {} /\ NoFilter.before = {} /\ NoFilter.count = {} /\ NoFilter.maker = {}
    /\ DOMAIN NoFilter = {"ids", "states", "kinds", "locations", "after", "before", "count", "maker"}
  BY DEF NoFilter

LEMMA DispatcherFiltersPortable ==
    ASSUME TypeInv, NEW f \in DispatcherFilters
    PROVE  Portable(f)
  <1>1. PICK s \in {{}, {{"active"}}}, l \in {{}, {{0}}} :
            f = [NoFilter EXCEPT !.states = s, !.locations = l]
    BY DEF DispatcherFilters
  <1>2. /\ f.ids = {} /\ f.states = s /\ f.kinds = {} /\ f.locations = l
        /\ f.after = {} /\ f.before = {} /\ f.count = {} /\ f.maker = {}
    BY <1>1, FieldsOfFilters
  <1>3. {} \notin s /\ {} \notin l
    OBVIOUS
  <1> QED  BY <1>2, <1>3 DEF Portable

LEMMA DeviceFiltersPortable ==
    ASSUME TypeInv, table = "devices", NEW f \in DeviceFilters
    PROVE  Portable(f)
  <1> DEFINE bounds == {{n * TicksPerSecond} : n \in {2, Cardinality(Ids) + 1}}
             stale == \E id \in Present : backend # "memory" /\ rows[id].count # Cardinality(sens[id])
             counts == IF stale THEN {} ELSE {{<<0, 0>>}, {<<1, 2>>}}
             cases == {v \in BOOLEAN :
                          backend = "clickhouse" =>
                              \A id \in Ids : \A m \in MakerOf[id] :
                                  m.word = "acme" => m.upper = v}
             makers == {{[word |-> "acme", upper |-> u, wild |-> FALSE]} : u \in cases}
             idlists == IF backend = "memory" THEN {} ELSE {{{1, 3}}}
  <1>1. \/ f \in DispatcherFilters
        \/ \E a \in bounds : f = [NoFilter EXCEPT !.after = a, !.states = {States}]
        \/ \E b \in bounds : f = [NoFilter EXCEPT !.before = b, !.kinds = {{"sensor"}}]
        \/ \E c \in counts : f = [NoFilter EXCEPT !.count = c]
        \/ \E i \in idlists : f = [NoFilter EXCEPT !.ids = i]
        \/ \E m \in makers : f = [NoFilter EXCEPT !.maker = m]
    BY Zenon DEF DeviceFilters
  <1>2. \A b \in bounds : \A x \in b : x \in Nat /\ Kept(backend, x) = x
    <2>1. Cardinality(Ids) + 1 \in Nat
      BY FS_CardinalityType
    <2>2. ASSUME NEW n \in Nat
          PROVE  n * TicksPerSecond \in Nat /\ Kept(backend, n * TicksPerSecond) = n * TicksPerSecond
      <3>1. n * TicksPerSecond \in Nat /\ (n * TicksPerSecond) \div TicksPerSecond = n
        OBVIOUS
      <3> QED  BY <3>1 DEF Kept, Second
    <2> QED  BY <2>1, <2>2
  <1> HIDE DEF bounds
  <1>3. CASE f \in DispatcherFilters
    BY <1>3, DispatcherFiltersPortable
  <1>4. CASE \E a \in bounds : f = [NoFilter EXCEPT !.after = a, !.states = {States}]
    <2>1. PICK a \in bounds : f = [NoFilter EXCEPT !.after = a, !.states = {States}]
      BY <1>4
    <2>2. /\ f.ids = {} /\ f.states = {States} /\ f.kinds = {} /\ f.locations = {}
          /\ f.after = a /\ f.before = {} /\ f.count = {} /\ f.maker = {}
      BY <2>1, FieldsOfFilters
    <2>3. States # {}
      BY DEF States
    <2> QED  BY <1>2, <2>2, <2>3 DEF Portable
  <1>5. CASE \E b \in bounds : f = [NoFilter EXCEPT !.before = b, !.kinds = {{"sensor"}}]
    <2>1. PICK b \in bounds : f = [NoFilter EXCEPT !.before = b, !.kinds = {{"sensor"}}]
      BY <1>5
    <2>2. /\ f.ids = {} /\ f.states = {} /\ f.kinds = {{"sensor"}} /\ f.locations = {}
          /\ f.after = {} /\ f.before = b /\ f.count = {} /\ f.maker = {}
      BY <2>1, FieldsOfFilters
    <2> QED  BY <1>2, <2>2 DEF Portable
  <1>6. CASE \E c \in counts : f = [NoFilter EXCEPT !.count = c]
    <2>1. PICK c \in counts : f = [NoFilter EXCEPT !.count = c]
      BY <1>6
    <2>2. /\ f.ids = {} /\ f.states = {} /\ f.kinds = {} /\ f.locations = {}
          /\ f.after = {} /\ f.before = {} /\ f.count = c /\ f.maker = {}
      BY <2>1, FieldsOfFilters
    <2>3. ~stale /\ c \in {{<<0, 0>>}, {<<1, 2>>}}
      BY <2>1
    <2>4. \A r \in c : r[1] \in Int /\ r[2] \in Int
      BY <2>3
    <2> QED  BY <2>2, <2>3, <2>4 DEF Portable
  <1>7. CASE \E i \in idlists : f = [NoFilter EXCEPT !.ids = i]
    <2>1. PICK i \in idlists : f = [NoFilter EXCEPT !.ids = i]
      BY <1>7
    <2>2. /\ f.ids = i /\ f.states = {} /\ f.kinds = {} /\ f.locations = {}
          /\ f.after = {} /\ f.before = {} /\ f.count = {} /\ f.maker = {}
      BY <2>1, FieldsOfFilters
    <2>3. backend # "memory" /\ {} \notin i
      BY <2>1
    <2> QED  BY <2>2, <2>3 DEF Portable
  <1>8. CASE \E m \in makers : f = [NoFilter EXCEPT !.maker = m]
    <2>1. PICK u \in cases :
              f = [NoFilter EXCEPT !.maker = {[word |-> "acme", upper |-> u, wild |-> FALSE]}]
      BY <1>8
    <2> DEFINE p == [word |-> "acme", upper |-> u, wild |-> FALSE]
    <2>2. /\ f.ids = {} /\ f.states = {} /\ f.kinds = {} /\ f.locations = {}
          /\ f.after = {} /\ f.before = {} /\ f.count = {} /\ f.maker = {p}
      BY <2>1, FieldsOfFilters
    <2>3. /\ ~p.wild /\ p.word = "acme" /\ p.upper = u
      OBVIOUS
    <2>4. backend = "clickhouse" =>
              \A id \in Ids : \A m \in MakerOf[id] : m.word = "acme" => m.upper = u
      OBVIOUS
    <2> HIDE DEF p
    <2> QED  BY <2>2, <2>3, <2>4 DEF Portable
  <1> QED  BY <1>1, <1>3, <1>4, <1>5, <1>6, <1>7, <1>8

\* The module's ListAgrees: for the filters it goes through, on dispatchers and on
\* devices, list and count of the three back ends answer alike and as asked.
THEOREM RegistryListsAgree == Spec => []ListAgrees
  <1>1. RegistryInv => ListAgrees
    <2> SUFFICES ASSUME RegistryInv,
                        NEW f \in (IF table = "dispatchers" THEN DispatcherFilters ELSE DeviceFilters)
                 PROVE  Listed(f) = {id \in Present : Matches(f, id)}
      BY DEF ListAgrees
    <2>1. TypeInv /\ table \in {"dispatchers", "devices"}
      BY DEF RegistryInv, TypeInv
    <2>2. Portable(f)
      BY <2>1, DispatcherFiltersPortable, DeviceFiltersPortable
    <2> QED  BY <2>1, <2>2, FilterAgrees
  <1> QED  BY <1>1, RegistryInvariant, PTL

(***************************************************************************)
(* Lists page by page.                                                     *)
(***************************************************************************)

\* The sort keys of the entries that a walk lists.
KeyOf(o) == [id \in Listed(o.filter) |-> SortKey(o.by, o.order, id)]

WalkType(o) ==
    /\ DOMAIN o = {"kind", "pc", "mode", "by", "order", "filter", "listed", "pages", "start",
                   "touched", "tied"}
    /\ o.mode \in {"offset", "cursor"} /\ o.by \in SortKeys
    /\ o.listed \in Seq(Ids) /\ o.pages \in Nat

\* How far a walk has come, when the entries it lists have these keys, in back end b.
WalkOk(o, key, b) ==
    /\ (o.mode = "offset" /\ o.touched = {} /\ ~o.tied) =>
          /\ DOMAIN key = o.start /\ o.pages = Len(o.listed)
          /\ Begins(o.listed, key, o.order)
    /\ (o.mode = "cursor" /\ b = "memory" /\ o.touched \cap Range(o.listed) = {} /\ ~o.tied) =>
          /\ o.start \ o.touched \subseteq DOMAIN key /\ o.pages = Len(o.listed)
          /\ Follows(o.listed, key, o.order, o.start \ o.touched)

WalkInv ==
    \A t \in Tasks : \A o \in {op[t]} :
        o.kind = "walk" => WalkType(o) /\ WalkOk(o, KeyOf(o), backend)

\* Sort keys are numbers.
LEMMA SortKeyType ==
    ASSUME TypeInv, NEW by \in SortKeys, NEW order, NEW id \in Ids
    PROVE  SortKey(by, order, id) \in Int
  <1>1. /\ table \in {"dispatchers", "devices"} /\ backend \in {"memory", "sqlite", "clickhouse"}
        /\ rows[id].at \in Int /\ rows[id].count \in Int /\ sens[id] \in SUBSET Sensors
    BY DEF TypeInv, TablesInv, RowType, Backends
  <1>2. Cardinality(sens[id]) \in Int
    BY <1>1, SensorCount
  <1>3. \A i \in Ids : NoneFirst(i) \in Int
    BY MakerAssumption DEF NoneFirst
  <1>4. \A state : StateCode(state) \in Int
    BY DEF StateCode
  <1>5. 1 + Max({NoneFirst(i) : i \in Ids}) \in Int
    <2> DEFINE K == {NoneFirst(i) : i \in Ids}
               rank == [i \in Ids |-> NoneFirst(i)]
    <2>1. rank \in [Ids -> Int] /\ K \subseteq Int
      BY <1>3
    <2>2. PICK i \in Ids : \A j \in Ids : rank[j] <= rank[i]
      <3> HIDE DEF rank
      <3> QED  BY <2>1, LargestKey
    <2>3. NoneFirst(i) \in K /\ \A y \in K : NoneFirst(i) >= y
      BY <1>3, <2>2
    <2> HIDE DEF K
    <2>4. Max(K) \in K
      BY <2>3 DEF Max
    <2> QED  BY <2>1, <2>4 DEF K
  <1>6. CASE table = "dispatchers"
    BY <1>1, <1>6 DEF SortKey
  <1>7. CASE table = "devices"
    <2>1. by \in {"state", "manufacturer", "provisioned_at", "sensor_count"}
      BY <1>7 DEF SortKeys
    <2>2. MemoryDeviceKey(by, id) \in Int
      BY <1>1, <1>2, <1>3, <1>4, <2>1 DEF MemoryDeviceKey
    <2>3. SqliteDeviceKey(by, id) \in Int
      BY <1>1, <1>3, <1>4, <2>1 DEF SqliteDeviceKey
    <2>4. ClickHouseDeviceKey(by, order, id) \in Int
      BY <1>5, <2>3 DEF ClickHouseDeviceKey
    <2> QED  BY <1>1, <1>7, <2>2, <2>3, <2>4 DEF SortKey
  <1> QED  BY <1>1, <1>6, <1>7

LEMMA KeyOfType ==
    ASSUME TypeInv, NEW o, WalkType(o)
    PROVE  /\ Listed(o.filter) \subseteq Ids /\ IsFiniteSet(Listed(o.filter))
           /\ KeyOf(o) \in [Listed(o.filter) -> Int] /\ DOMAIN KeyOf(o) = Listed(o.filter)
           /\ ~Tied(o) => Untied(KeyOf(o))
  <1>1. Listed(o.filter) \subseteq Ids
    BY DEF Listed, Present
  <1>2. IsFiniteSet(Listed(o.filter))
    BY <1>1, FS_Subset
  <1>3. \A id \in Listed(o.filter) : SortKey(o.by, o.order, id) \in Int
    BY <1>1, SortKeyType DEF WalkType
  <1>4. KeyOf(o) \in [Listed(o.filter) -> Int]
    BY <1>3 DEF KeyOf
  <1>5. ~Tied(o) => Untied(KeyOf(o))
    BY DEF Tied, Untied, KeyOf
  <1> QED  BY <1>1, <1>2, <1>4, <1>5

\* An entry that is not written is listed as before, with the same key.
LEMMA SameEntry ==
    ASSUME NEW f, NEW by, NEW order, NEW id \in Ids, UNCHANGED <<table, backend>>,
           rows'[id] = rows[id], sens'[id] = sens[id]
    PROVE  /\ (id \in Listed(f))' <=> id \in Listed(f)
           /\ SortKey(by, order, id)' = SortKey(by, order, id)
  <1>1. (id \in Listed(f))' <=> id \in Listed(f)
    BY DEF Listed, Present, None, Row, MemoryDispatcherFilter, SqliteDispatcherFilter,
           ClickHouseDispatcherFilter, MemoryDeviceFilter, SqliteDeviceFilter,
           ClickHouseDeviceFilter, Admits, SqlIn, InRange, InWindow, SqlInWindow, Second
  <1>2. SortKey(by, order, id)' = SortKey(by, order, id)
    BY DEF SortKey, MemoryDeviceKey, SqliteDeviceKey, ClickHouseDeviceKey, StateCode
  <1> QED  BY <1>1, <1>2


\* A walk during a step of another request.
LEMMA WalkKept ==
    ASSUME NEW o, IsWalk(o), WalkType(o), WalkOk(o, KeyOf(o), backend),
           NEW p, WalkSees(o, p), UNCHANGED <<table, backend>>
    PROVE  WalkType(p)' /\ WalkOk(p, KeyOf(p)', backend')
  <1> DEFINE C == {id \in Ids : rows'[id] # rows[id] \/ sens'[id] # sens[id]}
             L == Listed(o.filter)
             M == Listed(o.filter)'
             key == KeyOf(o)
             new == KeyOf(o)'
  <1>1. /\ DOMAIN p = DOMAIN o /\ p.mode = o.mode /\ p.by = o.by /\ p.order = o.order
        /\ p.filter = o.filter /\ p.listed = o.listed /\ p.pages = o.pages
        /\ p.start = o.start /\ p.tied = o.tied /\ p.touched = o.touched \cup C
    <2>1. CASE p = o /\ UNCHANGED <<rows, sens>>
      BY <2>1
    <2>2. CASE p = [o EXCEPT !.touched = o.touched \cup C]
      <3> HIDE DEF C
      <3> QED  BY <2>2 DEF WalkType, IsWalk
    <2> QED  BY <2>1, <2>2 DEF WalkSees
  <1>2. WalkType(p)'
    BY <1>1 DEF WalkType, SortKeys
  <1>3. L \subseteq Ids /\ M \subseteq Ids
    BY DEF Listed, Present
  <1>4. DOMAIN key = L /\ DOMAIN new = M
    BY DEF KeyOf
  <1>5. ASSUME NEW id \in Ids, id \notin C
        PROVE  (id \in M <=> id \in L) /\ (id \in L => new[id] = key[id])
    <2>1. rows'[id] = rows[id] /\ sens'[id] = sens[id]
      BY <1>5
    <2>2. /\ id \in M <=> id \in L
          /\ SortKey(o.by, o.order, id)' = SortKey(o.by, o.order, id)
      BY <2>1, SameEntry
    <2> QED  BY <2>2 DEF KeyOf
  <1>6. KeyOf(p)' = new
    BY <1>1 DEF KeyOf
  <1>7. key = [id \in L |-> key[id]] /\ new = [id \in M |-> new[id]]
    BY DEF KeyOf
  <1> HIDE DEF C, L, M, key, new
  <1>8. ASSUME p.mode = "offset", p.touched = {}, ~p.tied
        PROVE  /\ DOMAIN new = p.start /\ p.pages = Len(p.listed)
               /\ Begins(p.listed, new, p.order)
    <2>1. C = {} /\ o.mode = "offset" /\ o.touched = {} /\ ~o.tied
      BY <1>1, <1>8
    <2>2. M = L /\ new = key
      BY <1>3, <1>5, <1>7, <2>1
    <2> QED  BY <1>1, <2>1, <2>2 DEF WalkOk, key
  <1>9. ASSUME p.mode = "cursor", backend' = "memory", p.touched \cap Range(p.listed) = {}, ~p.tied
        PROVE  /\ p.start \ p.touched \subseteq DOMAIN new /\ p.pages = Len(p.listed)
               /\ Follows(p.listed, new, p.order, p.start \ p.touched)
    <2> DEFINE S == o.start \ o.touched
               T == p.start \ p.touched
               listed == o.listed
    <2>1. /\ S \subseteq L /\ o.pages = Len(listed) /\ Follows(listed, key, o.order, S)
      <3>1. o.touched \cap Range(o.listed) = {}
        BY <1>1, <1>9
      <3> QED  BY <1>1, <1>4, <1>9, <3>1 DEF WalkOk, key
    <2>2. T \subseteq S /\ \A x \in T : x \notin C
      BY <1>1
    <2>3. \A x \in T : x \in M /\ new[x] = key[x]
      BY <1>3, <1>5, <2>1, <2>2
    <2>4. \A i \in 1 .. Len(listed) : listed[i] \in M /\ new[listed[i]] = key[listed[i]]
      <3>1. listed \in Seq(L)
        BY <1>4, <2>1 DEF Follows
      <3>2. SUFFICES ASSUME NEW i \in 1 .. Len(listed)
                     PROVE  listed[i] \in M /\ new[listed[i]] = key[listed[i]]
        OBVIOUS
      <3>3. i \in DOMAIN listed /\ listed[i] \in L
        BY <3>1, <3>2
      <3>4. listed[i] \in Range(listed)
        BY <3>3 DEF Range
      <3>5. listed[i] \notin C
        BY <1>1, <1>9, <3>4
      <3> QED  BY <1>3, <1>5, <3>3, <3>5
    <2> HIDE DEF S, T, listed
    <2>5. Follows(listed, new, o.order, T)
      BY <1>4, <2>1, <2>2, <2>3, <2>4, FollowsKept
    <2> QED  BY <1>1, <1>4, <2>1, <2>3, <2>5 DEF S, T, listed
  <1>10. WalkOk(p, new, backend')
    BY <1>8, <1>9 DEF WalkOk
  <1> QED  BY <1>2, <1>6, <1>10


\* What the next page does for a walk that has met no ties: the walk is through, or goes
\* on with a new entry.
Advances(o, s, page) ==
    /\ (o.mode = "offset" /\ o.touched = {}) =>
          /\ page = <<>> => o.listed = s
          /\ page # <<>> => /\ Len(o.listed) + 1 <= Cardinality(Listed(o.filter))
                            /\ Len(o.listed \o page) = Len(o.listed) + 1
                            /\ Begins(o.listed \o page, KeyOf(o), o.order)
    /\ (o.mode = "cursor" /\ backend = "memory" /\ o.touched \cap Range(o.listed) = {}) =>
          GoesOn(Listed(o.filter), KeyOf(o), o.order, o.start \ o.touched, o.listed, page)

LEMMA NextPage ==
    ASSUME TypeInv, NEW o, WalkType(o), WalkOk(o, KeyOf(o), backend), ~o.tied, ~Tied(o),
           NEW s \in Sorted(KeyOf(o), o.order), NEW page, page = Page(o, s)
    PROVE  Advances(o, s, page)
  <1> DEFINE D == Listed(o.filter)
             key == KeyOf(o)
             S == o.start \ o.touched
             listed == o.listed
             order == o.order
  <1>1. IsFiniteSet(D) /\ key \in [D -> Int] /\ DOMAIN key = D /\ Untied(key)
    BY KeyOfType
  <1>2. s \in Sorted(key, order)
    OBVIOUS
  <1>3. ASSUME o.mode = "offset", o.touched = {}
        PROVE  /\ page = <<>> => listed = s
               /\ page # <<>> => /\ Len(listed) + 1 <= Cardinality(D)
                                 /\ Len(listed \o page) = Len(listed) + 1
                                 /\ Begins(listed \o page, key, order)
    <2>1. o.pages = Len(listed) /\ Begins(listed, key, order)
      BY <1>3 DEF WalkOk
    <2>2. page = OffsetPage(s, Len(listed), 1)
      BY <1>3, <2>1 DEF Page
    <2> HIDE DEF D, key, listed, order
    <2> QED  BY <1>1, <1>2, <2>1, <2>2, OffsetNext
  <1>4. ASSUME o.mode = "cursor", backend = "memory", o.touched \cap Range(o.listed) = {}
        PROVE  GoesOn(D, key, order, S, listed, page)
    <2>1. o.pages = Len(listed) /\ S \subseteq D /\ Follows(listed, key, order, S)
      BY <1>1, <1>4 DEF WalkOk
    <2>2. listed \in Seq(D) /\ Len(listed) \in Nat /\ (Len(listed) = 0 <=> listed = <<>>)
      BY <1>1, <2>1 DEF Follows
    <2>3. page = CursorPageAfter(s, listed)
      <3>1. CASE o.pages = 0
        BY <2>1, <2>2, <3>1 DEF Page, CursorPageAfter
      <3>2. CASE o.pages > 0
        BY <1>4, <2>1, <2>2, <3>2 DEF Page, CursorPageAfter
      <3> QED  BY <2>1, <2>2, <3>1, <3>2
    <2>4. S \in SUBSET D
      BY <2>1
    <2> HIDE DEF D, key, listed, order, S
    <2> QED  BY <1>1, <1>2, <2>1, <2>3, <2>4, CursorNext
  <1> QED  BY <1>3, <1>4 DEF Advances

\* A page is a list of entries.
LEMMA PageType ==
    ASSUME TypeInv, NEW o, WalkType(o), NEW s \in Sorted(KeyOf(o), o.order)
    PROVE  Page(o, s) \in Seq(Ids)
  <1>0. <<>> \in Seq(Ids)
    OBVIOUS
  <1>1. s \in Seq(Ids) /\ Len(s) \in Nat
    <2> DEFINE D == Listed(o.filter)
    <2>1. D \subseteq Ids /\ IsFiniteSet(D) /\ KeyOf(o) \in [D -> Int]
      BY KeyOfType
    <2> HIDE DEF D
    <2>2. s \in Seq(D) /\ Len(s) \in Nat
      BY <2>1, SortedRows
    <2>3. s \in [1 .. Len(s) -> D]
      BY <2>2
    <2>4. s \in [1 .. Len(s) -> Ids]
      BY <2>1, <2>3
    <2> QED  BY <2>2, <2>4
  <1>2. ASSUME NEW from \in Nat \ {0}
        PROVE  Upto(s, from, 1) \in Seq(Ids)
    <2>1. Upto(s, from, 1) = IF from <= Len(s) THEN <<s[from]>> ELSE <<>>
      BY <1>1, UptoOne
    <2>2. CASE from <= Len(s)
      <3> DEFINE y == s[from]
      <3>1. y \in Ids
        BY <1>1, <1>2, <2>2
      <3>2. Upto(s, from, 1) = <<y>>
        BY <2>1, <2>2
      <3> HIDE DEF y
      <3>3. <<y>> \in Seq(Ids)
        BY <3>1
      <3> QED  BY <3>2, <3>3, Zenon
    <2>3. CASE ~(from <= Len(s))
      BY <1>0, <2>1, <2>3, Zenon
    <2> QED  BY <2>2, <2>3
  <1>3. o.pages + 1 \in Nat \ {0} /\ 1 \in Nat \ {0}
    BY DEF WalkType
  <1>4. OffsetPage(s, o.pages, 1) \in Seq(Ids) /\ SqlCursorPage(s, 1) \in Seq(Ids)
    BY <1>2, <1>3 DEF OffsetPage, SqlCursorPage
  <1>5. ASSUME NEW x
        PROVE  CursorPage(s, {x}, 1) \in Seq(Ids)
    <2>1. CASE {x} \in {{s[i]} : i \in DOMAIN s}
      <3> DEFINE c == CHOOSE i \in DOMAIN s : {s[i]} = {x}
      <3>1. c \in DOMAIN s
        BY <2>1
      <3>2. CursorPage(s, {x}, 1) = Upto(s, 1 + c, 1)
        BY <2>1 DEF CursorPage
      <3> HIDE DEF c
      <3>3. 1 + c \in Nat \ {0}
        BY <1>1, <3>1
      <3> QED  BY <1>2, <3>2, <3>3
    <2>2. CASE {x} \notin {{s[i]} : i \in DOMAIN s}
      <3>1. CursorPage(s, {x}, 1) = <<>>
        BY <2>2 DEF CursorPage
      <3> QED  BY <1>0, <3>1, Zenon
    <2> QED  BY <2>1, <2>2
  <1> QED  BY <1>1, <1>4, <1>5 DEF Page

\* The walk o after one more page.
Walked(o, page) ==
    [o EXCEPT !.listed = o.listed \o page, !.pages = o.pages + 1, !.tied = o.tied \/ Tied(o)]

LEMMA PageOk ==
    ASSUME TypeInv, NEW o, IsWalk(o), WalkType(o), WalkOk(o, KeyOf(o), backend),
           NEW s \in Sorted(KeyOf(o), o.order), NEW page, page = Page(o, s), page # <<>>,
           NEW p, p = Walked(o, page)
    PROVE  IsWalk(p) /\ WalkType(p) /\ WalkOk(p, KeyOf(p), backend)
  <1> DEFINE longer == o.listed \o page
             more == o.pages + 1
             tie == o.tied \/ Tied(o)
  <1>0. p = [o EXCEPT !.listed = longer, !.pages = more, !.tied = tie]
    BY DEF Walked
  <1> HIDE DEF longer, more, tie
  <1>1. /\ DOMAIN p = DOMAIN o /\ p.mode = o.mode /\ p.by = o.by /\ p.order = o.order
        /\ p.filter = o.filter /\ p.start = o.start /\ p.touched = o.touched
        /\ p.kind = o.kind /\ p.pc = o.pc
        /\ p.listed = longer /\ p.pages = more /\ p.tied = tie
    BY <1>0 DEF WalkType, IsWalk
  <1>2. IsWalk(p)
    <2>1. p = [x \in DOMAIN p |-> p[x]]
      BY <1>0
    <2> QED  BY <1>1, <2>1 DEF IsWalk
  <1>3. WalkType(p)
    <2>1. page \in Seq(Ids)
      BY PageType
    <2>2. longer \in Seq(Ids) /\ more \in Nat
      BY <2>1 DEF longer, more, WalkType
    <2> QED  BY <1>1, <2>2 DEF WalkType
  <1>4. KeyOf(p) = KeyOf(o)
    BY <1>1 DEF KeyOf
  <1>5. CASE tie
    <2>1. p.tied
      BY <1>1, <1>5, Zenon
    <2> QED  BY <1>2, <1>3, <2>1, Zenon DEF WalkOk
  <1>6. CASE ~tie
    <2>1. ~o.tied /\ ~Tied(o)
      BY <1>6 DEF tie
    <2>0. Advances(o, s, page)
      BY <2>1, NextPage
    <2>2. ASSUME o.mode = "offset", o.touched = {}
          PROVE  /\ DOMAIN KeyOf(o) = o.start /\ more = Len(longer)
                 /\ Begins(longer, KeyOf(o), o.order)
      <3>1. DOMAIN KeyOf(o) = o.start /\ o.pages = Len(o.listed)
        BY <2>1, <2>2 DEF WalkOk
      <3>2. Len(longer) = Len(o.listed) + 1 /\ Begins(longer, KeyOf(o), o.order)
        BY <2>0, <2>2 DEF Advances, longer
      <3> QED  BY <3>1, <3>2 DEF more
    <2>3. ASSUME o.mode = "cursor", backend = "memory", o.touched \cap Range(longer) = {}
          PROVE  /\ o.start \ o.touched \subseteq DOMAIN KeyOf(o) /\ more = Len(longer)
                 /\ Follows(longer, KeyOf(o), o.order, o.start \ o.touched)
      <3>1. o.touched \cap Range(o.listed) = {}
        <4>1. o.listed \in Seq(Ids) /\ page \in Seq(Ids)
          BY PageType DEF WalkType
        <4>2. \A i \in DOMAIN o.listed : i \in DOMAIN longer /\ longer[i] = o.listed[i]
          BY <4>1 DEF longer
        <4>3. Range(o.listed) \subseteq Range(longer)
          BY <4>2 DEF Range
        <4> QED  BY <2>3, <4>3
      <3>2. o.start \ o.touched \subseteq DOMAIN KeyOf(o) /\ o.pages = Len(o.listed)
        BY <2>1, <2>3, <3>1 DEF WalkOk
      <3>3. /\ Len(longer) = Len(o.listed) + 1
            /\ Follows(longer, KeyOf(o), o.order, o.start \ o.touched)
        BY <2>0, <2>3, <3>1 DEF Advances, GoesOn, longer
      <3> QED  BY <3>2, <3>3 DEF more
    <2>4. WalkOk(p, KeyOf(p), backend)
      BY <1>1, <1>4, <2>2, <2>3 DEF WalkOk
    <2> QED  BY <1>2, <1>3, <2>4
  <1> QED  BY <1>2, <1>3, <1>5, <1>6


LEMMA WalkFacts ==
    ASSUME TypeInv, WalkInv, NEW t \in Tasks, NEW o, o = op[t], o.kind = "walk"
    PROVE  IsWalk(o) /\ WalkType(o) /\ WalkOk(o, KeyOf(o), backend)
  <1>1. IsWalk(o)
    BY DEF TypeInv, Idle, IsRequest, Writes
  <1> QED  BY <1>1 DEF WalkInv

\* A request for a page ends the walk or takes it one entry further.
LEMMA PageStep ==
    ASSUME NEW t \in Tasks, WalkPage(t), NEW o, o = op[t]
    PROVE  \E s \in Sorted(KeyOf(o), o.order) :
              \/ Page(o, s) = <<>> /\ Finish(t, Plain("ok"))
              \/ /\ Page(o, s) # <<>> /\ o.pages + 1 = MaxPages
                 /\ Finish(t, Plain("gave_up"))
              \/ Page(o, s) # <<>> /\ Goto(t, Walked(o, Page(o, s)))
  <1> DEFINE key == [id \in Listed(o.filter) |-> SortKey(o.by, o.order, id)]
             next(s) == [o EXCEPT !.listed = @ \o Page(o, s), !.pages = @ + 1,
                                  !.tied = @ \/ Tied(o)]
  <1>1. key = KeyOf(o)
    BY DEF KeyOf
  <1>2. \A s : next(s) = Walked(o, Page(o, s))
    BY DEF Walked
  <1> HIDE DEF key, next
  <1>3. PICK s \in Sorted(key, o.order) :
              CASE Page(o, s) = <<>> -> Finish(t, Plain("ok"))
                [] Page(o, s) # <<>> /\ o.pages + 1 = MaxPages -> Finish(t, Plain("gave_up"))
                [] OTHER -> Goto(t, next(s))
    BY Zenon DEF WalkPage, key, next
  <1>4. next(s) = Walked(o, Page(o, s))
    BY <1>2
  <1>5. \/ Page(o, s) = <<>> /\ Finish(t, Plain("ok"))
        \/ Page(o, s) # <<>> /\ o.pages + 1 = MaxPages /\ Finish(t, Plain("gave_up"))
        \/ Page(o, s) # <<>> /\ Goto(t, next(s))
    BY <1>3
  <1> QED  BY <1>1, <1>4, <1>5, Zenon

\* A walk that begins has got nothing yet.
LEMMA WalkBegins ==
    ASSUME TypeInv, NEW t \in Tasks, CallWalk(t), NEW p, p = op'[t]
    PROVE  IsWalk(p) /\ WalkType(p) /\ WalkOk(p, KeyOf(p), backend)
  <1>1. PICK mode \in {"offset", "cursor"}, by \in SortKeys, order \in {"asc", "desc"},
             states \in {{}, {{"active"}}} :
           LET f == [NoFilter EXCEPT !.states = states]
           IN Begin(t, [kind |-> "walk", pc |-> "page", mode |-> mode, by |-> by,
                        order |-> order, filter |-> f, listed |-> <<>>, pages |-> 0,
                        start |-> Listed(f), touched |-> {}, tied |-> FALSE])
    BY DEF CallWalk
  <1> DEFINE f == [NoFilter EXCEPT !.states = states]
             L == Listed(f)
  <1> HIDE DEF f, L
  <1>2. p = [kind |-> "walk", pc |-> "page", mode |-> mode, by |-> by, order |-> order,
             filter |-> f, listed |-> <<>>, pages |-> 0, start |-> L, touched |-> {},
             tied |-> FALSE]
    BY <1>1 DEF TypeInv, Begin, f, L
  <1>3. <<>> \in Seq(Ids) /\ Len(<<>>) = 0
    OBVIOUS
  <1>4. IsWalk(p)
    <2>1. p.kind = "walk" /\ p.pc = "page" /\ {"kind", "pc"} \subseteq DOMAIN p
      BY <1>2
    <2>2. p = [x \in DOMAIN p |-> p[x]]
      BY <1>2, Zenon
    <2> QED  BY <2>1, <2>2 DEF IsWalk
  <1>5. WalkType(p)
    BY <1>2, <1>3 DEF WalkType
  <1>6. /\ p.filter = f /\ p.start = L /\ p.touched = {} /\ p.pages = 0 /\ p.listed = <<>>
        /\ p.order = order
    BY <1>2
  <1>7. DOMAIN KeyOf(p) = L
    BY <1>6 DEF KeyOf, L
  <1>8. \A S : Begins(<<>>, KeyOf(p), order) /\ Follows(<<>>, KeyOf(p), order, S)
    <2>1. L \subseteq Ids /\ IsFiniteSet(L) /\ KeyOf(p) \in [L -> Int]
      BY <1>5, <1>6, KeyOfType DEF L
    <2>2. \A s \in Sorted(KeyOf(p), order) : Len(s) \in Nat
      BY <2>1, SortedRows
    <2> QED  BY <2>2, NothingYet
  <1>9. WalkOk(p, KeyOf(p), backend)
    BY <1>3, <1>6, <1>7, <1>8 DEF WalkOk
  <1> QED  BY <1>4, <1>5, <1>9

LEMMA WalkInvInit == Init => WalkInv
  BY DEF Init, WalkInv, Idle

LEMMA WalkInvStep ==
    ASSUME RegistryInv, WalkInv, [Next]_vars
    PROVE  WalkInv'
  <1>0. TypeInv
    BY DEF RegistryInv
  <1> SUFFICES ASSUME NEW t \in Tasks, NEW p, p = op'[t], p.kind = "walk"
               PROVE  WalkType(p)' /\ WalkOk(p, KeyOf(p)', backend')
    BY DEF WalkInv
  <1> PICK o : o = op[t]
    OBVIOUS
  <1>1. CASE Tick \/ UNCHANGED vars
    <2>1. p = o /\ UNCHANGED <<table, backend, rows, sens>>
      BY <1>1 DEF Tick, vars
    <2> QED  BY <1>0, <2>1, WalkFacts, WalkKept DEF WalkSees
  <1>2. ASSUME NEW u \in Tasks, Call(u)
        PROVE  WalkType(p)' /\ WalkOk(p, KeyOf(p)', backend')
    <2>1. PICK b : Begin(u, b)
      BY <1>2, Zenon DEF Call, CallRegister, CallBatchRegister, CallUpdate, CallSuspend,
                         CallAddSensor, CallGet, CallWalk
    <2>2. op' = [op EXCEPT ![u] = b] /\ UNCHANGED <<table, backend, rows, sens>>
      BY <2>1 DEF Begin
    <2>3. CASE u # t
      <3>1. p = o
        BY <1>0, <2>2, <2>3 DEF TypeInv
      <3> QED  BY <1>0, <2>2, <3>1, WalkFacts, WalkKept DEF WalkSees
    <2>4. CASE u = t
      <3>1. CallWalk(t)
        <4>1. \A kind, pc, items : Request(kind, pc, items).kind = kind
          BY DEF Request
        <4>2. ~CallWalk(t) => \E kind, pc, items :
                 kind # "walk" /\ Begin(t, Request(kind, pc, items))
          BY <1>2, <2>4, Zenon DEF Call, CallRegister, CallBatchRegister, CallUpdate,
                   CallSuspend, CallAddSensor, CallGet
        <4> SUFFICES ASSUME NEW kind, NEW pc, NEW items, kind # "walk",
                            Begin(t, Request(kind, pc, items))
                     PROVE  FALSE
          BY <4>2
        <4>3. p = Request(kind, pc, items)
          BY <1>0 DEF TypeInv, Begin
        <4> QED  BY <4>1, <4>3
      <3>2. IsWalk(p) /\ WalkType(p) /\ WalkOk(p, KeyOf(p), backend)
        BY <1>0, <3>1, WalkBegins
      <3>3. WalkSees(p, p)
        BY <2>2 DEF WalkSees
      <3> QED  BY <2>2, <3>2, <3>3, WalkKept
    <2> QED  BY <2>3, <2>4
  <1>3. ASSUME NEW u \in Tasks, Step(u)
        PROVE  WalkType(p)' /\ WalkOk(p, KeyOf(p)', backend')
    <2>1. \/ IsRequest(op[u]) /\ RequestStep(u)
          \/ ~IsRequest(op[u]) /\ WalkStep(u)
      BY <1>3, StepKinds
    <2>2. UNCHANGED <<table, backend>>
      BY <2>1 DEF RequestStep, WalkStep
    <2>3. CASE u # t
      <3>1. o.kind = "walk"
        BY <2>1, <2>3 DEF RequestStep, WalkStep, IsWalk
      <3>2. IsWalk(o) /\ WalkType(o) /\ WalkOk(o, KeyOf(o), backend)
        BY <1>0, <3>1, WalkFacts
      <3>3. WalkSees(o, p)
        <4>1. CASE RequestStep(u)
          BY <2>3, <3>2, <4>1 DEF RequestStep
        <4>2. CASE WalkStep(u)
          BY <2>3, <4>2 DEF WalkStep, WalkSees
        <4> QED  BY <2>1, <4>1, <4>2
      <3> QED  BY <2>2, <3>2, <3>3, WalkKept
    <2>4. CASE u = t
      <3>1. p # Idle /\ ~IsRequest(p)
        BY DEF Idle, IsRequest, Writes
      <3>2. ~IsRequest(o) /\ WalkStep(t)
        BY <2>1, <2>4, <3>1 DEF RequestStep, Continues
      <3>3. \A a : ~Finish(t, a)
        BY <1>0, <3>1, SMTT(30) DEF Finish, TypeInv
      <3>4. WalkPage(t)
        <4>1. o = Idle \/ IsWalk(o)
          BY <1>0, <3>2 DEF TypeInv
        <4>2. o.pc \in {"idle", "page"}
          BY <4>1 DEF Idle, IsWalk
        <4>3. ~Fails(t)
          BY <3>3 DEF Fails
        <4> QED  BY <1>3, <2>4, <4>2, <4>3
                 DEF Step, ReadRow, ReadSensors, ReadBack, MemoryWrite, MemoryAddSensor,
                     SqliteWriteRow, SqliteAddSensors, SqliteBatch, ClickHouseVersion,
                     ClickHouseInsert, ClickHouseSensors
      <3>5. PICK s \in Sorted(KeyOf(o), o.order) :
               Page(o, s) # <<>> /\ Goto(t, Walked(o, Page(o, s)))
        BY <3>3, <3>4, PageStep
      <3>6. p = Walked(o, Page(o, s)) /\ UNCHANGED <<rows, sens>>
        BY <1>0, <3>5 DEF Goto, TypeInv
      <3>7. IsWalk(o)
        BY <1>0, <3>2, <3>4 DEF TypeInv, WalkPage, Idle
      <3>8. WalkType(o) /\ WalkOk(o, KeyOf(o), backend)
        BY <1>0, <3>7, WalkFacts DEF IsWalk
      <3>9. IsWalk(p) /\ WalkType(p) /\ WalkOk(p, KeyOf(p), backend)
        BY <1>0, <3>5, <3>6, <3>7, <3>8, PageOk
      <3>10. WalkSees(p, p)
        BY <3>6 DEF WalkSees
      <3> QED  BY <2>2, <3>9, <3>10, WalkKept
    <2> QED  BY <2>3, <2>4
  <1> QED  BY <1>1, <1>2, <1>3 DEF Next


\* The step that ends a walk is its last request for a page.
LEMMA LastPage ==
    ASSUME RegistryInv, WalkInv, [Next]_vars, NEW t \in Tasks, NEW o, o = op[t],
           o.kind = "walk", op'[t] = Idle, answer'[t].result # "failed"
    PROVE  \E s \in Sorted(KeyOf(o), o.order) :
              \/ Page(o, s) = <<>> /\ answer'[t].result = "ok"
              \/ Page(o, s) # <<>> /\ o.pages + 1 = MaxPages
  <1>0. TypeInv
    BY DEF RegistryInv
  <1>1. IsWalk(o) /\ WalkType(o) /\ WalkOk(o, KeyOf(o), backend)
    BY <1>0, WalkFacts
  <1>2. o # Idle /\ ~IsRequest(o) /\ ~IsWalk(Idle)
    BY DEF Idle, IsRequest, IsWalk, Writes
  <1>3. ~(Tick \/ UNCHANGED vars)
    BY <1>2 DEF Tick, vars
  <1>4. ASSUME NEW u \in Tasks, Call(u) PROVE FALSE
    <2>1. \E b : Begin(u, b)
      BY <1>4, Zenon DEF Call, CallRegister, CallBatchRegister, CallUpdate, CallSuspend,
                         CallAddSensor, CallGet, CallWalk
    <2>2. op[u] = Idle /\ \E b : op' = [op EXCEPT ![u] = b]
      BY <2>1 DEF Begin
    <2>3. u # t
      BY <1>2, <2>2
    <2> QED  BY <1>0, <1>2, <2>2, <2>3 DEF TypeInv
  <1>5. PICK u \in Tasks : Step(u)
    BY <1>3, <1>4 DEF Next
  <1>6. u = t
    BY <1>2, <1>5, StepKinds DEF RequestStep, WalkStep
  <1>7. \A a : Finish(t, a) => answer'[t] = a
    BY <1>0 DEF Finish, TypeInv
  <1>8. \A x : Plain(x).result = x
    BY DEF Plain, Answer
  <1>9. WalkPage(t)
    <2>1. o.pc = "page"
      BY <1>1 DEF IsWalk
    <2>2. ~Fails(t)
      BY <1>7, <1>8 DEF Fails
    <2> QED  BY <1>5, <1>6, <2>1, <2>2
             DEF Step, ReadRow, ReadSensors, ReadBack, MemoryWrite, MemoryAddSensor,
                 SqliteWriteRow, SqliteAddSensors, SqliteBatch, ClickHouseVersion,
                 ClickHouseInsert, ClickHouseSensors
  <1>10. PICK s \in Sorted(KeyOf(o), o.order) :
            \/ Page(o, s) = <<>> /\ Finish(t, Plain("ok"))
            \/ Page(o, s) # <<>> /\ o.pages + 1 = MaxPages
            \/ Page(o, s) # <<>> /\ Goto(t, Walked(o, Page(o, s)))
    BY <1>9, PageStep
  <1>11. ~(Page(o, s) # <<>> /\ Goto(t, Walked(o, Page(o, s))))
    <2> SUFFICES ASSUME Page(o, s) # <<>>, Goto(t, Walked(o, Page(o, s)))
                 PROVE  FALSE
      OBVIOUS
    <2>1. IsWalk(Walked(o, Page(o, s)))
      BY <1>0, <1>1, PageOk
    <2>2. op'[t] = Walked(o, Page(o, s))
      BY <1>0 DEF Goto, TypeInv
    <2> QED  BY <1>2, <2>1, <2>2
  <1> QED  BY <1>7, <1>8, <1>10, <1>11


\* A walk that met no ties has got each entry once.
LEMMA WalkEnds ==
    ASSUME MaxPages > Cardinality(Ids), RegistryInv, WalkInv, [Next]_vars,
           NEW t \in Tasks, NEW o, o = op[t], o.kind = "walk", op'[t] = Idle,
           answer'[t].result # "failed", ~o.tied, ~Tied(o)
    PROVE  /\ (o.mode = "offset" /\ o.touched = {}) =>
                 /\ answer'[t].result = "ok"
                 /\ \A id \in Ids : Times(o.listed, id) = IF id \in o.start THEN 1 ELSE 0
           /\ (o.mode = "cursor" /\ backend = "memory" /\ o.touched \cap Range(o.listed) = {}) =>
                 /\ answer'[t].result = "ok"
                 /\ \A id \in o.start \ o.touched : Times(o.listed, id) = 1
  <1>0. TypeInv
    BY DEF RegistryInv
  <1>1. IsWalk(o) /\ WalkType(o) /\ WalkOk(o, KeyOf(o), backend)
    BY <1>0, WalkFacts
  <1> PICK D : D = Listed(o.filter)
    OBVIOUS
  <1> PICK key : key = KeyOf(o)
    OBVIOUS
  <1> PICK q : q = o.listed
    OBVIOUS
  <1>2. D \subseteq Ids /\ IsFiniteSet(D) /\ key \in [D -> Int] /\ DOMAIN key = D
    BY <1>0, <1>1, KeyOfType
  <1>3. PICK s \in Sorted(key, o.order) :
            \/ Page(o, s) = <<>> /\ answer'[t].result = "ok"
            \/ Page(o, s) # <<>> /\ o.pages + 1 = MaxPages
    BY LastPage
  <1> PICK page : page = Page(o, s)
    OBVIOUS
  <1>4. s \in Sorted(key, o.order)
    BY <1>3
  <1>5. Advances(o, s, page)
    BY <1>0, <1>1, <1>4, NextPage
  <1>6. ~(Len(q) + 1 <= Cardinality(D) /\ o.pages = Len(q) /\ o.pages + 1 = MaxPages)
    <2>1. Cardinality(D) <= Cardinality(Ids) /\ Cardinality(D) \in Nat /\ Cardinality(Ids) \in Nat
      BY <1>2, FS_Subset, FS_CardinalityType
    <2>2. o.pages \in Nat
      BY <1>1 DEF WalkType
    <2> QED  BY <2>1, <2>2
  <1>7. ASSUME o.mode = "offset", o.touched = {}
        PROVE  /\ answer'[t].result = "ok"
               /\ \A id \in Ids : Times(q, id) = IF id \in o.start THEN 1 ELSE 0
    <2>1. D = o.start /\ o.pages = Len(q)
      BY <1>1, <1>2, <1>7 DEF WalkOk
    <2>2. page = <<>> /\ answer'[t].result = "ok" /\ q = s
      BY <1>3, <1>5, <1>6, <1>7, <2>1 DEF Advances
    <2>3. /\ s \in Seq(D) /\ \A i, j \in 1 .. Len(s) : s[i] = s[j] => i = j
          /\ \A x \in D : \E i \in 1 .. Len(s) : s[i] = x
      BY <1>2, <1>4, SortedRows
    <2>4. ASSUME NEW id \in Ids
          PROVE  Times(s, id) = IF id \in D THEN 1 ELSE 0
      <3>1. (\E i \in 1 .. Len(s) : s[i] = id) <=> id \in D
        BY <2>3
      <3>2. Times(s, id) = IF \E i \in 1 .. Len(s) : s[i] = id THEN 1 ELSE 0
        BY <2>3, TimesListed
      <3> QED  BY <3>1, <3>2
    <2> QED  BY <2>1, <2>2, <2>4
  <1>8. ASSUME o.mode = "cursor", backend = "memory", o.touched \cap Range(q) = {}
        PROVE  /\ answer'[t].result = "ok"
               /\ \A id \in o.start \ o.touched : Times(q, id) = 1
    <2>1. Follows(q, key, o.order, o.start \ o.touched) /\ o.pages = Len(q)
      BY <1>1, <1>8 DEF WalkOk
    <2>2. GoesOn(D, key, o.order, o.start \ o.touched, q, page)
      BY <1>5, <1>8 DEF Advances
    <2>3. page = <<>> /\ answer'[t].result = "ok"
      BY <1>3, <1>6, <2>1, <2>2 DEF GoesOn
    <2>4. \A x \in o.start \ o.touched : \E i \in 1 .. Len(q) : q[i] = x
      BY <2>2, <2>3 DEF GoesOn
    <2>5. q \in Seq(D) /\ \A i, j \in 1 .. Len(q) : i < j => q[i] # q[j]
      BY <1>2, <2>1 DEF Follows
    <2>6. \A i, j \in 1 .. Len(q) : q[i] = q[j] => i = j
      BY <1>2, <2>5, ListedFits
    <2>7. ASSUME NEW id \in o.start \ o.touched
          PROVE  Times(q, id) = 1
      <3>1. \E i \in 1 .. Len(q) : q[i] = id
        BY <2>4
      <3>2. Times(q, id) = IF \E i \in 1 .. Len(q) : q[i] = id THEN 1 ELSE 0
        BY <2>5, <2>6, TimesListed
      <3> QED  BY <3>1, <3>2
    <2> QED  BY <2>3, <2>7
  <1> QED  BY <1>7, <1>8

\* The module's WalkComplete, for any number of entries, provided the client does not give
\* up before it could have seen every one: a list taken page by page has each matching
\* entry exactly once, by offset when nothing is written meanwhile, and with a cursor in
\* memory for the entries left alone among others that are registered, suspended and
\* updated between two pages.
THEOREM RegistryWalksComplete ==
    ASSUME MaxPages > Cardinality(Ids)
    PROVE  Spec => WalkComplete
  <1>1. RegistryInv /\ WalkInv /\ [Next]_vars => WalkInv'
    BY WalkInvStep
  <1>2. RegistryInv /\ WalkInv /\ [Next]_vars
          => [\A t \in Tasks :
                LET o == op[t]
                    times(id) == Cardinality({i \in DOMAIN o.listed : o.listed[i] = id})
                IN (o.kind = "walk" /\ op'[t] = Idle /\ answer'[t].result # "failed"
                      /\ ~o.tied /\ ~Tied(o)) =>
                       /\ (o.mode = "offset" /\ o.touched = {}) =>
                              answer'[t].result = "ok"
                              /\ \A id \in Ids : times(id) = IF id \in o.start THEN 1 ELSE 0
                       /\ (o.mode = "cursor" /\ backend = "memory"
                             /\ o.touched \cap Range(o.listed) = {}) =>
                              /\ answer'[t].result = "ok"
                              /\ \A id \in o.start \ o.touched : times(id) = 1]_vars
    <2> SUFFICES ASSUME RegistryInv, WalkInv, [Next]_vars, NEW t \in Tasks, NEW o, o = op[t],
                        o.kind = "walk", op'[t] = Idle, answer'[t].result # "failed",
                        ~o.tied, ~Tied(o)
                 PROVE  /\ (o.mode = "offset" /\ o.touched = {}) =>
                              /\ answer'[t].result = "ok"
                              /\ \A id \in Ids :
                                     Times(o.listed, id) = IF id \in o.start THEN 1 ELSE 0
                        /\ (o.mode = "cursor" /\ backend = "memory"
                              /\ o.touched \cap Range(o.listed) = {}) =>
                              /\ answer'[t].result = "ok"
                              /\ \A id \in o.start \ o.touched : Times(o.listed, id) = 1
      BY Zenon DEF Times
    <2> QED  BY WalkEnds
  <1> QED  BY <1>1, <1>2, WalkInvInit, RegistryInvariant, PTL DEF Spec, WalkComplete


=============================================================================

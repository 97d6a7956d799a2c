-------------------------- MODULE DispatchStorage --------------------------
(***************************************************************************)
(* The dispatcher's local buffer (ersha-dispatch/src/storage): one row per *)
(* sensor reading or device status, keyed by the record's ULID.  A row is  *)
(* created "pending" by the collector and becomes "uploaded" when the      *)
(* uploader marks it.  "none" stands for a key without a row.              *)
(*                                                                         *)
(* The readings and the statuses are two tables in the code.  Their keys   *)
(* are disjoint, so one function holds both and an operation on one table  *)
(* names the keys it is about.                                             *)
(***************************************************************************)
EXTENDS Naturals

CONSTANTS Readings,     \* ids of the sensor readings the edge may produce
          Statuses      \* ids of the device statuses the edge may produce

\* The two tables have different key types.
ASSUME TablesDisjoint == Readings \cap Statuses = {}

Records == Readings \cup Statuses

RowState == {"none", "pending", "uploaded"}

Tables == [Records -> RowState]

EmptyTables == [r \in Records |-> "none"]

\* store: the row of a freshly created id, in state Pending.
Store(tables, r) == [tables EXCEPT ![r] = "pending"]

\* fetch_pending of the table whose keys are keys.
FetchPending(tables, keys) == {r \in keys : tables[r] = "pending"}

\* mark_uploaded: every id that has a row becomes Uploaded.
MarkUploaded(tables, ids) ==
    [r \in Records |-> IF r \in ids /\ tables[r] # "none" THEN "uploaded" ELSE tables[r]]

=============================================================================

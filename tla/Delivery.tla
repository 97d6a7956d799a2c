------------------------------ MODULE Delivery ------------------------------
(***************************************************************************)
(* What a dispatcher with a durable buffer and ersha-prime promise         *)
(* together about a record: once buffered it stays buffered until prime    *)
(* has decided its fate, and only then is it acknowledged (and will not be *)
(* sent again).  Prime may decide more than once, a record may be sent     *)
(* again after a decision whose answer was lost: at-least-once delivery.   *)
(***************************************************************************)
CONSTANT Records

VARIABLES buffered,     \* waiting in the dispatcher's buffer
          acked,        \* marked as uploaded in the buffer
          settled       \* stored or refused by prime

vars == <<buffered, acked, settled>>

Init == buffered = {} /\ acked = {} /\ settled = {}

Buffer(r) ==
    /\ r \notin buffered \cup acked
    /\ buffered' = buffered \cup {r}
    /\ UNCHANGED <<acked, settled>>

Settle(S) ==
    /\ S \subseteq buffered \cup acked
    /\ settled' = settled \cup S
    /\ UNCHANGED <<buffered, acked>>

Acknowledge(S) ==
    /\ S \subseteq buffered \cap settled
    /\ buffered' = buffered \ S
    /\ acked' = acked \cup S
    /\ UNCHANGED settled

Next ==
    \/ \E r \in Records : Buffer(r)
    \/ \E S \in SUBSET Records : Settle(S) \/ Acknowledge(S)

Spec == Init /\ [][Next]_vars

=============================================================================

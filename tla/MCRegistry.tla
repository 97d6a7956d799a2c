----------------------------- MODULE MCRegistry -----------------------------
(* Values of the constants of Registry for model checking. *)
EXTENDS Registry

MCLocationOf == [id \in Ids |-> id % 2]

\* "ACME", "bolt" and no manufacturer; upper case comes first.
MCMakerOf ==
    [id \in Ids |-> CASE id = 1 -> {[word |-> "bolt", upper |-> FALSE, rank |-> 2]}
                      [] id = 2 -> {[word |-> "acme", upper |-> TRUE, rank |-> 1]}
                      [] OTHER  -> {}]

\* An active entry, a suspended one with its sensors, and none.
MCRegistered ==
    [id \in Ids |-> CASE id = 1 -> {[state |-> "active", sensors |-> {}]}
                      [] id = 2 -> {[state |-> "suspended", sensors |-> Sensors]}
                      [] OTHER  -> {}]

=============================================================================

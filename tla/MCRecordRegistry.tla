-------------------------- MODULE MCRecordRegistry --------------------------
(* Values of the constants of RecordRegistry for model checking: two records  *)
(* of one device within a second, and one of another device.                  *)
EXTENDS RecordRegistry

MCContent ==
    << [device |-> 1, sensor |-> 1, dispatcher |-> 1, metric |-> "soil", location |-> 1,
        level |-> 10, at |-> 2, errors |-> {0, 2}],
       [device |-> 1, sensor |-> 2, dispatcher |-> 1, metric |-> "air", location |-> 1,
        level |-> 20, at |-> 3, errors |-> {}],
       [device |-> 2, sensor |-> 3, dispatcher |-> 2, metric |-> "soil", location |-> 2,
        level |-> 10, at |-> 5, errors |-> {1}] >>

\* What is pending is uploaded again together with what came later.
MCBatches == {<<1, 2>>, <<1, 2, 3>>}

=============================================================================

------------------------------ MODULE MCSilverBatch ------------------------------
(***************************************************************************)
(* A small instance of SilverBatch: two versions of one key whose hashes   *)
(* run against their versions, a record that is refused, two hours.        *)
(***************************************************************************)
EXTENDS SilverBatch, TLC

Symmetry == Permutations(Runs)

MCItems ==
  { [key |-> 1, version |-> 1, extract |-> 1, hash |-> 3, valid |-> TRUE],
    [key |-> 1, version |-> 2, extract |-> 0, hash |-> 2, valid |-> TRUE],
    [key |-> 1, version |-> 3, extract |-> 0, hash |-> 1, valid |-> FALSE] }
==================================================================================

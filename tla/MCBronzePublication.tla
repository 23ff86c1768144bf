-------------------------- MODULE MCBronzePublication --------------------------
(***************************************************************************)
(* Small instances of BronzePublication for TLC: two callers, two source   *)
(* contents, two ingestion times.                                          *)
(***************************************************************************)
EXTENDS BronzePublication, TLC

(* Callers, contents and ingestion times are compared only for equality. *)
Symmetry == Permutations(Publishers) \cup Permutations(Contents) \cup Permutations(Stamps)
=================================================================================

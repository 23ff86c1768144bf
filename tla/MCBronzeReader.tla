----------------------------- MODULE MCBronzeReader -----------------------------
(***************************************************************************)
(* Two publishers of one identity, two source contents, two ingestion      *)
(* times, on either store, and a Silver job that reads what they commit.   *)
(***************************************************************************)
EXTENDS BronzeReader, TLC

(* Callers, contents and ingestion times are compared only for equality. *)
Symmetry == Permutations(Publishers) \cup Permutations(Contents) \cup Permutations(Stamps)
================================================================================

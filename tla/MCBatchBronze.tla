---------------------------- MODULE MCBatchBronze ----------------------------
(***************************************************************************)
(* Four attempts of one operation, at most three of which fail.            *)
(***************************************************************************)
EXTENDS BatchBronze

CONSTANTS a1, a2, a3, a4
===============================================================================

------------------------------ MODULE MCGoldOrders ------------------------------
(***************************************************************************)
(* Two orders over two business times, so that a later change may bear an  *)
(* earlier time, is equal in time, or deletes and inserts an order again.  *)
(***************************************************************************)
EXTENDS GoldOrders, TLC

Symmetry == Permutations(Orders)
================================================================================

----------------------------- MODULE MCCdcLedger -----------------------------
(***************************************************************************)
(* A small stream for CdcLedger, as DMS sends it.  Of one order: two       *)
(* snapshot rows of one coordinate, two changes of one transaction of      *)
(* which the second is a delete, an equal-LSN change of another            *)
(* transaction and a later insert; of a payment with the same primary key, *)
(* a delete that may arrive first; and records that the adapter refuses.   *)
(***************************************************************************)
EXTENDS CdcLedger, DmsAdapter, TLC

CONSTANTS id, t1, t2, v1, v2, plain, resent

MCKeys == Tables \X {id}

Order == [type |-> "data", schema |-> "commerce", table |-> "orders", key |-> id,
          complete |-> TRUE, raw |-> plain]

Payment == [Order EXCEPT !.table = "payments"]

Load(row, v, tx) ==
  row @@ [op |-> "load", data |-> v, lsn |-> Missing, tx |-> tx, rec |-> Missing]

Change(row, op, lsn, tx, rec, v) ==
  row @@ [op |-> op, data |-> v, lsn |-> lsn, tx |-> tx, rec |-> rec]

Delete(row, lsn, tx, rec) == [Change(row, "delete", lsn, tx, rec, v1) EXCEPT !.complete = FALSE]

Refusable ==
  { [Change(Order, "insert", <<1, 1>>, t1, 0, v1) EXCEPT !.type = "control"],
    [Change(Order, "insert", <<1, 1>>, t1, 0, v1) EXCEPT !.complete = FALSE],
    Change(Order, "update", <<1, 1>>, t1, Missing, v1),
    Change(Order, "truncate", <<1, 1>>, t1, 0, v1) }

MCEvents == EventsOf(Refusable \cup
  { Load(Order, v1, Missing),
    Load(Order, v2, t1),
    Change(Order, "update", <<0, 1>>, t1, 0, v1),
    Delete(Order, <<0, 1>>, t1, 1),
    Change(Order, "update", <<0, 1>>, t2, 0, v2),
    Change(Order, "insert", <<1, 0>>, t2, 0, v2),
    Delete(Payment, <<0, 1>>, t1, 1) })

(* The log of the liveness run: a delete that decides the key, in two      *)
(* renderings, and the older changes that may be replayed over it for ever. *)
MCShortLog == EventsOf(
  { Load(Order, v1, Missing),
    Change(Order, "update", <<0, 1>>, t1, 0, v1),
    Change(Order, "update", <<0, 1>>, t2, 0, v2),
    Delete(Order, <<1, 0>>, t2, 1),
    [Delete(Order, <<1, 0>>, t2, 1) EXCEPT !.raw = resent] })
=============================================================================

------------------------------ MODULE MCFlinkCdc ------------------------------
(***************************************************************************)
(* Small topics for FlinkCdc: two entities that share a primary key, every *)
(* order of three messages on the first: an update and a delete of one     *)
(* transaction, another event at their position, a later insert, replays   *)
(* of each of them, and values that are rejected or raise.                 *)
(***************************************************************************)
EXTENDS FlinkCdc

CONSTANTS t1, t2, k1

E(op, lsn, tx, order) ==
  [kind |-> "event", key |-> k1, op |-> op, lsn |-> lsn, tx |-> tx, order |-> order]

Good ==
  {E("u", 2, "tx1", 1), E("d", 2, "tx1", 2), E("c", 2, NoTx, 0), E("c", 3, NoTx, 0)}

Two == <<E("c", 2, NoTx, 0)>>

LogsOver(messages) ==
  {[t \in Topics |-> IF t = t1 THEN s ELSE Two] : s \in [1 .. 3 -> messages]}

MCLogs ==
  LogsOver(Good \cup {[kind |-> "invalid"]})
    \cup LogsOver({E("c", 3, NoTx, 0)} \cup [kind : {"tombstone", "untimed"}])

MCUnreadable ==
  {[t \in Topics |-> IF t = t1 THEN <<[kind |-> "unreadable"], E("c", 3, NoTx, 0)>> ELSE Two]}
===============================================================================

----------------------------- MODULE CdcOrdering -----------------------------
(***************************************************************************)
(* The ordering oracle of the DMS change stream: how two PostgreSQL        *)
(* coordinates compare (aws-native/mdep_cdc/ordering.py) and what a writer *)
(* decides about an incoming event given the row it has read.  The module  *)
(* has no state; the two writers, CdcStateStore and CdcLedger, use it.     *)
(***************************************************************************)
EXTENDS Integers

CONSTANTS
  Keys,     \* <entity, primary key> pairs
  Txs,      \* source transaction identifiers
  NoTx,     \* the absent transaction identifier of a snapshot record
  Data,     \* business payloads, up to record_hash
  Raws      \* renderings of one event: transport metadata the identity ignores

ASSUME NoTxAssumption == NoTx \notin Txs

(* transaction_record_id is never negative, so -1 stands for None. *)
NoRec == -1

SnapshotPosition == [phase |-> 0, lsn |-> 0, tx |-> NoTx, rec |-> NoRec]

Position ==
  {SnapshotPosition} \cup [phase : {1}, lsn : Nat, tx : Txs, rec : Nat]

Operation == {"load", "insert", "update", "delete"}

(* A typed mutation, as the adapter builds it: "load" records, and only    *)
(* they, sit in the snapshot phase.                                        *)
Event ==
  {e \in [key : Keys, op : Operation, pos : Position, data : Data, raw : Raws] :
     e.op = "load" <=> e.pos.phase = 0}

(* event_hash covers key, operation, position and record_hash, not the     *)
(* transport metadata; SHA-256 is taken to be collision-free.              *)
EventHash(e) == [key |-> e.key, op |-> e.op, pos |-> e.pos, data |-> e.data]

-----------------------------------------------------------------------------
(* Mutants: the record id within a transaction is not compared; an equal   *)
(* LSN of another transaction counts as newer.                             *)
CompareChangesByLsnOnly(p, q) ==
  IF p.lsn # q.lsn THEN IF p.lsn > q.lsn THEN "newer" ELSE "older"
  ELSE IF p.tx # q.tx THEN "incomparable" ELSE "same"

CompareChangesOtherTxWins(p, q) ==
  IF p.lsn # q.lsn THEN IF p.lsn > q.lsn THEN "newer" ELSE "older"
  ELSE IF p.tx # q.tx THEN "newer"
  ELSE IF p.rec = q.rec THEN "same"
  ELSE IF p.rec > q.rec THEN "newer" ELSE "older"

(* The LSN decides; an equal LSN is ordered only within one transaction. *)
CompareChanges(p, q) ==
  IF p.lsn # q.lsn THEN IF p.lsn > q.lsn THEN "newer" ELSE "older"
  ELSE IF p.tx # q.tx \/ p.rec = NoRec \/ q.rec = NoRec THEN "incomparable"
  ELSE IF p.rec = q.rec THEN "same"
  ELSE IF p.rec > q.rec THEN "newer" ELSE "older"

(* compare_positions(incoming, current), its early returns in their order. *)
ComparePositions(p, q) ==
  IF p.phase # q.phase THEN IF p.phase > q.phase THEN "newer" ELSE "older"
  ELSE IF p.phase = 0 THEN "same"
  ELSE CompareChanges(p, q)

(* Mutant: every equal coordinate is taken for a replay. *)
DecideByCoordinate(e, pos, hash) ==
  LET order == ComparePositions(e.pos, pos)
  IN CASE order = "incomparable" -> "incomparable"
       [] order = "older" -> "stale"
       [] order = "same" -> "duplicate"
       [] order = "newer" -> IF e.op = "delete" THEN "applied_delete" ELSE "applied_update"

(* decide(incoming, current_position, current_event_hash) *)
Decide(e, pos, hash) ==
  LET order == ComparePositions(e.pos, pos)
  IN CASE order = "incomparable" -> "incomparable"
       [] order = "older" -> "stale"
       [] order = "same" -> IF EventHash(e) = hash THEN "duplicate" ELSE "conflict"
       [] order = "newer" -> IF e.op = "delete" THEN "applied_delete" ELSE "applied_update"

(* Mutant: the delete of an unknown key is nothing to do. *)
DecideWithoutRowIgnoresDelete(e) ==
  IF e.op = "delete" THEN "duplicate" ELSE "applied_insert"

(* Without a row any event is applied, a delete as a first tombstone. *)
DecideWithoutRow(e) ==
  IF e.op = "delete" THEN "applied_delete" ELSE "applied_insert"

Applied == {"applied_insert", "applied_update", "applied_delete"}

Rejected == {"stale", "conflict", "incomparable"}

Decision == Applied \cup Rejected \cup {"duplicate"}

(* The reason a rejected event is quarantined under. *)
Reason(decision) ==
  CASE decision = "stale"        -> "stale_source_position"
    [] decision = "conflict"     -> "same_position_different_content"
    [] decision = "incomparable" -> "incomparable_source_position"

Reasons == {Reason(d) : d \in Rejected}

-----------------------------------------------------------------------------
(* The source order of ADR-0003, written down independently of the code:   *)
(* the snapshot before every change, changes by LSN, and within one LSN    *)
(* only records of one transaction, by record id.                          *)
Precedes(p, q) ==
  \/ p.phase < q.phase
  \/ /\ p.phase = 1 /\ q.phase = 1
     /\ \/ p.lsn < q.lsn
        \/ p.lsn = q.lsn /\ p.tx = q.tx /\ p.rec < q.rec
=============================================================================

------------------------------ MODULE DmsAdapter ------------------------------
(***************************************************************************)
(* The adapter of the change stream (aws-native/mdep_cdc/dms_adapter.py):  *)
(* which DMS records of the stream become events, and which.  A record     *)
(* gives each field the adapter looks at, or Missing where it is absent,   *)
(* empty or malformed; a record that is no JSON object with metadata has   *)
(* no type.  A refused record raises and gives no event.                   *)
(***************************************************************************)
EXTENDS CdcOrdering

CONSTANTS
  SourceSchema, \* the schema DMS replicates
  Tables,       \* tables with an entity contract
  Word,         \* values of the low half of an LSN: 2^32
  Missing       \* no value, or none the adapter can read

ASSUME WordAssumption == Word \in Nat \ {0}

(* parse, its checks up to the position; the first that fails is the       *)
(* reason.  A delete needs no business fields beside its key.              *)
Refused(r) ==
  \/ r.type # "data"
  \/ r.op \notin Operation
  \/ r.schema # SourceSchema
  \/ r.table \notin Tables
  \/ r.data = Missing
  \/ r.key = Missing
  \/ r.op # "delete" /\ ~ r.complete
  \/ r.op # "load" /\ (r.lsn = Missing \/ r.tx = Missing \/ r.rec = Missing)

(* parse_lsn, of the two hexadecimal halves. *)
Lsn(halves) == halves[1] * Word + halves[2]

(* _position: a load has none, whatever its metadata says. *)
PositionOf(r) ==
  IF r.op = "load" THEN SnapshotPosition
  ELSE [phase |-> 1, lsn |-> Lsn(r.lsn), tx |-> r.tx, rec |-> r.rec]

Parse(r) ==
  [key |-> <<r.table, r.key>>, op |-> r.op, pos |-> PositionOf(r), data |-> r.data, raw |-> r.raw]

EventsOf(records) == {Parse(r) : r \in {x \in records : ~ Refused(x)}}
===============================================================================

------------------------------ MODULE CdcLedger ------------------------------
(***************************************************************************)
(* The Iceberg writer of the change stream                                 *)
(* (aws-native/mdep_cdc/iceberg_writer.py).  apply_iceberg_event reads the *)
(* key's row, decides from what it read, and then runs one MERGE on the    *)
(* ledger or one on the quarantine table; the two are separate Spark       *)
(* actions and the ledger MERGE does not repeat the comparison.  A writer  *)
(* may die before its MERGE commits, or after and before the caller has    *)
(* the result, and the stream redelivers.  The repository calls for one    *)
(* canonical writer per table (architecture.md, principle 3).              *)
(***************************************************************************)
EXTENDS CdcOrdering

CONSTANTS
  Events,   \* the events of the source log that may be delivered
  Writers,  \* processes running apply_iceberg_event
  NoRow,    \* a key without a row
  NoEvent   \* an idle writer's event

ASSUME EventsAssumption == Events \subseteq Event
ASSUME NoEventAssumption == NoEvent \notin Events
ASSUME OneCanonicalWriter == \A v, w \in Writers : v = w

VARIABLES
  table,      \* core_<entity>: the row of each key
  quarantine, \* cdc_quarantine: its quarantine_id column
  pc,         \* where each writer is in apply_iceberg_event
  job,        \* the event each writer is applying
  decision,   \* what it decided from the row it read
  committed,  \* history: the events whose effect is in the tables
  handled     \* history: the events apply_iceberg_event has returned for

vars == <<table, quarantine, pc, job, decision, committed, handled>>

-----------------------------------------------------------------------------
(* The physical row: no phase column, source_lsn holds a sentinel instead. *)
StoredRow(e) ==
  [ snapshot   |-> e.pos.phase = 0,
    lsn        |-> e.pos.lsn,
    tx         |-> e.pos.tx,
    rec        |-> e.pos.rec,
    is_deleted |-> e.op = "delete",
    winner     |-> e ]

Rows == {StoredRow(e) : e \in Events}

ASSUME NoRowAssumption == NoRow \notin Rows \cup Events

(* Mutant: a snapshot row read back as a change at LSN 0. *)
CurrentPositionIgnoresSentinel(row) ==
  [phase |-> 1, lsn |-> row.lsn, tx |-> row.tx, rec |-> row.rec]

(* _current_position: the coordinate read back from the columns *)
CurrentPosition(row) ==
  [phase |-> IF row.snapshot THEN 0 ELSE 1, lsn |-> row.lsn, tx |-> row.tx, rec |-> row.rec]

QuarantineId(e, d) == [hash |-> EventHash(e), reason |-> Reason(d)]

DecisionOn(e, row) ==
  IF row = NoRow THEN DecideWithoutRow(e)
  ELSE Decide(e, CurrentPosition(row), EventHash(row.winner))

TypeOK ==
  /\ table \in [Keys -> Rows \cup {NoRow}]
  /\ quarantine \subseteq [hash : {EventHash(e) : e \in Events}, reason : Reasons]
  /\ pc \in [Writers -> {"idle", "merge", "quarantine", "return"}]
  /\ job \in [Writers -> Events \cup {NoEvent}]
  /\ decision \in [Writers -> Applied \cup Rejected \cup {"none"}]
  /\ committed \subseteq Events
  /\ handled \subseteq committed

Init ==
  /\ table = [k \in Keys |-> NoRow]
  /\ quarantine = {}
  /\ pc = [w \in Writers |-> "idle"]
  /\ job = [w \in Writers |-> NoEvent]
  /\ decision = [w \in Writers |-> "none"]
  /\ committed = {}
  /\ handled = {}

-----------------------------------------------------------------------------
(* The read and the decision.  A duplicate returns at once. *)
ReadRow(w, e) ==
  LET d == DecisionOn(e, table[e.key])
  IN /\ pc[w] = "idle"
     /\ \/ /\ d = "duplicate"
           /\ committed' = committed \cup {e}
           /\ handled' = handled \cup {e}
           /\ UNCHANGED <<pc, job, decision>>
        \/ /\ d # "duplicate"
           /\ pc' = [pc EXCEPT ![w] = IF d \in Rejected THEN "quarantine" ELSE "merge"]
           /\ job' = [job EXCEPT ![w] = e]
           /\ decision' = [decision EXCEPT ![w] = d]
           /\ UNCHANGED <<committed, handled>>
     /\ UNCHANGED <<table, quarantine>>

(* The MERGE of the writer's event commits; its result is not returned yet. *)
Commit(w) ==
  /\ pc' = [pc EXCEPT ![w] = "return"]
  /\ committed' = committed \cup {job[w]}
  /\ UNCHANGED <<job, decision, handled>>

(* MERGE INTO core_<entity>: WHEN MATCHED THEN UPDATE SET *, unconditional. *)
MergeRow(w) ==
  /\ pc[w] = "merge"
  /\ table' = [table EXCEPT ![job[w].key] = StoredRow(job[w])]
  /\ UNCHANGED quarantine
  /\ Commit(w)

(* Mutant: an incomparable event raises instead of being quarantined. *)
MergeQuarantineRaises(w) ==
  /\ pc[w] = "quarantine" /\ decision[w] # "incomparable"
  /\ quarantine' = quarantine \cup {QuarantineId(job[w], decision[w])}
  /\ UNCHANGED table
  /\ Commit(w)

(* MERGE INTO cdc_quarantine: WHEN NOT MATCHED THEN INSERT. *)
MergeQuarantine(w) ==
  /\ pc[w] = "quarantine"
  /\ quarantine' = quarantine \cup {QuarantineId(job[w], decision[w])}
  /\ UNCHANGED table
  /\ Commit(w)

Leave(w) ==
  /\ pc' = [pc EXCEPT ![w] = "idle"]
  /\ job' = [job EXCEPT ![w] = NoEvent]
  /\ decision' = [decision EXCEPT ![w] = "none"]
  /\ UNCHANGED <<table, quarantine, committed>>

(* The view is dropped and the caller gets the result. *)
Return(w) ==
  /\ pc[w] = "return"
  /\ handled' = handled \cup {job[w]}
  /\ Leave(w)

(* Mutant: the event was acknowledged before its MERGE committed. *)
CrashAfterAck(w) ==
  /\ pc[w] # "idle"
  /\ handled' = handled \cup {job[w]}
  /\ Leave(w)

(* The process dies, or its MERGE fails to commit, or it dies when the     *)
(* MERGE has committed: the caller has no result, and the event comes again *)
Crash(w) ==
  /\ pc[w] # "idle"
  /\ UNCHANGED handled
  /\ Leave(w)

Merge(w) == MergeRow(w) \/ MergeQuarantine(w)

Next ==
  \E w \in Writers :
    \/ \E e \in Events : ReadRow(w, e)
    \/ Merge(w)
    \/ Return(w)
    \/ Crash(w)

Spec == Init /\ [][Next]_vars

(* An event the stream has not had acknowledged is delivered again, and a  *)
(* writer that is not killed each time gets its MERGE committed: Kinesis   *)
(* retains a record until the consumer's checkpoint has moved past it.     *)
(* After the commit the call ends, but nothing says that it ever returns.  *)
Unhandled(w, e) == e \notin handled /\ ReadRow(w, e)

MergeOf(w, e) == pc[w] # "idle" /\ job[w] = e /\ Merge(w)

End(w) == pc[w] = "return" /\ (Return(w) \/ Crash(w))

Fairness ==
  \A w \in Writers :
    /\ \A e \in Events : SF_vars(Unhandled(w, e)) /\ SF_vars(MergeOf(w, e))
    /\ WF_vars(End(w))

FairSpec == Spec /\ Fairness

-----------------------------------------------------------------------------
RowPosition(k) == CurrentPosition(table[k])

RowHash(k) == EventHash(table[k].winner)

(* Every event the writer has returned for is accounted for: it is the     *)
(* row, the row is strictly newer, or its evidence is in quarantine        *)
(* (ADR-0003: rejected events fail closed and retain evidence).            *)
EventAccounted ==
  \A e \in handled :
    /\ table[e.key] # NoRow
    /\ \/ RowHash(e.key) = EventHash(e)
       \/ Precedes(e.pos, RowPosition(e.key))
       \/ \E r \in Reasons : [hash |-> EventHash(e), reason |-> r] \in quarantine

(* No event the writer has returned for is newer than its key's row, so a  *)
(* late delete or update is never dropped in favour of an older row.       *)
NewestWins ==
  \A e \in handled : ~ Precedes(RowPosition(e.key), e.pos)

(* Whatever the arrival order, duplicates and crashes, an event strictly   *)
(* newer than every other one that took effect for its key owns the key's  *)
(* row, whether or not the caller was ever told of either.                 *)
OrderIndependent ==
  \A e \in committed :
    (\A f \in committed : f.key = e.key /\ EventHash(f) # EventHash(e) => Precedes(f.pos, e.pos))
      => table[e.key] # NoRow /\ RowHash(e.key) = EventHash(e)

(* An event with quarantine evidence is not, and never again becomes, the  *)
(* current state of its key (ADR-0003: they never overwrite it).           *)
QuarantinedNeverCurrent ==
  \A q \in quarantine :
    /\ table[q.hash.key] # NoRow
    /\ RowHash(q.hash.key) # q.hash
    /\ ~ Precedes(RowPosition(q.hash.key), q.hash.pos)

(* A row only ever changes to a strictly newer coordinate: a tombstone is  *)
(* not resurrected by a delayed update, nor the checkpoint moved back, and *)
(* an exact replay leaves even the raw rendering alone.                    *)
CheckpointAdvances ==
  [][\A k \in Keys :
       table[k] # NoRow /\ table'[k] # table[k]
         => /\ table'[k] # NoRow
            /\ Precedes(CurrentPosition(table[k]), CurrentPosition(table'[k]))]_vars

(* The separate read, MERGE and return act as atomic applies of the        *)
(* oracle: the MERGE as one whose result is lost, the return as one more   *)
(* apply of the same event, which finds its effect in place.               *)
Oracle ==
  INSTANCE CdcStateStore
    WITH state <- [k \in Keys |-> IF table[k] = NoRow THEN NoRow ELSE table[k].winner]

ImplementsOracle == Oracle!Spec

(* The newest change of a key, where the log has one newer than all others. *)
Newest(k) ==
  {e \in Events :
     /\ e.key = k
     /\ \A f \in Events : f.key = k /\ EventHash(f) # EventHash(e) => Precedes(f.pos, e.pos)}

(* Despite crashes, and however often older events are replayed, the row   *)
(* of a key ends up as, and stays, the newest change of the source log.    *)
Converges ==
  <>[](\A k \in Keys : \A e \in Newest(k) : table[k] # NoRow /\ RowHash(k) = EventHash(e))
=============================================================================

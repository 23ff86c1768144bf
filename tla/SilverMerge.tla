------------------------------ MODULE SilverMerge ------------------------------
(***************************************************************************)
(* The Bronze-to-Silver reference job                                      *)
(* (aws-native/mdep_silver/spark_job.py): process_verified_batch merges a  *)
(* verified batch into a current-state table, its rejected rows into a     *)
(* quarantine table and its counts into a reconciliation table, each with  *)
(* its own Iceberg commit, and then acknowledges.  "Every write is         *)
(* retry-safe but not cross-table atomic": a job may die between any two,  *)
(* and an operator runs the same manifest again.  The table is read once   *)
(* to classify the winners and again inside the MERGE.                     *)
(*                                                                         *)
(* A Bronze batch is immutable and verified.  Iceberg commits are          *)
(* serializable: one MERGE is one step.  Timestamps and hashes are         *)
(* numbers; 0 is an absent source_extract_ts, which the MERGE coalesces to *)
(* 1900 and the ranking puts last.                                         *)
(***************************************************************************)
EXTENDS Integers, FiniteSets

CONSTANTS
  Keys,     \* business keys of the entity
  Batches,  \* committed batches: a manifest and the rows of its data object
  Jobs,     \* running Silver jobs
  NoRow,    \* a key without a row
  NoBatch   \* an idle job's batch

(* A transformed row: "none" is the reason of a row that is not rejected.  *)
(* Its locator tells it from every other row of its batch.                 *)
Row ==
  [ key : Keys, version : Nat, extract : Nat, ingested : Nat, hash : Nat,
    manifest : {b.manifest : b \in Batches}, locator : Nat, reason : STRING ]

ASSUME BatchesAssumption ==
  \A b \in Batches :
    /\ b.rows \subseteq Row /\ IsFiniteSet(b.rows)
    /\ \A r \in b.rows : r.manifest = b.manifest
    /\ \A r, q \in b.rows : r.locator = q.locator => r = q

ASSUME ManifestsAssumption == \A b, c \in Batches : b.manifest = c.manifest => b = c

ASSUME NothingAssumption == NoRow \notin Row /\ NoBatch \notin Batches

VARIABLES
  table,          \* ref_<entity>: the row of each key
  quarantine,     \* silver_quarantine: its quarantine_id column
  reconciliation, \* processing_reconciliation: the recorded results
  pc,             \* where each job is in process_verified_batch
  job,            \* the batch each job processes
  outcome,        \* the inserted, updated and unchanged counts of each job
  merged,         \* history: batches a job has merged or found nothing to do for
  acked           \* history: batches acknowledged

tables == <<table, quarantine, reconciliation>>

vars == <<table, quarantine, reconciliation, pc, job, outcome, merged, acked>>

-----------------------------------------------------------------------------
(* Mutant: arrival decides before extraction, and no hash breaks a tie. *)
NewerByArrival(s, t) ==
  \/ s.version > t.version
  \/ s.version = t.version /\ s.ingested > t.ingested
  \/ s.version = t.version /\ s.ingested = t.ingested /\ s.extract > t.extract

(* newer_than_sql *)
Newer(s, t) ==
  \/ s.version > t.version
  \/ s.version = t.version /\ s.extract > t.extract
  \/ s.version = t.version /\ s.extract = t.extract /\ s.ingested > t.ingested
  \/ s.version = t.version /\ s.extract = t.extract /\ s.ingested = t.ingested
       /\ s.hash > t.hash

(* The window order of deduplicate: by freshness, then by source locator. *)
RanksBefore(r, q) == Newer(r, q) \/ (~ Newer(q, r) /\ r.locator < q.locator)

Valid(b) == {r \in b.rows : r.reason = "none"}

(* _rank = 1 *)
Winners(b) ==
  {r \in Valid(b) : \A q \in Valid(b) \ {r} : q.key = r.key => RanksBefore(r, q)}

Duplicates(b) == Valid(b) \ Winners(b)

Invalid(b) == b.rows \ Valid(b)

(* Mutant: the locator is not part of the evidence's identity. *)
EvidenceIdByContent(r, reason) ==
  [manifest |-> r.manifest, locator |-> 0, hash |-> r.hash, reason |-> reason]

(* quarantine_id *)
EvidenceId(r, reason) ==
  [manifest |-> r.manifest, locator |-> r.locator, hash |-> r.hash, reason |-> reason]

Evidence(b) ==
  {EvidenceId(r, r.reason) : r \in Invalid(b)}
    \cup {EvidenceId(r, "duplicate_business_key_non_winner") : r \in Duplicates(b)}

-----------------------------------------------------------------------------
(* The outcomes of the classifying join, against the current table. *)
Inserts(b) == {w \in Winners(b) : table[w.key] = NoRow}

(* Mutant: WHEN MATCHED THEN UPDATE, without the comparison. *)
UpdatesMatched(b) == {w \in Winners(b) : table[w.key] # NoRow}

Updates(b) == {w \in Winners(b) : table[w.key] # NoRow /\ Newer(w, table[w.key])}

Counts(b) ==
  [ inserted  |-> Cardinality(Inserts(b)),
    updated   |-> Cardinality(Updates(b)),
    unchanged |-> Cardinality(Winners(b) \ (Inserts(b) \cup Updates(b))) ]

NoCounts == [inserted |-> 0, updated |-> 0, unchanged |-> 0]

Init ==
  /\ table = [k \in Keys |-> NoRow]
  /\ quarantine = {}
  /\ reconciliation = {}
  /\ pc = [j \in Jobs |-> "idle"]
  /\ job = [j \in Jobs |-> NoBatch]
  /\ outcome = [j \in Jobs |-> NoCounts]
  /\ merged = {}
  /\ acked = {}

Goto(j, label) == pc' = [pc EXCEPT ![j] = label]

(* A run for one manifest, whether or not it has been run before. *)
Start(j, b) ==
  /\ pc[j] = "idle"
  /\ job' = [job EXCEPT ![j] = b]
  /\ outcome' = [outcome EXCEPT ![j] = NoCounts]
  /\ Goto(j, "classify")
  /\ UNCHANGED <<tables, merged, acked>>

(* Mutant: a batch without a new key is taken for an exact replay. *)
NothingNewIgnoresUpdates(counts) == counts.inserted = 0

(* The early return of _merge_business. *)
NothingNew(counts) == counts.inserted = 0 /\ counts.updated = 0

(* The classification, and the early return when no row would change. *)
Classify(j) ==
  /\ pc[j] = "classify"
  /\ outcome' = [outcome EXCEPT ![j] = Counts(job[j])]
  /\ \/ /\ NothingNew(Counts(job[j]))
        /\ merged' = merged \cup {job[j]}
        /\ Goto(j, "quarantine")
     \/ /\ ~ NothingNew(Counts(job[j]))
        /\ Goto(j, "merge")
        /\ UNCHANGED merged
  /\ UNCHANGED <<tables, job, acked>>

(* MERGE INTO ref_<entity>, which repeats the freshness comparison. *)
MergeBusiness(j) ==
  /\ pc[j] = "merge"
  /\ table' = [k \in Keys |->
                 IF \E w \in Inserts(job[j]) \cup Updates(job[j]) : w.key = k
                 THEN CHOOSE w \in Inserts(job[j]) \cup Updates(job[j]) : w.key = k
                 ELSE table[k]]
  /\ merged' = merged \cup {job[j]}
  /\ Goto(j, "quarantine")
  /\ UNCHANGED <<quarantine, reconciliation, job, outcome, acked>>

(* MERGE INTO silver_quarantine: WHEN NOT MATCHED THEN INSERT. *)
MergeQuarantine(j) ==
  /\ pc[j] = "quarantine"
  /\ quarantine' = quarantine \cup Evidence(job[j])
  /\ Goto(j, "record")
  /\ UNCHANGED <<table, reconciliation, job, outcome, merged, acked>>

ResultOf(j) ==
  [ manifest   |-> job[j].manifest,
    input      |-> Cardinality(job[j].rows),
    rejected   |-> Cardinality(Invalid(job[j])),
    duplicates |-> Cardinality(Duplicates(job[j])),
    winners    |-> Cardinality(Winners(job[j])),
    counts     |-> outcome[j] ]

(* Mutant: every run is recorded, replays over the first run. *)
RecordEveryRun(j) ==
  /\ pc[j] = "record"
  /\ reconciliation' = {r \in reconciliation : r.manifest # job[j].manifest} \cup {ResultOf(j)}
  /\ Goto(j, "acknowledge")
  /\ UNCHANGED <<table, quarantine, job, outcome, merged, acked>>

(* MERGE INTO processing_reconciliation, keyed by the manifest. *)
Record(j) ==
  /\ pc[j] = "record"
  /\ reconciliation' =
       IF \E r \in reconciliation : r.manifest = job[j].manifest
       THEN reconciliation ELSE reconciliation \cup {ResultOf(j)}
  /\ Goto(j, "acknowledge")
  /\ UNCHANGED <<table, quarantine, job, outcome, merged, acked>>

Stop(j) ==
  /\ Goto(j, "idle")
  /\ job' = [job EXCEPT ![j] = NoBatch]
  /\ outcome' = [outcome EXCEPT ![j] = NoCounts]

Acknowledge(j) ==
  /\ pc[j] = "acknowledge"
  /\ acked' = acked \cup {job[j]}
  /\ Stop(j)
  /\ UNCHANGED <<tables, merged>>

(* The job dies, a commit is refused, or the acknowledgment raises. *)
Crash(j) ==
  /\ pc[j] # "idle"
  /\ Stop(j)
  /\ UNCHANGED <<tables, merged, acked>>

Next ==
  \E j \in Jobs :
    \/ \E b \in Batches : Start(j, b)
    \/ Classify(j) \/ MergeBusiness(j) \/ MergeQuarantine(j) \/ Record(j) \/ Acknowledge(j)
    \/ Crash(j)

Spec == Init /\ [][Next]_vars

-----------------------------------------------------------------------------
TypeOK ==
  /\ table \in [Keys -> Row \cup {NoRow}]
  /\ quarantine \subseteq UNION {Evidence(b) : b \in Batches}
  /\ reconciliation \subseteq
       [ manifest : {b.manifest : b \in Batches}, input : Nat, rejected : Nat,
         duplicates : Nat, winners : Nat,
         counts : [inserted : Nat, updated : Nat, unchanged : Nat] ]
  /\ pc \in [Jobs -> {"idle", "classify", "merge", "quarantine", "record", "acknowledge"}]
  /\ job \in [Jobs -> Batches \cup {NoBatch}]
  /\ outcome \in [Jobs -> [inserted : Nat, updated : Nat, unchanged : Nat]]
  /\ merged \subseteq Batches
  /\ acked \subseteq Batches

(* Whatever the order of batches, their replays, crashes and the jobs that *)
(* run at once, no merged batch holds a valid row fresher than the current *)
(* one (architecture.md:106: an older version cannot win).                 *)
FreshestWins ==
  \A b \in merged : \A r \in Valid(b) :
    table[r.key] # NoRow /\ ~ Newer(r, table[r.key])

(* A row changes only to a fresher one: replays and late batches never     *)
(* take the table back, and an exact replay changes nothing.               *)
RowsAdvance ==
  [][\A k \in Keys : table[k] # NoRow /\ table'[k] # table[k]
       => table'[k] # NoRow /\ Newer(table'[k], table[k])]_vars

(* The reconciliation row is the last write before the acknowledgment: a   *)
(* manifest that has one is finished, its winners merged and each rejected *)
(* or losing row, identical occurrences included, in quarantine by itself. *)
RecordedIsFinished ==
  /\ \A b \in acked : \E r \in reconciliation : r.manifest = b.manifest
  /\ \A r \in reconciliation : \A b \in Batches :
       b.manifest = r.manifest =>
         /\ b \in merged
         /\ Cardinality({q \in quarantine : q.manifest = b.manifest}) = r.rejected + r.duplicates
         /\ r.winners = Cardinality({x.key : x \in Valid(b)})

(* A recorded reconciliation is the one of the first finished run: the     *)
(* counts of a replay, which changes nothing, never take its place.        *)
FirstResultStands == [][reconciliation \subseteq reconciliation']_vars

(* validate_backfill's verdict on one historical row *)
BackfillStatus(i) ==
  LET c == table[i.key]
  IN CASE c = NoRow -> "missing"
       [] c # NoRow /\ c.hash = i.hash -> "exact"
       [] c # NoRow /\ c.hash # i.hash /\ Newer(c, i) -> "superseded"
       [] c # NoRow /\ c.hash # i.hash /\ ~ Newer(c, i) -> "conflict"

(* The backfill validator accepts every merged batch that has neither      *)
(* rejected nor duplicate rows, however far the table has moved on since.  *)
BackfillAccepts ==
  \A b \in merged :
    b.rows = Winners(b) => \A i \in b.rows : BackfillStatus(i) \in {"exact", "superseded"}
================================================================================

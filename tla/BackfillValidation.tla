--------------------------- MODULE BackfillValidation ---------------------------
(***************************************************************************)
(* The read-only validation of an approved backfill                        *)
(* (aws-native/mdep_silver/backfill_validation.py and its EMR entry point  *)
(* emr/aws08_backfill_validation_job.py) beside the Silver jobs that go on *)
(* merging.  One entity: the loop does the same for the other's table, and *)
(* a refusal of either raises before anything is reported.                 *)
(*                                                                         *)
(* A snapshot is named by the contents it has: rows only advance, so equal *)
(* contents are consecutive snapshots.  A Silver table other writers have  *)
(* damaged (its schema, its keys, its values) is outside the model.        *)
(***************************************************************************)
EXTENDS SilverMerge

CONSTANTS
  Requests,  \* sets of verified batches an operator may have validated
  NoReport   \* no object at the report key, nothing cached

ASSUME RequestsAssumption == \A q \in Requests : q \subseteq Batches /\ IsFiniteSet(q)

(* The hash is that of the source's payload (models.py:224), which holds   *)
(* the version and the extraction time (extractors.py:121,216) but not the *)
(* time of ingestion: a batch may bring the same content again, later.     *)
ASSUME HashAssumption ==
  \A b, c \in Batches : \A r \in b.rows : \A q \in c.rows :
    r.key = q.key /\ r.hash = q.hash => r.version = q.version /\ r.extract = q.extract

VARIABLES
  request,   \* manifest_keys, as the validation identity fixes them
  checking,  \* where the validation is
  cached,    \* current, as the validation cached it
  report,    \* the object at validation/reports/<identity>.json
  verdict    \* how the last run of the identity ended

validation == <<request, checking, cached, report, verdict>>

-----------------------------------------------------------------------------
historical == UNION {b.rows : b \in request}

(* The reasons validate_backfill gives before it reads Silver. *)
InputSound ==
  /\ \A i \in historical : i.reason = "none"
  /\ \A i, q \in historical : i.key = q.key => i = q

(* Mutant: the comparison of the MERGE read the wrong way round. *)
StatusInverted(i, c) ==
  IF c = NoRow THEN "missing" ELSE IF c.hash = i.hash THEN "exact"
  ELSE IF Newer(i, c) THEN "superseded" ELSE "conflict"

(* Mutant: any other row of the key counts as a newer one. *)
StatusTrusting(i, c) ==
  IF c = NoRow THEN "missing" ELSE IF c.hash = i.hash THEN "exact" ELSE "superseded"

(* The join's verdict on a historical row i and the key's current row c. *)
Status(i, c) ==
  IF c = NoRow THEN "missing" ELSE IF c.hash = i.hash THEN "exact"
  ELSE IF Newer(c, i) THEN "superseded" ELSE "conflict"

Count(current, status) == Cardinality({i \in historical : Status(i, current[i.key]) = status})

(* Rows of an approved manifest whose key its own data does not have. *)
Unexpected(current) ==
  {k \in Keys : /\ current[k] # NoRow
                /\ current[k].manifest \in {b.manifest : b \in request}
                /\ k \notin {i.key : i \in historical}}

Unrelated(current) == {k \in Keys : current[k] # NoRow /\ k \notin {i.key : i \in historical}}

Accepts(current) ==
  /\ Count(current, "missing") = 0
  /\ Count(current, "conflict") = 0
  /\ Unexpected(current) = {}

-----------------------------------------------------------------------------
ValidationInit ==
  /\ Init
  /\ request \in Requests
  /\ checking = "idle" /\ cached = NoReport /\ report = NoReport /\ verdict = "none"

End(v) ==
  /\ checking' = "idle" /\ cached' = NoReport /\ verdict' = v
  /\ UNCHANGED request

(* current.cache(), and every check of it. *)
Validate ==
  /\ checking = "idle"
  /\ \/ /\ InputSound /\ Accepts(table)
        /\ checking' = "report" /\ cached' = table /\ verdict' = "none"
        /\ UNCHANGED request
     \/ /\ ~ (InputSound /\ Accepts(table))
        /\ End("refused")
  /\ UNCHANGED <<vars, report>>

(* The summary of the cached table with the newest snapshot's id. *)
Report ==
  [ exact      |-> Count(cached, "exact"),
    superseded |-> Count(cached, "superseded"),
    current    |-> Cardinality({k \in Keys : cached[k] # NoRow}),
    unrelated  |-> Cardinality(Unrelated(cached)),
    snapshot   |-> table ]

(* put_bytes_if_absent(report_key): a replay has to say the same. *)
WriteReport ==
  /\ checking = "report"
  /\ \/ /\ report = NoReport
        /\ report' = Report
        /\ End("validated")
     \/ /\ report # NoReport
        /\ End(IF report = Report THEN "validated" ELSE "identity_conflict")
        /\ UNCHANGED report
  /\ UNCHANGED vars

(* The EMR job dies; a report that is written may go unnoticed. *)
Abort ==
  /\ checking = "report"
  /\ End("none")
  /\ UNCHANGED <<vars, report>>

ValidationNext ==
  \/ Next /\ UNCHANGED validation
  \/ Validate \/ WriteReport \/ Abort

ValidationSpec == ValidationInit /\ [][ValidationNext]_<<vars, validation>>

-----------------------------------------------------------------------------
(* c is at least as new as i at the source, whenever either was ingested. *)
AsNewAtSource(c, i) ==
  \/ c.version > i.version
  \/ c.version = i.version /\ c.extract >= i.extract

(* A stored report stays true while the jobs go on merging, of the table   *)
(* as of the snapshot it names, although that snapshot is read after the   *)
(* rows it counted: no approved row has gone or given way to an older      *)
(* state of its source, and no row it counted has gone.  (The row may be   *)
(* neither the approved one nor newer by the job's own comparison: it can  *)
(* have replaced an earlier ingestion of the same content.)                *)
(* (backfill_validation.py:229-265)                                        *)
ReportHolds ==
  report # NoReport =>
    \A current \in {table, report.snapshot} :
      /\ \A i \in historical :
           current[i.key] # NoRow /\ AsNewAtSource(current[i.key], i)
      /\ Cardinality({k \in Keys : current[k] # NoRow}) >= report.exact + report.superseded + report.unrelated

(* The validation raises no false alarm: once every approved batch is      *)
(* merged and neither rejects a row nor names a key twice, no run is       *)
(* refused, whatever later batches, replays and crashes have done since.   *)
CleanIsValidated ==
  [][ request \subseteq merged /\ InputSound =>
        ~ (checking = "idle" /\ verdict' = "refused" /\ verdict # "refused") ]_<<vars, validation>>
================================================================================

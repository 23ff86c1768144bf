------------------------------- MODULE SilverBatch -------------------------------
(***************************************************************************)
(* The V1 Spark job from Bronze files to a current-state Iceberg table     *)
(* (processing/spark/silver_batch.py), for one entity; the other has its   *)
(* own table and evidence.  A run reads the Bronze files that are there,   *)
(* keeps the records whose ingested_at is in its window, writes the ones   *)
(* it refuses to quarantine and merges the winners.  A record is stamped   *)
(* when it is extracted and is there for a run when its file is published, *)
(* which may be after the window of its stamp was processed.  Runs of      *)
(* several dates overlap, repeat and die between their writes.             *)
(***************************************************************************)
EXTENDS FiniteSets, Integers

CONSTANTS
  Runs,       \* executions of the job
  Dates,      \* logical dates
  Items,      \* source records: key, version, extract, hash, valid
  LastHour,   \* bound: hours of the clock
  MaxRecords, \* bound: records extracted
  MaxCrashes  \* bound: runs that die

Keys == {i.key : i \in Items}

ASSUME ItemsAssumption ==
  \A i \in Items : i.version \in Nat /\ i.extract \in Nat /\ i.hash \in Nat /\ i.valid \in BOOLEAN

ASSUME BoundsAssumption == LastHour \in Nat /\ MaxRecords \in Nat /\ MaxCrashes \in Nat

None == [none |-> TRUE]  \* no row

VARIABLES
  now,        \* the clock
  stamped,    \* records extracted but not yet in a published file
  landed,     \* records in the Bronze files
  table,      \* the Iceberg table: the row of each key
  quarantine, \* the Parquet evidence: each record with its logical date
  pc, run,    \* where each run is; its date, window, input and Bronze files
  done        \* history: what each run that merged had read

vars == <<now, stamped, landed, table, quarantine, pc, run, done>>

(* [start, end) of the hours, or all of Bronze when no bounds are given. *)
Windows == {[from |-> h, to |-> h + 1] : h \in 0 .. LastHour} \cup {[from |-> 0, to |-> LastHour + 1]}

NoRun == [date |-> 0, window |-> [from |-> 0, to |-> 0], input |-> {}, bronze |-> {}]

Init ==
  /\ now = 0 /\ stamped = {} /\ landed = {}
  /\ table = [k \in Keys |-> None]
  /\ quarantine = {}
  /\ pc = [r \in Runs |-> "new"]
  /\ run = [r \in Runs |-> NoRun]
  /\ done = {}

Goto(r, label) == pc' = [pc EXCEPT ![r] = label]

-----------------------------------------------------------------------------
(* The lexicographic version order of contracts.py; a missing extraction   *)
(* time is the least.  The mutant lets the hash decide alone.              *)
NewerByHash(s, t) == s.hash > t.hash

Newer(s, t) ==
  \/ s.version > t.version
  \/ s.version = t.version /\ s.extract > t.extract
  \/ s.version = t.version /\ s.extract = t.extract /\ s.ingested > t.ingested
  \/ s.version = t.version /\ s.extract = t.extract /\ s.ingested = t.ingested /\ s.hash > t.hash

(* Mutant: a window that is open at both ends. *)
InOpenBoundary(record, window) == window.from < record.ingested /\ record.ingested < window.to

(* apply_incremental_boundary *)
InBoundary(record, window) == window.from <= record.ingested /\ record.ingested < window.to

Valid(input) == {i \in input : i.valid}

(* split_valid_and_quarantine: rank 1 of each key, and what is refused. *)
Winners(input) ==
  {w \in Valid(input) : \A other \in Valid(input) : other.key = w.key => ~ Newer(other, w)}

Rejected(input) == input \ Winners(input)

-----------------------------------------------------------------------------
Tick ==
  /\ now < LastHour
  /\ now' = now + 1
  /\ UNCHANGED <<stamped, landed, table, quarantine, pc, run, done>>

(* enrich_record stamps ingested_at ... *)
Stamp ==
  /\ \E i \in Items :
       /\ Cardinality(stamped \cup landed) < MaxRecords
       /\ \A other \in stamped \cup landed : other.hash # i.hash \/ other.ingested # now
       /\ stamped' = stamped \cup {[key |-> i.key, version |-> i.version, extract |-> i.extract,
                                    hash |-> i.hash, valid |-> i.valid, ingested |-> now]}
  /\ UNCHANGED <<now, landed, table, quarantine, pc, run, done>>

(* ... and the publisher puts the file some time later. *)
Land ==
  /\ \E s \in stamped : landed' = landed \cup {s} /\ stamped' = stamped \ {s}
  /\ UNCHANGED <<now, table, quarantine, pc, run, done>>

(* load_bronze and apply_incremental_boundary: the files are listed here. *)
Load(r) ==
  /\ pc[r] = "new"
  /\ \E date \in Dates, window \in Windows :
       run' = [run EXCEPT ![r] = [date |-> date, window |-> window,
                                  input |-> {i \in landed : InBoundary(i, window)},
                                  bronze |-> landed]]
  /\ Goto(r, "quarantine")
  /\ UNCHANGED <<now, stamped, landed, table, quarantine, done>>

Evidence(r) == {[date |-> run[r].date, record |-> i] : i \in Rejected(run[r].input)}

(* Mode "overwrite" without dynamic partition overwrite replaces all that  *)
(* is under the path, the partitions of other dates included.              *)
Overwrite(r) == Evidence(r)

WriteQuarantine(r) ==
  /\ pc[r] = "quarantine"
  /\ quarantine' = Overwrite(r)
  /\ Goto(r, "merge")
  /\ UNCHANGED <<now, stamped, landed, table, run, done>>

(* merge_iceberg, one atomic commit against the rows then there. *)
Merge(r) ==
  /\ pc[r] = "merge"
  /\ table' = [k \in Keys |->
       LET mine == {w \in Winners(run[r].input) : w.key = k} IN
       IF mine = {} THEN table[k]
       ELSE LET w == CHOOSE w \in mine : TRUE IN
            IF table[k] = None \/ Newer(w, table[k]) THEN w ELSE table[k]]
  /\ done' = done \cup {run[r]}
  /\ Goto(r, "done")
  /\ UNCHANGED <<now, stamped, landed, quarantine, run>>

(* The job dies; an overwrite that is cut short has deleted the old files. *)
Crash(r) ==
  /\ pc[r] \in {"quarantine", "merge"}
  /\ Cardinality({x \in Runs : pc[x] = "dead"}) < MaxCrashes
  /\ Goto(r, "dead")
  /\ quarantine' \in IF pc[r] = "quarantine" THEN {quarantine, {}} ELSE {quarantine}
  /\ UNCHANGED <<now, stamped, landed, table, run, done>>

Next ==
  \/ Tick \/ Stamp \/ Land
  \/ \E r \in Runs : Load(r) \/ WriteQuarantine(r) \/ Merge(r) \/ Crash(r)

Spec == Init /\ [][Next]_vars

-----------------------------------------------------------------------------
TypeOK ==
  /\ now \in 0 .. LastHour
  /\ \A i \in stamped \cup landed : i.ingested <= now
  /\ \A k \in Keys : table[k] = None \/ table[k] \in Valid(landed)
  /\ pc \in [Runs -> {"new", "quarantine", "merge", "done", "dead"}]
  /\ \A r \in Runs : run[r].input \subseteq landed

(* Whatever runs of whatever windows came in whatever order, repeated, and *)
(* died, the row of a key is the freshest valid record that any of them    *)
(* merged: a late or repeated run never takes a row back.                  *)
FreshestMerged ==
  \A k \in Keys :
    LET merged == {i \in UNION {d.input : d \in done} : i.valid /\ i.key = k} IN
    IF merged = {} THEN table[k] = None
    ELSE /\ table[k] \in merged
         /\ \A i \in merged : i.version <= table[k].version /\ (i = table[k] \/ ~ Newer(i, table[k]))

(* Hours side by side leave no record out: once every hour has been run    *)
(* over Bronze files that held a valid record, its key has a row as new,   *)
(* even if its file landed after its own hour was first processed.         *)
WindowsCoverBronze ==
  \A i \in Valid(landed) :
    (\A h \in 0 .. LastHour : \E d \in done : d.window = [from |-> h, to |-> h + 1] /\ i \in d.bronze)
    => table[i.key] # None /\ ~ Newer(i, table[i.key])

(* A run overwrites one deterministic logical-date partition of the        *)
(* evidence (silver_batch.py:161): what a run refused stays in quarantine  *)
(* while no other run of its date has written.                             *)
RejectionsRetained ==
  \A d \in done :
    (\A r \in Runs : run[r].date = d.date => run[r] = d) =>
      \A i \in Rejected(d.input) : [date |-> d.date, record |-> i] \in quarantine
==================================================================================

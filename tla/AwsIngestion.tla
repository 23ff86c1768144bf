------------------------------ MODULE AwsIngestion ------------------------------
(***************************************************************************)
(* One logical run of the AWS ingestion: the tasks of the Airflow DAG      *)
(* (orchestration/dags/aws_bronze_ingestion.py), which ingest their        *)
(* entities one after the other and are retried whole, beside Lambda       *)
(* invocations (lambda/bronze_ingestion.py) and registry runs              *)
(* (mdep_platform/registry.py) of the same identities, all through         *)
(* IngestionPipeline.  An identity is source, entity and interval; here an *)
(* entity names it.  Sources change between and during the reads.          *)
(*                                                                         *)
(* A publication is one step on the identity's object: BronzePublication   *)
(* shows that its store calls act as a write-once register, and what is    *)
(* kept of their inside here is the data object without a manifest that an *)
(* interrupted call leaves.                                                *)
(***************************************************************************)
EXTENDS RestExtraction

CONSTANTS
  Tasks,        \* DAG tasks that ingest
  Invocations,  \* Lambda invocations and registry runs, of one entity each
  Work,         \* the entities of each caller, in order
  RestEntities, \* entities read page by page; the others are read at once,
  FileEntities, \* from a file or else from a table
  Sources,      \* what the source of each entity may hold
  Limits,       \* what each caller may read of each entity
  Retries,      \* runs of each caller beyond the first
  Absent,       \* no object
  MaxFaults,    \* bound: faults in one behaviour
  MaxChanges    \* bound: changes of the sources

Callers == Tasks \cup Invocations
Entities == DOMAIN Sources

(* The limits of an entity are the same for all tasks of the DAG. *)
ASSUME CallersAssumption ==
  /\ Retries \in [Callers -> Nat] /\ RestEntities \subseteq Entities
  /\ Limits \in [Callers -> [Entities -> Limit]]
  /\ \A s, t \in Tasks : Limits[s] = Limits[t]
  /\ Tasks \cap Invocations = {}
  /\ \A c \in Callers : Work[c] \in Seq(Entities) /\ Work[c] # << >>
  /\ \A c \in Invocations : Len(Work[c]) = 1
  /\ MaxFaults \in Nat /\ MaxChanges \in Nat

(* SourceRecord's payload; with its page, what a walk reads; and the data  *)
(* object of an identity, with or without its manifest.                    *)
Payload == UNION {{s.records[i] : i \in DOMAIN s.records} : s \in UNION {Sources[e] : e \in Entities}}

Item == (Nat \ {0}) \X Payload

Object == [items : Seq(Item), committed : BOOLEAN]

ASSUME SourcesAssumption ==
  /\ \A e \in Entities : \A s \in Sources[e] : s.records \in Seq(Payload) /\ s.loops \in BOOLEAN
  /\ Absent \notin Object

VARIABLES
  source,   \* what each source holds
  object,   \* the data object of each identity, and if its manifest is there
  evidence, \* quarantine objects; the key is the hash of the evidence
  events,   \* publication, quarantine and reprocessing events emitted
  pc,       \* where each caller is
  runs,     \* runs of each caller so far
  at,       \* which of its entities it is ingesting
  walk,     \* its extraction
  outcome,  \* the IngestionOutcome it holds
  results,  \* what its run has returned so far
  summary,  \* what completion_summary was given, or Absent
  faults, changes

vars == <<source, object, evidence, events, pc, runs, at, walk, outcome, results, summary, faults, changes>>

Goto(c, label) == pc' = [pc EXCEPT ![c] = label]

Entity(c) == Work[c][at[c]]

LimitOf(c) == Limits[c][Entity(c)]

NoOutcome == [status |-> "none", items |-> << >>]

Outcome(status, items) == [status |-> status, items |-> items]

Success == {"published", "recovered", "already_published"}

Init ==
  /\ source \in {s \in [Entities -> UNION {Sources[e] : e \in Entities}] :
                   \A e \in Entities : s[e] \in Sources[e]}
  /\ object = [e \in Entities |-> Absent]
  /\ evidence = {} /\ events = {}
  /\ pc = [c \in Callers |-> "extract"]
  /\ runs = [c \in Callers |-> 1]
  /\ at = [c \in Callers |-> 1]
  /\ walk = [c \in Callers |-> StartWalk]
  /\ outcome = [c \in Callers |-> NoOutcome]
  /\ results = [c \in Callers |-> << >>]
  /\ summary = Absent
  /\ faults = 0 /\ changes = 0

Fault == faults < MaxFaults /\ faults' = faults + 1

-----------------------------------------------------------------------------
Extracted(c, w) ==
  /\ walk' = [walk EXCEPT ![c] = w]
  /\ Goto(c, CASE w.state = "reading"  -> "extract"
               [] w.state = "complete" -> "publish"
               [] OTHER                -> "reject")

(* One GET of extract_rest; an outage may last for several of them. *)
Get(c) ==
  /\ pc[c] = "extract" /\ Entity(c) \in RestEntities
  /\ LET s == source[Entity(c)] IN
     \/ /\ Extracted(c, TakePage(walk[c], PageItems(s, walk[c].page), NextPage(s, walk[c].page), LimitOf(c)))
        /\ UNCHANGED faults
     \/ /\ \E outage \in Outages : Extracted(c, TryAgain(walk[c], outage))
        /\ IF walk[c].tries = 0 THEN Fault ELSE UNCHANGED faults
     \/ /\ \E refusal \in Refusals : Extracted(c, GiveUp(walk[c], refusal))
        /\ Fault
  /\ UNCHANGED <<source, object, evidence, events, runs, at, outcome, results, summary, changes>>

(* extract_postgres, extract_file_path and extract_file_bytes. *)
ReadAll(c) ==
  /\ pc[c] = "extract" /\ Entity(c) \notin RestEntities
  /\ IF Entity(c) \in FileEntities
     THEN Extracted(c, TakeFile(source[Entity(c)], LimitOf(c)))
     ELSE Extracted(c, TakeRows(source[Entity(c)], LimitOf(c)))
  /\ UNCHANGED <<source, object, evidence, events, runs, at, outcome, results, summary, faults, changes>>

(* Mutant: the evidence is stamped with the time of the run. *)
EvidenceOfRun(c) ==
  [entity |-> Entity(c), ingested_at |-> {<<c, runs[c]>>}, error |-> walk[c].error]

(* Every task of a DAG run stamps the run's start date, an invocation the  *)
(* time its event names.                                                   *)
Stamp(c) == IF c \in Tasks THEN Tasks ELSE {c}

(* QuarantinePublisher.publish: put if absent under the hash of the        *)
(* identity, the time, and the error's reason, locator and original.       *)
Evidence(c) == [entity |-> Entity(c), ingested_at |-> Stamp(c), error |-> walk[c].error]

(* IngestionPipeline.reject *)
Reject(c) ==
  /\ pc[c] = "reject"
  /\ evidence' = evidence \cup {Evidence(c)}
  /\ outcome' = [outcome EXCEPT ![c] = Outcome("rejected", << >>)]
  /\ Goto(c, "report")
  /\ UNCHANGED <<source, object, events, runs, at, walk, results, summary, faults, changes>>

(* Mutants: the latest batch replaces an earlier one; an orphan blocks its *)
(* identity.                                                               *)
PublishedLatest(current, items) ==
  IF current # Absent /\ current = [items |-> items, committed |-> TRUE]
  THEN "already_published" ELSE "published"

OrphanRefused(current, items) ==
  IF current = Absent THEN "published"
  ELSE IF current.items = items /\ current.committed THEN "already_published" ELSE "conflict"

(* BronzePublisher.publish, uninterrupted. *)
PublishStatus(current, items) ==
  IF current = Absent THEN "published"
  ELSE IF current.items # items THEN "conflict"
  ELSE IF current.committed THEN "already_published" ELSE "recovered"

(* IngestionPipeline.complete *)
Publish(c) ==
  /\ pc[c] = "publish"
  /\ LET e == Entity(c)
         items == walk[c].items
         status == PublishStatus(object[e], items)
     IN /\ outcome' = [outcome EXCEPT ![c] = Outcome(status, items)]
        /\ object' = IF status \in {"published", "recovered"}
                     THEN [object EXCEPT ![e] = [items |-> items, committed |-> TRUE]] ELSE object
  /\ Goto(c, "report")
  /\ UNCHANGED <<source, evidence, events, runs, at, walk, results, summary, faults, changes>>

(* What a publication that is cut short may have stored. *)
Leftovers(current, items) ==
  {current} \cup
  IF current = Absent THEN {[items |-> items, committed |-> b] : b \in BOOLEAN}
  ELSE IF current.items = items THEN {[items |-> items, committed |-> TRUE]}
  ELSE {}

(* A store call of publish fails: a failed result, or a conflict when it   *)
(* was the read of an object that is there.                                *)
PublishFails(c) ==
  /\ pc[c] = "publish"
  /\ Fault
  /\ \E left \in Leftovers(object[Entity(c)], walk[c].items) :
        object' = [object EXCEPT ![Entity(c)] = left]
  /\ outcome' = [outcome EXCEPT ![c] = Outcome("failed", walk[c].items)]
  /\ Goto(c, "report")
  /\ UNCHANGED <<source, evidence, events, runs, at, walk, results, summary, changes>>

Event(c, status) ==
  [call |-> <<c, runs[c]>>, entity |-> Entity(c), status |-> status, items |-> outcome[c].items]

(* The run raises; its scheduler or invoker may run it again, from the     *)
(* first entity on.                                                        *)
Raise(c) ==
  /\ results' = [results EXCEPT ![c] = << >>]
  /\ IF runs[c] <= Retries[c]
     THEN /\ Goto(c, "extract")
          /\ runs' = [runs EXCEPT ![c] = @ + 1]
          /\ at' = [at EXCEPT ![c] = 1]
          /\ walk' = [walk EXCEPT ![c] = StartWalk]
          /\ outcome' = [outcome EXCEPT ![c] = NoOutcome]
     ELSE Goto(c, "failed") /\ UNCHANGED <<runs, at, walk, outcome>>

(* The events of Lambda and registry, then compact_or_raise and the next   *)
(* entity of a task.                                                       *)
Report(c) ==
  /\ pc[c] = "report"
  /\ events' = IF c \in Tasks THEN events ELSE events \cup {Event(c, outcome[c].status)}
  /\ IF outcome[c].status \in Success
     THEN /\ results' = [results EXCEPT ![c] = Append(@, <<Entity(c), outcome[c].items>>)]
          /\ UNCHANGED <<runs, outcome>>
          /\ IF at[c] = Len(Work[c])
             THEN Goto(c, "done") /\ UNCHANGED <<at, walk>>
             ELSE /\ at' = [at EXCEPT ![c] = @ + 1]
                  /\ walk' = [walk EXCEPT ![c] = StartWalk]
                  /\ Goto(c, "extract")
     ELSE Raise(c)
  /\ UNCHANGED <<source, object, evidence, summary, faults, changes>>

(* The process dies, or an exception that is no SourceError ends the run:  *)
(* a lost connection to PostgreSQL, a quarantine object that cannot be     *)
(* stored.                                                                 *)
Crash(c) ==
  /\ pc[c] \in {"extract", "publish", "reject", "report"}
  /\ Fault
  /\ Raise(c)
  /\ IF pc[c] = "publish"
     THEN \E left \in Leftovers(object[Entity(c)], walk[c].items) :
            object' = [object EXCEPT ![Entity(c)] = left]
     ELSE UNCHANGED object
  /\ UNCHANGED <<source, evidence, events, summary, changes>>

AllTasksDone == \A t \in Tasks : pc[t] = "done"

CompletionSummary ==
  /\ summary = Absent /\ AllTasksDone
  /\ summary' = UNION {{results[t][i] : i \in DOMAIN results[t]} : t \in Tasks}
  /\ UNCHANGED <<source, object, evidence, events, pc, runs, at, walk, outcome, results, faults, changes>>

Change(e) ==
  /\ changes < MaxChanges
  /\ \E s \in Sources[e] \ {source[e]} : source' = [source EXCEPT ![e] = s]
  /\ changes' = changes + 1
  /\ UNCHANGED <<object, evidence, events, pc, runs, at, walk, outcome, results, summary, faults>>

(* Nothing is left to run. *)
Done ==
  /\ \A c \in Callers : pc[c] \in {"done", "failed"}
  /\ summary # Absent \/ ~ AllTasksDone
  /\ UNCHANGED vars

Run(c) == Get(c) \/ ReadAll(c) \/ Reject(c) \/ Publish(c) \/ Report(c)

Next ==
  \/ \E c \in Callers : Run(c) \/ PublishFails(c) \/ Crash(c)
  \/ CompletionSummary
  \/ \E e \in Entities : Change(e)
  \/ Done

(* What runs goes on, a failed task is run again, and completion_summary   *)
(* runs when the tasks before it are done; no order among them is assumed. *)
Progress == (\E c \in Callers : Run(c)) \/ CompletionSummary

Spec == Init /\ [][Next]_vars /\ WF_vars(Progress)

-----------------------------------------------------------------------------
TypeOK ==
  /\ \A e \in Entities : source[e] \in Sources[e]
  /\ \A e \in Entities : object[e] # Absent => object[e].committed \in BOOLEAN
  /\ pc \in [Callers -> {"extract", "publish", "reject", "report", "done", "failed"}]
  /\ \A c \in Callers : runs[c] \in 1 .. Retries[c] + 1 /\ at[c] \in 1 .. Len(Work[c])
  /\ \A c \in Callers : walk[c].seen \subseteq 1 .. LimitOf(c).pages /\ walk[c].tries \in 0 .. MaxRetries
  /\ \A c \in Callers : outcome[c].status \in Success \cup {"none", "conflict", "failed", "rejected"}
  /\ faults \in 0 .. MaxFaults /\ changes \in 0 .. MaxChanges

(* Whatever a summary or an event reported as ingested is what is          *)
(* committed under that identity, then and ever after: later runs over     *)
(* changed sources, retries and invocations of the same identity neither   *)
(* replace it nor are told that theirs is there.                           *)
ReportedIsCommitted ==
  /\ \A v \in events :
       v.status \in Success => object[v.entity] = [items |-> v.items, committed |-> TRUE]
  /\ summary # Absent =>
       \A r \in summary : object[r[1]] = [items |-> r[2], committed |-> TRUE]

(* No refused record and no truncated walk reaches Bronze: what is stored  *)
(* was accepted record by record, and while no source has changed it is    *)
(* the whole source, each record once.                                     *)
StoredIsWhole ==
  \A e \in Entities :
    object[e] # Absent =>
      /\ Accepted(Records(object[e].items))
      /\ changes = 0 => Records(object[e].items) = source[e].records

(* The evidence of what a source holds, not of an outage. *)
Refused(e) == {v \in evidence : v.entity = e /\ v.error.reason \in SourceReasons}

OfDag(v) == \A c \in Invocations : v.ingested_at # {c}

(* While no source changes, all callers agree about it: one that was       *)
(* refused for a record or a link of its own is stored by nobody, and      *)
(* however often the DAG run or an invocation is retried, wherever         *)
(* outages and deaths cut its walks short, it refuses a source once, for   *)
(* the same reason at the same place (pipeline.py:37).                     *)
RefusalsAgree ==
  changes = 0 =>
    \A e \in Entities : \A v, w \in Refused(e) :
      /\ v.error.reason \in ContentReasons => object[e] = Absent
      /\ v.ingested_at = w.ingested_at \/ (OfDag(v) /\ OfDag(w)) => v = w

(* Every caller ends, whatever links a source sends and whatever fails. *)
CallersEnd == <>(\A c \in Callers : pc[c] \in {"done", "failed"})

Ingestible(s, limit) ==
  /\ ~ s.loops
  /\ Len(s.records) <= limit.records /\ Len(s.records) <= PageSize * limit.pages
  /\ Accepted(s.records)

(* With sources that hold still and can be ingested, and a retry left for  *)
(* every fault, the DAG run reaches its completion summary: what           *)
(* interrupted runs left behind does not stand in the way.                 *)
RunCompletes ==
  <>(summary # Absent \/ changes > 0
     \/ \E t \in Tasks, e \in Entities : ~ Ingestible(source[e], Limits[t][e]))
=================================================================================

------------------------------ MODULE BatchBronze ------------------------------
(***************************************************************************)
(* The V1 Bronze publisher (ingestion/batch/bronze.py): a data object and  *)
(* then its manifest, each put if absent, for one operation that several   *)
(* attempts run, one after the other or at once.  Every attempt extracts   *)
(* anew and stamps its records with ingested_at, so no two attempts hold   *)
(* the same records: an attempt stands for what it would write.            *)
(***************************************************************************)
EXTENDS FiniteSets, Integers

CONSTANTS
  Attempts,   \* calls of publish for one BatchContext
  Absent,     \* an object that does not exist
  Stores,     \* which object stores are configured: "s3", "local"
  MaxFailures \* bound: attempts that die or whose request fails

ASSUME AbsentAssumption == Absent \notin Attempts
ASSUME ConstantsAssumption == Stores \subseteq {"s3", "local"} /\ MaxFailures \in Nat

VARIABLES
  store,          \* the configured store: it never changes
  data, manifest, \* the attempt that created the object, or Absent
  whole,          \* the contents of the data object are complete
  found,          \* object_exists of each attempt
  pc              \* where it is in publish, or its result

vars == <<store, data, manifest, whole, found, pc>>

Results == {"published", "already_published"}

TypeOK ==
  /\ store \in Stores
  /\ data \in Attempts \cup {Absent} /\ manifest \in Attempts \cup {Absent}
  /\ whole \in BOOLEAN
  /\ found \in [Attempts -> BOOLEAN]
  /\ pc \in [Attempts -> {"start", "put", "copy", "manifest", "return", "failed"} \cup Results]
  /\ \A a \in Attempts : pc[a] = "copy" => store = "local" /\ data = a /\ ~ whole

Init ==
  /\ store \in Stores
  /\ data = Absent /\ manifest = Absent /\ whole = FALSE
  /\ found = [a \in Attempts |-> FALSE]
  /\ pc = [a \in Attempts |-> "start"]

Goto(a, step) == pc' = [pc EXCEPT ![a] = step]

-----------------------------------------------------------------------------
(* Mutant: the data object alone counts as published. *)
CompletedByData == data # Absent

(* The second existence check is only made, and sent later than the first, *)
(* when the first one found the data: objects never disappear.             *)
Completed == manifest # Absent

(* Both checks before the records are written out. *)
Check(a) ==
  /\ pc[a] = "start"
  /\ found' = [found EXCEPT ![a] = data # Absent]
  /\ Goto(a, IF data = Absent THEN "put"
             ELSE IF Completed THEN "already_published" ELSE "manifest")
  /\ UNCHANGED <<store, data, manifest, whole>>

(* Mutant: a put that replaces what is there. *)
OverwriteData(a) == data' = a /\ whole' = (store = "s3")

CreateData(a) == data = Absent /\ data' = a /\ whole' = (store = "s3")

(* put_if_absent creates the object, which LocalObjectStore, open("xb"),   *)
(* does before it copies the contents; over S3 the client may have to resend *)
(* the request, and is then refused by the object it created itself.       *)
PutData(a) ==
  /\ pc[a] = "put"
  /\ CreateData(a)
  /\ \E resent \in {r \in BOOLEAN : r => store = "s3"} : found' = [found EXCEPT ![a] = resent]
  /\ Goto(a, IF store = "s3" THEN "manifest" ELSE "copy")
  /\ UNCHANGED <<store, manifest>>

CopyData(a) ==
  /\ pc[a] = "copy"
  /\ whole' = TRUE
  /\ Goto(a, "manifest")
  /\ UNCHANGED <<store, data, manifest, found>>

(* Mutant: the answer of put_if_absent is ignored. *)
RefusedUnnoticed(a) == UNCHANGED found

Refused(a) == found' = [found EXCEPT ![a] = TRUE]

PutDataRefused(a) ==
  /\ pc[a] = "put"
  /\ data # Absent
  /\ Refused(a)
  /\ Goto(a, "manifest")
  /\ UNCHANGED <<store, data, manifest, whole>>

(* Mutant: the manifest is not written when the data was there before. *)
PutManifestOfOwnData(a) ==
  manifest' = IF manifest = Absent /\ ~ found[a] THEN a ELSE manifest

(* The manifest describes the records of this attempt.  Whether it was     *)
(* created or refused makes no difference to publish, and nothing reads    *)
(* more of it than that it exists.                                         *)
PutManifestIfAbsent(a) == manifest' = IF manifest = Absent THEN a ELSE manifest

PutManifest(a) ==
  /\ pc[a] = "manifest"
  /\ PutManifestIfAbsent(a)
  /\ Goto(a, "return")
  /\ UNCHANGED <<store, data, whole, found>>

Return(a) ==
  /\ pc[a] = "return"
  /\ Goto(a, IF found[a] THEN "already_published" ELSE "published")
  /\ UNCHANGED <<store, data, manifest, whole, found>>

Ended(a) == pc[a] \in Results \cup {"failed"}

(* Mutant: the put reports any error as "exists already". *)
AfterFailureSwallowed(step) == IF step = "put" THEN "manifest" ELSE "failed"

AfterFailure(step) == "failed"

(* The process dies, or a request fails and publish raises. *)
Fail(a) ==
  /\ ~ Ended(a)
  /\ Cardinality({b \in Attempts : pc[b] = "failed"}) < MaxFailures
  /\ Goto(a, AfterFailure(pc[a]))
  /\ UNCHANGED <<store, data, manifest, whole, found>>

Step(a) ==
  \/ Check(a) \/ PutData(a) \/ CopyData(a) \/ PutDataRefused(a)
  \/ PutManifest(a) \/ Return(a)

Next == \E a \in Attempts : Step(a) \/ Fail(a)

Spec == Init /\ [][Next]_vars

(* The DAG runs the task and retries it while it fails; an attempt that is *)
(* not killed goes on.                                                     *)
FairSpec == Spec /\ \A a \in Attempts : WF_vars(Step(a))

-----------------------------------------------------------------------------
(* Who sees a manifest on S3 can read the whole data object                *)
(* (bronze-batch-publication.md 8).  The local store does not promise it:  *)
(* an attempt there completes what another is still copying.               *)
CompletedIsWhole == store = "s3" /\ manifest # Absent => data # Absent /\ whole

(* The first completed object is canonical: neither object is replaced     *)
(* once it is there, whatever later attempts bring (bronze.py:189-190).    *)
FirstObjectCanonical ==
  [][ /\ data # Absent => data' = data
      /\ manifest # Absent => manifest' = manifest
      /\ whole => whole' ]_vars

(* "published" is told to one attempt at most and to the one whose records *)
(* the data object holds; whoever is told of success finds both objects.   *)
ResultsTellTheTruth ==
  \A a \in Attempts :
    /\ pc[a] = "published" => data = a
    /\ pc[a] \in Results => data # Absent /\ manifest # Absent

(* A partial completion is repaired by a later attempt, and no attempt     *)
(* ever waits on another (bronze-batch-publication.md 9).                  *)
RetriesComplete == <>[](data # Absent /\ manifest # Absent)

(* The manifest's record count and payload hash are those of the data      *)
(* ("one deterministic Parquet object plus a content manifest").           *)
ManifestDescribesData == manifest # Absent => manifest = data
================================================================================

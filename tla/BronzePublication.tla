--------------------------- MODULE BronzePublication ---------------------------
(***************************************************************************)
(* BronzePublisher.publish (aws-native/mdep_ingestion/publication.py) over *)
(* the two object stores of object_store.py, for one logical run identity, *)
(* that is one data key and one manifest key; other identities use other   *)
(* keys.  Several callers publish at once: Lambda has a reserved           *)
(* concurrency of two, and Airflow retries and manual replays use the same *)
(* identity.  Each store call is one step, so the callers interleave       *)
(* between calls, and each caller may die between any two of them.         *)
(*                                                                         *)
(* SHA-256 is collision-free: a payload is its own checksum, and its       *)
(* source-content checksum is its content.  The record count follows from  *)
(* the content, and the manifest's identity fields follow from the keys.   *)
(***************************************************************************)
EXTENDS Integers

CONSTANTS
  Publishers,  \* processes calling publish
  Contents,    \* source contents: every row field except ingested_at
  Stamps,      \* ingested_at values, the part of the bytes that is not content
  Absent,      \* no object under a key
  Partial,     \* an object whose bytes are not all there
  Stores,      \* the object stores a deployment may use
  Faults,      \* which faults may happen
  MaxFaults,   \* bound: faults in one behaviour
  MaxAttempts  \* bound: calls of publish by one process

Payloads == [content : Contents, stamp : Stamps]

(* manifest_for(context, payload) *)
ManifestFor(payload) == [checksum |-> payload, source_content |-> payload.content]

Manifests == {ManifestFor(x) : x \in Payloads}

ASSUME StoresAssumption == Stores \subseteq {"s3", "local"}

ASSUME FaultsAssumption == Faults \subseteq {"crash", "read", "write", "lost", "resent", "race"}

ASSUME BoundsAssumption == MaxFaults \in Nat /\ MaxAttempts \in Nat

ASSUME ObjectAssumption ==
  /\ Absent # Partial
  /\ Absent \notin Payloads \cup Manifests
  /\ Partial \notin Payloads \cup Manifests

VARIABLES
  store,     \* the object store of this deployment (create_store)
  data,      \* the object at data_key
  manifest,  \* the object at manifest_key
  pc,        \* the store call each caller makes next
  offer,     \* the prepared payload each caller publishes
  stored,    \* stored_payload, as the caller inspected it
  read,      \* stored_manifest, as _validate_committed parsed it
  fresh,     \* data_was_written
  result,    \* what the caller's last publish returned
  attempts,  \* calls of publish so far
  faults,    \* faults so far
  acks       \* history: every successful result

objects == <<data, manifest>>

vars == <<store, data, manifest, pc, offer, stored, read, fresh, result, attempts, faults, acks>>

-----------------------------------------------------------------------------
Success == {"published", "already_published"}

NoResult == [status |-> "none", detail |-> "none", payload |-> Absent]

Result(status, detail, payload) == [status |-> status, detail |-> detail, payload |-> payload]

Init ==
  /\ store \in Stores
  /\ data = Absent /\ manifest = Absent
  /\ pc = [p \in Publishers |-> "idle"]
  /\ offer = [p \in Publishers |-> Absent]
  /\ stored = [p \in Publishers |-> Absent]
  /\ read = [p \in Publishers |-> Absent]
  /\ fresh = [p \in Publishers |-> FALSE]
  /\ result = [p \in Publishers |-> NoResult]
  /\ attempts = [p \in Publishers |-> 0]
  /\ faults = 0
  /\ acks = {}

(* A caller makes a step, in the one store of the deployment. *)
Goto(p, label) ==
  /\ pc' = [pc EXCEPT ![p] = label]
  /\ UNCHANGED store

NoFault == UNCHANGED faults

(* A store call can fail only against S3; a process can die anywhere. *)
Fault(kind) ==
  /\ kind \in Faults
  /\ store = "s3" \/ kind = "crash"
  /\ faults < MaxFaults
  /\ faults' = faults + 1

(* publish returns r; a success is what compact_or_raise lets through. *)
Return(p, r) ==
  /\ Goto(p, "idle")
  /\ result' = [result EXCEPT ![p] = r]
  /\ acks' = IF r.status \in Success
             THEN acks \cup {[ call    |-> <<p, attempts[p]>>,
                               status  |-> r.status,
                               content |-> offer[p].content,
                               payload |-> r.payload ]}
             ELSE acks

Fail(p, kind) ==
  /\ Fault(kind)
  /\ Return(p, Result("failed", "object_store_failure", offer[p]))

Conflict(p, detail) == Return(p, Result("conflict", detail, offer[p]))

Continue(p, label) == Goto(p, label) /\ NoFault /\ UNCHANGED <<result, acks>>

(* A call of publish: a first run, a retry, or an independent replay with  *)
(* its own ingestion time and possibly another source content.             *)
Begin(p) ==
  /\ pc[p] = "idle"
  /\ attempts[p] < MaxAttempts
  /\ \E x \in Payloads : offer' = [offer EXCEPT ![p] = x]
  /\ attempts' = [attempts EXCEPT ![p] = @ + 1]
  /\ result' = [result EXCEPT ![p] = NoResult]
  /\ stored' = [stored EXCEPT ![p] = Absent]
  /\ read' = [read EXCEPT ![p] = Absent]
  /\ fresh' = [fresh EXCEPT ![p] = FALSE]
  /\ Goto(p, "head_manifest")
  /\ UNCHANGED <<objects, faults, acks>>

-----------------------------------------------------------------------------
(* publish, one store call at a time *)

HeadManifest(p) ==
  /\ pc[p] = "head_manifest"
  /\ \/ Continue(p, IF manifest # Absent THEN "validate_head" ELSE "head_data")
     \/ Fail(p, "read")
  /\ UNCHANGED <<objects, offer, stored, read, fresh, attempts>>

HeadData(p) ==
  /\ pc[p] = "head_data"
  /\ \/ Continue(p, IF data = Absent THEN "put_data" ELSE "check_data")
     \/ Fail(p, "read")
  /\ UNCHANGED <<objects, offer, stored, read, fresh, attempts>>

(* S3 answers 409 to a conditional write that meets another in flight. *)
RaceLost(p) ==
  /\ \E q \in Publishers \ {p} : pc[q] = pc[p]
  /\ Fault("race")

(* Mutant: a plain overwriting put. *)
PutAcceptedAlways(object) == TRUE

(* The condition of put_bytes_if_absent: If-None-Match "*", or mode "xb". *)
PutAccepted(object) == object = Absent

(* put_bytes_if_absent(data_key): a conditional-write conflict is passed   *)
(* over.  A failed S3 call may have stored the object all the same, and    *)
(* the client's own retry of such a call meets the object it has stored.   *)
PutData(p) ==
  /\ pc[p] = "put_data"
  /\ \/ /\ PutAccepted(data)
        /\ data' = IF store = "s3" THEN offer[p] ELSE Partial
        /\ fresh' = [fresh EXCEPT ![p] = store = "s3"]
        /\ Continue(p, IF store = "s3" THEN "check_data" ELSE "write_data")
     \/ /\ ~ PutAccepted(data)
        /\ Continue(p, "check_data")
        /\ UNCHANGED <<data, fresh>>
     \/ /\ RaceLost(p)
        /\ Goto(p, "check_data")
        /\ UNCHANGED <<data, fresh, result, acks>>
     \/ /\ Fail(p, "write")
        /\ UNCHANGED <<data, fresh>>
     \/ /\ Fail(p, "lost")
        /\ data' = IF PutAccepted(data) THEN offer[p] ELSE data
        /\ UNCHANGED fresh
     \/ /\ PutAccepted(data) /\ Fault("resent")
        /\ data' = offer[p]
        /\ Goto(p, "check_data")
        /\ UNCHANGED <<fresh, result, acks>>
  /\ UNCHANGED <<manifest, offer, stored, read, attempts>>

(* LocalObjectStore creates the file first and writes the bytes after. *)
WriteData(p) ==
  /\ pc[p] = "write_data"
  /\ data' = offer[p]
  /\ fresh' = [fresh EXCEPT ![p] = TRUE]
  /\ Continue(p, "check_data")
  /\ UNCHANGED <<manifest, offer, stored, read, attempts>>

CheckData(p) ==
  /\ pc[p] = "check_data"
  /\ \/ /\ data = Absent
        /\ NoFault
        /\ Return(p, Result("failed", "data_write_not_visible", offer[p]))
     \/ /\ data # Absent
        /\ Continue(p, "get_data")
     \/ Fail(p, "read")
  /\ UNCHANGED <<objects, offer, stored, read, fresh, attempts>>

(* Mutants: the caller describes the payload it prepared, not the one that *)
(* is stored; data another call left behind is never adopted.              *)
GetDataTrustsOffer(p) ==
  /\ pc[p] = "get_data"
  /\ stored' = [stored EXCEPT ![p] = offer[p]]
  /\ Continue(p, "put_manifest")
  /\ UNCHANGED <<objects, offer, read, fresh, attempts>>

GetDataRefusesOrphan(p) ==
  /\ pc[p] = "get_data"
  /\ \/ /\ fresh[p]
        /\ stored' = [stored EXCEPT ![p] = data]
        /\ Continue(p, "put_manifest")
     \/ /\ ~ fresh[p]
        /\ NoFault
        /\ Conflict(p, "data_exists_with_different_source_content")
        /\ UNCHANGED stored
  /\ UNCHANGED <<objects, offer, read, fresh, attempts>>

(* inspect_parquet(get_bytes(data_key)) and the source-content comparison: *)
(* a failed read and unreadable bytes are both invalid_existing_data.      *)
GetData(p) ==
  /\ pc[p] = "get_data"
  /\ \/ /\ data \in Payloads /\ data.content = offer[p].content
        /\ stored' = [stored EXCEPT ![p] = data]
        /\ Continue(p, "put_manifest")
     \/ /\ data \in Payloads /\ data.content # offer[p].content
        /\ NoFault
        /\ Conflict(p, "data_exists_with_different_source_content")
        /\ UNCHANGED stored
     \/ /\ IF data \in Payloads THEN Fault("read") ELSE NoFault
        /\ Conflict(p, "invalid_existing_data")
        /\ UNCHANGED stored
  /\ UNCHANGED <<objects, offer, read, fresh, attempts>>

PublishedResult(p) ==
  Result("published", IF fresh[p] THEN "committed_new_data" ELSE "recovered_matching_orphan_data",
         stored[p])

(* put_bytes_if_absent(manifest_key), with the manifest of the bytes that  *)
(* are stored, whoever wrote them.                                         *)
PutManifest(p) ==
  /\ pc[p] = "put_manifest"
  /\ \/ /\ PutAccepted(manifest) /\ store = "s3"
        /\ manifest' = ManifestFor(stored[p])
        /\ NoFault
        /\ Return(p, PublishedResult(p))
     \/ /\ PutAccepted(manifest) /\ store = "local"
        /\ manifest' = Partial
        /\ Continue(p, "write_manifest")
     \/ /\ ~ PutAccepted(manifest)
        /\ Continue(p, "validate_head")
        /\ UNCHANGED manifest
     \/ /\ RaceLost(p)
        /\ Goto(p, "validate_head")
        /\ UNCHANGED <<manifest, result, acks>>
     \/ /\ Fail(p, "write")
        /\ UNCHANGED manifest
     \/ /\ Fail(p, "lost")
        /\ manifest' = IF PutAccepted(manifest) THEN ManifestFor(stored[p]) ELSE manifest
     \/ /\ PutAccepted(manifest) /\ Fault("resent")
        /\ manifest' = ManifestFor(stored[p])
        /\ Goto(p, "validate_head")
        /\ UNCHANGED <<result, acks>>
  /\ UNCHANGED <<data, offer, stored, read, fresh, attempts>>

WriteManifest(p) ==
  /\ pc[p] = "write_manifest"
  /\ manifest' = ManifestFor(stored[p])
  /\ NoFault
  /\ Return(p, PublishedResult(p))
  /\ UNCHANGED <<data, offer, stored, read, fresh, attempts>>

-----------------------------------------------------------------------------
(* _validate_committed, one store call at a time *)

ValidateHead(p) ==
  /\ pc[p] = "validate_head"
  /\ \/ /\ data # Absent
        /\ Continue(p, "validate_manifest")
     \/ /\ data = Absent
        /\ NoFault
        /\ Conflict(p, "manifest_exists_but_data_missing")
     \/ Fail(p, "read")
  /\ UNCHANGED <<objects, offer, stored, read, fresh, attempts>>

ValidateManifest(p) ==
  /\ pc[p] = "validate_manifest"
  /\ \/ /\ manifest \in Manifests
        /\ read' = [read EXCEPT ![p] = manifest]
        /\ Continue(p, "validate_data")
     \/ /\ IF manifest \in Manifests THEN Fault("read") ELSE NoFault
        /\ Conflict(p, "invalid_existing_manifest")
        /\ UNCHANGED read
  /\ UNCHANGED <<objects, offer, stored, fresh, attempts>>

(* Mutants: no comparison with the caller's content; a replay given the    *)
(* checksum of its own bytes.                                              *)
VerdictIgnoresContent(m, x, mine) ==
  IF m.checksum # x THEN Result("conflict", "manifest_data_checksum_mismatch", mine)
  ELSE Result("already_published", "verified_identical_retry", x)

VerdictReportsOffer(m, x, mine) ==
  IF m.checksum # x \/ x.content # mine.content
  THEN Result("conflict", "source_content_conflict", mine)
  ELSE Result("already_published", "verified_identical_retry", mine)

(* The verdict on a parsed manifest m and an inspected payload x. *)
Verdict(m, x, mine) ==
  IF m.checksum # x THEN Result("conflict", "manifest_data_checksum_mismatch", mine)
  ELSE IF m.source_content # x.content THEN Result("conflict", "manifest_source_content_checksum_mismatch", mine)
  ELSE IF x.content # mine.content THEN Result("conflict", "source_content_conflict", mine)
  ELSE Result("already_published",
              IF x = mine THEN "verified_identical_retry"
              ELSE "verified_independent_replay_preserved_first_ingestion", x)

ValidateData(p) ==
  /\ pc[p] = "validate_data"
  /\ \/ /\ data \in Payloads
        /\ stored' = [stored EXCEPT ![p] = data]
        /\ NoFault
        /\ Return(p, Verdict(read[p], data, offer[p]))
     \/ /\ IF data \in Payloads THEN Fault("read") ELSE NoFault
        /\ Conflict(p, "invalid_existing_manifest")
        /\ UNCHANGED stored
  /\ UNCHANGED <<objects, offer, read, fresh, attempts>>

(* The process is killed: a Lambda timeout, a lost worker. *)
Crash(p) ==
  /\ pc[p] # "idle"
  /\ Fault("crash")
  /\ Return(p, Result("crashed", "none", offer[p]))
  /\ UNCHANGED <<objects, offer, stored, read, fresh, attempts>>

Call(p) ==
  \/ HeadManifest(p) \/ HeadData(p) \/ PutData(p) \/ WriteData(p) \/ CheckData(p)
  \/ GetData(p) \/ PutManifest(p) \/ WriteManifest(p)
  \/ ValidateHead(p) \/ ValidateManifest(p) \/ ValidateData(p)

(* Every caller has used its calls: nothing more happens to the identity. *)
Done ==
  /\ \A p \in Publishers : pc[p] = "idle" /\ attempts[p] = MaxAttempts
  /\ UNCHANGED vars

Next ==
  \/ \E p \in Publishers : Begin(p) \/ Call(p) \/ Crash(p)
  \/ Done

Spec == Init /\ [][Next]_vars

(* A running call goes on, and a call that did not succeed is retried: its *)
(* caller raises on FAILED and CONFLICT and the scheduler runs it again.   *)
Retry(p) == result[p].status \notin Success /\ Begin(p)

Fairness == \A p \in Publishers : WF_vars(Call(p)) /\ WF_vars(Retry(p))

FairSpec == Spec /\ Fairness

-----------------------------------------------------------------------------
Labels ==
  {"idle", "head_manifest", "head_data", "put_data", "write_data", "check_data", "get_data",
   "put_manifest", "write_manifest", "validate_head", "validate_manifest", "validate_data"}

Details ==
  { "none", "object_store_failure", "data_write_not_visible", "invalid_existing_data",
    "data_exists_with_different_source_content", "committed_new_data",
    "recovered_matching_orphan_data", "manifest_exists_but_data_missing",
    "invalid_existing_manifest", "manifest_data_checksum_mismatch",
    "manifest_source_content_checksum_mismatch", "source_content_conflict",
    "verified_identical_retry", "verified_independent_replay_preserved_first_ingestion" }

Results ==
  [ status  : Success \cup {"none", "conflict", "failed", "crashed"},
    detail  : Details,
    payload : Payloads \cup {Absent} ]

TypeOK ==
  /\ data \in Payloads \cup {Absent, Partial}
  /\ manifest \in Manifests \cup {Absent, Partial}
  /\ pc \in [Publishers -> Labels]
  /\ offer \in [Publishers -> Payloads \cup {Absent}]
  /\ stored \in [Publishers -> Payloads \cup {Absent}]
  /\ read \in [Publishers -> Manifests \cup {Absent}]
  /\ fresh \in [Publishers -> BOOLEAN]
  /\ result \in [Publishers -> Results]
  /\ attempts \in [Publishers -> 0 .. MaxAttempts]
  /\ faults \in 0 .. MaxFaults
  /\ acks \subseteq [call : Publishers \X (1 .. MaxAttempts), status : Success,
                     content : Contents, payload : Payloads]

(* committed_manifest: what a consumer of the manifest key is given, the   *)
(* manifest verified against the object it names, or a raised error.       *)
ReaderAccepts ==
  /\ manifest \in Manifests
  /\ data \in Payloads
  /\ manifest.checksum = data
  /\ manifest.source_content = data.content

(* On S3 the manifest is the commit boundary: whenever list_committed finds the  *)
(* key, whatever callers were interrupted, the reader's verification of    *)
(* the manifest against the stored bytes succeeds.                         *)
ListedIsReadable == store = "s3" /\ manifest # Absent => ReaderAccepts

(* No call that came back a success is ever taken back: the committed      *)
(* payload is the one it was told of and holds the content it offered.     *)
AcksDurable ==
  \A a \in acks :
    /\ manifest = ManifestFor(a.payload)
    /\ data = a.payload
    /\ data.content = a.content

(* Of all calls on one identity at most one is told that it published. *)
AtMostOnePublishes ==
  \A a, b \in acks : a.status = "published" /\ b.status = "published" => a = b

(* Immutable-object semantics (object_store.py:1), which S3 keeps and the  *)
(* local store does not: an object that can be seen has the bytes it will  *)
(* always have.                                                            *)
ObjectsImmutable ==
  [][store = "s3" =>
       (data # Absent => data' = data) /\ (manifest # Absent => manifest' = manifest)]_vars

(* Replaying the content that is stored is at worst retryable, never a     *)
(* conflict (architecture.md:100: identical replay is a verified no-op).   *)
ConflictMeansDivergence ==
  \A p \in Publishers :
    result[p].status = "conflict" => data # Absent /\ data.content # offer[p].content

(* The store calls of concurrent publishers, interrupted anywhere, act as  *)
(* one write-once register.                                                *)
Register ==
  INSTANCE CommitOnce
    WITH Calls <- Publishers \X (1 .. MaxAttempts),
         committed <- IF manifest \in Manifests THEN manifest.checksum ELSE Absent

ImplementsCommitOnce == Register!Spec

(* On S3 a caller with a retry left for every fault, and the same content  *)
(* as every other caller, is told of success in the end.  On the local     *)
(* store some caller is, unless a half-written object is left for good: a  *)
(* caller that looks at one meanwhile is told of a conflict.               *)
RetriesSucceed ==
  /\ \A p \in Publishers : <>(store = "local" \/ result[p].status \in Success)
  /\ <>[](Partial \in {data, manifest}) \/ <>(\E p \in Publishers : result[p].status \in Success)
=================================================================================

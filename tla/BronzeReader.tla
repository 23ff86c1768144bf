------------------------------ MODULE BronzeReader ------------------------------
(***************************************************************************)
(* verify_committed_batch (aws-native/mdep_silver/manifest.py) beside the  *)
(* publishers of BronzePublication, and the Spark read that follows it: a  *)
(* Silver job or a validation is given a manifest key, perhaps of a batch  *)
(* that is still being published, verifies the manifest against the bytes  *)
(* of its data object, one store call at a time, and then has Spark read   *)
(* the object again by its path.                                           *)
(*                                                                         *)
(* The identity fields and paths of a manifest are those of its keys, and  *)
(* the versions, owners and sizes are those the publisher writes; one of   *)
(* another writer is outside the model.                                    *)
(***************************************************************************)
EXTENDS BronzePublication

VARIABLES
  reader,    \* the store call the reader makes next
  claimed,   \* the manifest it parsed
  verified,  \* the payload it verified: the VerifiedBatch
  consumed,  \* the payload Spark read
  refusal,   \* why the last verification failed
  known      \* history: some call had succeeded before this verification

reading == <<reader, claimed, verified, consumed, refusal, known>>

Refusals ==
  { "manifest_unreadable_or_malformed", "committed_data_object_missing",
    "committed_data_object_unreadable", "payload_checksum_mismatch",
    "source_content_checksum_mismatch", "object_store_failure" }

-----------------------------------------------------------------------------
ReaderInit ==
  /\ Init
  /\ reader = "idle" /\ claimed = Absent /\ verified = Absent /\ consumed = Absent
  /\ refusal = "none" /\ known = FALSE

Step(label) == reader' = label /\ UNCHANGED store

Refuse(reason) ==
  /\ Step("idle")
  /\ refusal' = reason
  /\ UNCHANGED <<claimed, verified, consumed, known>>

(* A call of the S3 client that comes back with an error. *)
ReadFault ==
  /\ Fault("read")
  /\ UNCHANGED <<data, manifest, pc, offer, stored, read, fresh, result, attempts, acks>>

Publication == <<data, manifest, pc, offer, stored, read, fresh, result, attempts, faults, acks>>

StartVerify ==
  /\ reader = "idle"
  /\ Step("get_manifest")
  /\ claimed' = Absent /\ verified' = Absent /\ consumed' = Absent
  /\ refusal' = "none"
  /\ known' = (acks # {})
  /\ UNCHANGED Publication

(* get_bytes(manifest_key) and the checks of the manifest by itself. *)
ReadManifest ==
  /\ reader = "get_manifest"
  /\ \/ /\ manifest \in Manifests
        /\ claimed' = manifest
        /\ Step("head_data")
        /\ UNCHANGED <<Publication, verified, consumed, refusal, known>>
     \/ /\ manifest \notin Manifests
        /\ Refuse("manifest_unreadable_or_malformed")
        /\ UNCHANGED Publication
     \/ /\ ReadFault
        /\ Refuse("manifest_unreadable_or_malformed")

(* head(data_key), whose failure no handler of this function catches. *)
FindData ==
  /\ reader = "head_data"
  /\ \/ /\ data # Absent
        /\ Step("get_data")
        /\ UNCHANGED <<Publication, claimed, verified, consumed, refusal, known>>
     \/ /\ data = Absent
        /\ Refuse("committed_data_object_missing")
        /\ UNCHANGED Publication
     \/ /\ ReadFault
        /\ Refuse("object_store_failure")

(* The checksums of the manifest against those of the bytes. *)
Agrees(m, x) == m.checksum = x /\ m.source_content = x.content

(* get_bytes(data_key) and its comparison with the manifest. *)
ReadData ==
  /\ reader = "get_data"
  /\ \/ /\ data \in Payloads /\ Agrees(claimed, data)
        /\ verified' = data
        /\ Step("spark")
        /\ UNCHANGED <<Publication, claimed, consumed, refusal, known>>
     \/ /\ data \in Payloads /\ ~ Agrees(claimed, data)
        /\ Refuse(IF claimed.checksum # data THEN "payload_checksum_mismatch"
                  ELSE "source_content_checksum_mismatch")
        /\ UNCHANGED Publication
     \/ /\ data \notin Payloads
        /\ Refuse("committed_data_object_unreadable")
        /\ UNCHANGED Publication
     \/ /\ ReadFault
        /\ Refuse("committed_data_object_unreadable")

(* spark.read.parquet(data_path), after the verification. *)
Consume ==
  /\ reader = "spark"
  /\ consumed' = data
  /\ Step("idle")
  /\ UNCHANGED <<Publication, claimed, verified, refusal, known>>

ReaderNext ==
  \/ Next /\ UNCHANGED reading
  \/ StartVerify \/ ReadManifest \/ FindData \/ ReadData \/ Consume

ReaderSpec == ReaderInit /\ [][ReaderNext]_<<vars, reading>>

-----------------------------------------------------------------------------
(* The bytes Spark reads by path are the bytes that were verified, and the *)
(* ones every successful publisher was told of, on both stores: nothing    *)
(* that happens between the verification and the read changes the object   *)
(* (manifest.py:87-92, spark_job.py:344).                                  *)
ConsumedIsVerified ==
  consumed # Absent => consumed = verified /\ \A a \in acks : a.payload = consumed

(* A batch some caller was told is committed never fails verification,     *)
(* except for a failed read: Silver is not refused what Bronze reported.   *)
ReportedVerifies ==
  known /\ refusal # "none" =>
    /\ faults > 0
    /\ refusal \in { "manifest_unreadable_or_malformed", "object_store_failure",
                     "committed_data_object_unreadable" }
================================================================================

--------------------------- MODULE BatchBronzeProofs ---------------------------
(***************************************************************************)
(* Safety of the V1 publisher for any number of attempts and failures.     *)
(***************************************************************************)
EXTENDS BatchBronze, TLAPS

(* What an attempt past a step knows: the data it found or put is there,   *)
(* whole on S3, and its own if it was not told otherwise; and the manifest *)
(* once it has been put.                                                   *)
AttemptInv ==
  \A a \in Attempts :
    /\ pc[a] \in {"manifest", "return"} \cup Results => data # Absent
    /\ pc[a] \in {"return"} \cup Results => manifest # Absent
    /\ pc[a] \in {"manifest", "return"} /\ ~ found[a] => data = a
    /\ pc[a] = "published" => data = a

StoreInv ==
  /\ whole => data # Absent
  /\ store = "s3" /\ data # Absent => whole
  /\ manifest # Absent => data # Absent

IInv == TypeOK /\ AttemptInv /\ StoreInv

-----------------------------------------------------------------------------
(* The inductive invariant holds initially. *)
LEMMA InitInv == Init => IInv
  BY AbsentAssumption DEF Init, IInv, TypeOK, AttemptInv, StoreInv, Results

(* Every step preserves the invariant: no object is ever replaced, and an  *)
(* attempt moves on only past an object that is there.                     *)
LEMMA InvStep == IInv /\ [Next]_vars => IInv'
<1>1. SUFFICES ASSUME IInv, [Next]_vars PROVE IInv'
  OBVIOUS
<1> USE AbsentAssumption DEF IInv, TypeOK, AttemptInv, StoreInv, Results, Goto
<1>2. CASE UNCHANGED vars
  BY <1>1, <1>2 DEF vars
<1>3. ASSUME NEW a \in Attempts, Check(a) PROVE IInv'
  BY <1>1, <1>3 DEF Check, Completed
<1>4. ASSUME NEW a \in Attempts, PutData(a) PROVE IInv'
  <2>1. PICK resent \in BOOLEAN : found' = [found EXCEPT ![a] = resent]
    BY <1>4 DEF PutData
  <2>2. store \in {"s3", "local"}
    BY <1>1, ConstantsAssumption
  <2>3. \A b \in Attempts : pc[b] \in {"start", "put", "failed"}
    BY <1>1, <1>4 DEF PutData, CreateData
  <2> QED
    BY <1>1, <1>4, <2>1, <2>2, <2>3 DEF PutData, CreateData
<1>5. ASSUME NEW a \in Attempts, CopyData(a) PROVE IInv'
  BY <1>1, <1>5 DEF CopyData
<1>6. ASSUME NEW a \in Attempts, PutDataRefused(a) PROVE IInv'
  BY <1>1, <1>6 DEF PutDataRefused, Refused
<1>7. ASSUME NEW a \in Attempts, PutManifest(a) PROVE IInv'
  BY <1>1, <1>7 DEF PutManifest, PutManifestIfAbsent
<1>8. ASSUME NEW a \in Attempts, Return(a) PROVE IInv'
  BY <1>1, <1>8 DEF Return
<1>9. ASSUME NEW a \in Attempts, Fail(a) PROVE IInv'
  BY <1>1, <1>9 DEF Fail, AfterFailure
<1> QED
  BY <1>1, <1>2, <1>3, <1>4, <1>5, <1>6, <1>7, <1>8, <1>9 DEF Next, Step

(* The inductive invariant holds in every reachable state. *)
THEOREM InvariantHolds == Spec => []IInv
<1>1. Init => IInv
  BY InitInv
<1>2. IInv /\ [Next]_vars => IInv'
  BY InvStep
<1> QED
  BY <1>1, <1>2, PTL DEF Spec

-----------------------------------------------------------------------------
(* Type correctness of publish for any number of attempts. *)
THEOREM TypeCorrect == Spec => []TypeOK
<1>1. IInv => TypeOK
  BY DEF IInv
<1> QED
  BY <1>1, InvariantHolds, PTL

(* On S3 whoever sees a manifest can read whole data, for any number of    *)
(* attempts interrupted anywhere (bronze.py:196-221).                      *)
THEOREM CompletionIsWhole == Spec => []CompletedIsWhole
<1>1. IInv => CompletedIsWhole
  BY DEF IInv, StoreInv, CompletedIsWhole
<1> QED
  BY <1>1, InvariantHolds, PTL

(* "published" is told to the one attempt that created the data, and every *)
(* success finds both objects (bronze.py:221).                             *)
THEOREM ResultsAreTrue == Spec => []ResultsTellTheTruth
<1>1. IInv => ResultsTellTheTruth
  BY DEF IInv, AttemptInv, ResultsTellTheTruth
<1> QED
  BY <1>1, InvariantHolds, PTL

(* The first object under either key stays for good, over both stores      *)
(* (bronze.py:189-190).                                                    *)
THEOREM FirstObjectStays == Spec => FirstObjectCanonical
<1> DEFINE Stays ==
      /\ data # Absent => data' = data
      /\ manifest # Absent => manifest' = manifest
      /\ whole => whole'
<1>1. IInv /\ [Next]_vars => [Stays]_vars
  <2>1. SUFFICES ASSUME IInv, Next PROVE Stays
    OBVIOUS
  <2>2. PICK a \in Attempts : Step(a) \/ Fail(a)
    BY <2>1 DEF Next
  <2> QED
    BY <2>1, <2>2
    DEF IInv, StoreInv, Step, Check, PutData, CreateData, CopyData, PutDataRefused,
        PutManifest, PutManifestIfAbsent, Return, Fail
<1>2. [][Stays]_vars => FirstObjectCanonical
  BY PTL DEF FirstObjectCanonical, Stays
<1> QED
  BY <1>1, <1>2, InvariantHolds, PTL DEF Spec
================================================================================

------------------------ MODULE BronzePublicationProofs ------------------------
(***************************************************************************)
(* Proofs about BronzePublication for every number of callers, contents,   *)
(* ingestion times, faults and attempts, and for both stores: what a       *)
(* caller was told stays true, at most one call publishes, a listed        *)
(* manifest verifies on S3, and the whole acts as CommitOnce.  The last    *)
(* section proves what BronzeReader promises a verifying reader beside it. *)
(***************************************************************************)
EXTENDS BronzeReader, TLAPS

(* What each caller knows at each store call, and who is writing. *)
CallerInv ==
  /\ \A p \in Publishers :
       pc[p] # "idle" => offer[p] \in Payloads /\ attempts[p] \in 1 .. MaxAttempts
  /\ \A p \in Publishers : pc[p] = "write_data" => data = Partial
  /\ \A p \in Publishers :
       pc[p] \in {"put_manifest", "write_manifest"} =>
         data \in Payloads /\ stored[p] = data /\ data.content = offer[p].content
  /\ \A p \in Publishers : pc[p] = "write_manifest" => manifest = Partial
  /\ \A p \in Publishers : pc[p] = "validate_data" => manifest \in Manifests /\ read[p] = manifest
  /\ \A p, q \in Publishers :
       pc[p] = pc[q] /\ pc[p] \in {"write_data", "write_manifest"} => p = q

(* What the two objects have to do with each other, and with the results.  *)
CommitInv ==
  /\ manifest \in Manifests => data \in Payloads /\ manifest = ManifestFor(data)
  /\ AcksDurable
  /\ AtMostOnePublishes

(* On S3 an object appears with all its bytes. *)
StoreInv ==
  store = "s3" =>
    /\ data # Partial /\ manifest # Partial
    /\ \A p \in Publishers : pc[p] \notin {"write_data", "write_manifest"}

IInv == TypeOK /\ CallerInv /\ CommitInv /\ StoreInv

-----------------------------------------------------------------------------
(* Everything starts idle, with nothing stored and nothing acknowledged. *)
LEMMA InitInv == Init => IInv
<1> SUFFICES ASSUME Init PROVE IInv
  OBVIOUS
<1>1. NoResult \in Results
  BY DEF NoResult, Results, Details
<1>2. TypeOK
  BY <1>1, BoundsAssumption DEF Init, TypeOK, Labels
<1>3. CallerInv
  BY DEF Init, CallerInv
<1>4. CommitInv
  BY ObjectAssumption DEF Init, CommitInv, AcksDurable, AtMostOnePublishes
<1>5. StoreInv
  BY ObjectAssumption DEF Init, StoreInv
<1>. QED
  BY <1>2, <1>3, <1>4, <1>5 DEF IInv

(* The verdict is a result, and a success only for matching content. *)
LEMMA VerdictFacts ==
  ASSUME NEW x \in Payloads, NEW mine \in Payloads, NEW m
  PROVE  /\ Verdict(m, x, mine) \in Results
         /\ Verdict(m, x, mine).status \in {"conflict", "already_published"}
         /\ Verdict(m, x, mine).status = "already_published" =>
              /\ m.checksum = x /\ x.content = mine.content
              /\ Verdict(m, x, mine).payload = x
<1>1. ASSUME NEW detail \in Details
      PROVE  /\ Result("conflict", detail, mine) \in Results
             /\ Result("already_published", detail, x) \in Results
             /\ Result("conflict", detail, mine).status = "conflict"
             /\ Result("already_published", detail, x).payload = x
  BY DEF Result, Results, Success
<1>2. CASE m.checksum # x
  BY <1>1, <1>2 DEF Verdict, Details
<1>3. CASE m.checksum = x /\ m.source_content # x.content
  BY <1>1, <1>3 DEF Verdict, Details
<1>4. CASE m.checksum = x /\ m.source_content = x.content /\ x.content # mine.content
  BY <1>1, <1>4 DEF Verdict, Details
<1>5. CASE m.checksum = x /\ m.source_content = x.content /\ x.content = mine.content
  <2> DEFINE detail == IF x = mine THEN "verified_identical_retry"
                       ELSE "verified_independent_replay_preserved_first_ingestion"
  <2>1. detail \in Details
    BY DEF Details
  <2>2. Verdict(m, x, mine) = Result("already_published", detail, x)
    BY <1>5 DEF Verdict
  <2>3. Result("already_published", detail, x).status = "already_published"
    BY DEF Result
  <2> HIDE DEF detail
  <2>4. /\ Result("already_published", detail, x) \in Results
        /\ Result("already_published", detail, x).payload = x
    BY <1>1, <2>1
  <2>5. /\ Verdict(m, x, mine) \in Results
        /\ Verdict(m, x, mine).status = "already_published"
        /\ Verdict(m, x, mine).payload = x
    BY <2>2, <2>3, <2>4
  <2>. QED
    BY <1>5, <2>5
<1>. QED
  BY <1>2, <1>3, <1>4, <1>5

(* Returning from publish keeps results and acknowledgments typed. *)
LEMMA ReturnType ==
  ASSUME TypeOK, CallerInv, NEW p \in Publishers, pc[p] # "idle", NEW r \in Results,
         r.status \in Success => r.payload \in Payloads,
         Return(p, r)
  PROVE  /\ pc' \in [Publishers -> Labels]
         /\ result' \in [Publishers -> Results]
         /\ acks' \subseteq [call : Publishers \X (1 .. MaxAttempts), status : Success,
                             content : Contents, payload : Payloads]
<1> DEFINE AckSet == [call : Publishers \X (1 .. MaxAttempts), status : Success,
                      content : Contents, payload : Payloads]
           ack == [call |-> <<p, attempts[p]>>, status |-> r.status,
                   content |-> offer[p].content, payload |-> r.payload]
<1>1. offer[p].content \in Contents /\ attempts[p] \in 1 .. MaxAttempts
  BY DEF CallerInv, Payloads
<1>2. pc' \in [Publishers -> Labels]
  BY DEF Return, Goto, TypeOK, Labels
<1>3. result' \in [Publishers -> Results]
  BY DEF Return, TypeOK
<1>4. acks \subseteq AckSet
  BY DEF TypeOK
<1>5. acks' = IF r.status \in Success THEN acks \cup {ack} ELSE acks
  BY DEF Return
<1>6. r.status \in Success => ack \in AckSet
  BY <1>1
<1>7. acks' \subseteq AckSet
  <2> HIDE DEF ack, AckSet
  <2>. QED
    BY <1>4, <1>5, <1>6
<1>. QED
  BY <1>2, <1>3, <1>7

(* The bound on faults holds over a fault. *)
LEMMA FaultType ==
  ASSUME TypeOK, NEW kind, Fault(kind)
  PROVE  faults' \in 0 .. MaxFaults
BY BoundsAssumption DEF TypeOK, Fault

(* A call that ends without success keeps everything typed. *)
LEMMA FailureType ==
  ASSUME TypeOK, CallerInv, NEW p \in Publishers, pc[p] # "idle",
         NEW status \in {"conflict", "failed", "crashed"}, NEW detail \in Details,
         Return(p, Result(status, detail, offer[p]))
  PROVE  /\ pc' \in [Publishers -> Labels]
         /\ result' \in [Publishers -> Results]
         /\ acks' = acks
<1> DEFINE r == Result(status, detail, offer[p])
<1>1. offer[p] \in Payloads
  BY DEF CallerInv
<1>2. r \in Results /\ r.status \notin Success
  BY <1>1 DEF Result, Results, Success
<1>3. acks' = acks
  <2>1. Return(p, r)
    OBVIOUS
  <2> HIDE DEF r
  <2>. QED
    BY <1>2, <2>1 DEF Return
<1>4. pc' \in [Publishers -> Labels] /\ result' \in [Publishers -> Results]
  <2>1. Return(p, r)
    OBVIOUS
  <2> HIDE DEF r
  <2>. QED
    BY <1>2, <2>1, ReturnType
<1>. QED
  BY <1>3, <1>4

(* The result of a new publication, on S3 and on the local store. *)
LEMMA PublishedFacts ==
  ASSUME NEW p \in Publishers, stored[p] \in Payloads
  PROVE  /\ PublishedResult(p) \in Results
         /\ PublishedResult(p).status = "published"
         /\ PublishedResult(p).payload = stored[p]
<1> DEFINE detail == IF fresh[p] THEN "committed_new_data" ELSE "recovered_matching_orphan_data"
<1>1. detail \in Details
  BY DEF Details
<1>2. PublishedResult(p) = Result("published", detail, stored[p])
  BY DEF PublishedResult
<1> HIDE DEF detail
<1>. QED
  BY <1>1, <1>2 DEF Result, Results, Success

(* A failed store call. *)
LEMMA FailType ==
  ASSUME TypeOK, CallerInv, NEW p \in Publishers, pc[p] # "idle", NEW kind, Fail(p, kind)
  PROVE  /\ pc' \in [Publishers -> Labels]
         /\ result' \in [Publishers -> Results]
         /\ acks' = acks
         /\ faults' \in 0 .. MaxFaults
BY FailureType, FaultType DEF Fail, Details

(* A step of publish that goes on to its next store call. *)
LEMMA ContinueType ==
  ASSUME TypeOK, NEW p \in Publishers, NEW label \in Labels, Continue(p, label)
  PROVE  /\ pc' \in [Publishers -> Labels]
         /\ result' \in [Publishers -> Results]
         /\ acks' = acks
         /\ faults' \in 0 .. MaxFaults
BY DEF Continue, Goto, NoFault, TypeOK

-----------------------------------------------------------------------------
(* Every action keeps every variable in its type. *)
LEMMA TypeStep == TypeOK /\ CallerInv /\ [Next]_vars => TypeOK'
<1> SUFFICES ASSUME TypeOK, CallerInv, [Next]_vars PROVE TypeOK'
  OBVIOUS
<1> DEFINE Control == /\ pc' \in [Publishers -> Labels]
                      /\ result' \in [Publishers -> Results]
                      /\ acks' = acks
                      /\ faults' \in 0 .. MaxFaults
<1>1. CASE UNCHANGED vars
  BY <1>1 DEF vars, objects, TypeOK
<1>2. ASSUME NEW p \in Publishers, Begin(p) PROVE TypeOK'
  <2>1. attempts' \in [Publishers -> 0 .. MaxAttempts]
    BY <1>2, BoundsAssumption DEF Begin, TypeOK
  <2>2. result' \in [Publishers -> Results]
    <3>1. NoResult \in Results
      BY DEF NoResult, Results, Details
    <3>. QED
      BY <1>2, <3>1 DEF Begin, TypeOK
  <2>3. pc' \in [Publishers -> Labels]
    BY <1>2 DEF Begin, Goto, TypeOK, Labels
  <2>. QED
    BY <1>2, <2>1, <2>2, <2>3 DEF Begin, objects, TypeOK
<1>3. ASSUME NEW p \in Publishers, HeadManifest(p) PROVE TypeOK'
  <2>1. Control
    BY <1>3, FailType, ContinueType DEF HeadManifest, Labels
  <2>. QED
    BY <1>3, <2>1 DEF HeadManifest, objects, TypeOK
<1>4. ASSUME NEW p \in Publishers, HeadData(p) PROVE TypeOK'
  <2>1. Control
    BY <1>4, FailType, ContinueType DEF HeadData, Labels
  <2>. QED
    BY <1>4, <2>1 DEF HeadData, objects, TypeOK
<1>5. ASSUME NEW p \in Publishers, PutData(p) PROVE TypeOK'
  <2>1. Control
    <3>1. CASE RaceLost(p) /\ Goto(p, "check_data") /\ UNCHANGED <<data, fresh, result, acks>>
      BY <3>1, FaultType DEF RaceLost, Goto, TypeOK, Labels
    <3>2. CASE Fault("resent") /\ Goto(p, "check_data") /\ UNCHANGED <<fresh, result, acks>>
      BY <3>2, FaultType DEF Goto, TypeOK, Labels
    <3>3. CASE Continue(p, "check_data") \/ Continue(p, "write_data") \/ Fail(p, "write")
               \/ Fail(p, "lost")
      BY <1>5, <3>3, FailType, ContinueType DEF PutData, Labels
    <3>. QED
      BY <1>5, <3>1, <3>2, <3>3 DEF PutData
  <2>2. offer[p] \in Payloads
    BY <1>5 DEF PutData, CallerInv
  <2>3. data' \in Payloads \cup {Absent, Partial} /\ fresh' \in [Publishers -> BOOLEAN]
    BY <1>5, <2>2 DEF PutData, TypeOK
  <2>. QED
    BY <1>5, <2>1, <2>3 DEF PutData, TypeOK
<1>6. ASSUME NEW p \in Publishers, WriteData(p) PROVE TypeOK'
  <2>1. Control
    BY <1>6, ContinueType DEF WriteData, Labels
  <2>2. offer[p] \in Payloads
    BY <1>6 DEF WriteData, CallerInv
  <2>. QED
    BY <1>6, <2>1, <2>2 DEF WriteData, TypeOK
<1>7. ASSUME NEW p \in Publishers, CheckData(p) PROVE TypeOK'
  <2>1. Control
    <3>1. CASE NoFault /\ Return(p, Result("failed", "data_write_not_visible", offer[p]))
      BY <1>7, <3>1, FailureType DEF CheckData, NoFault, TypeOK, Details
    <3>2. CASE Continue(p, "get_data") \/ Fail(p, "read")
      BY <1>7, <3>2, FailType, ContinueType DEF CheckData, Labels
    <3>. QED
      BY <1>7, <3>1, <3>2 DEF CheckData
  <2>. QED
    BY <1>7, <2>1 DEF CheckData, objects, TypeOK
<1>8. ASSUME NEW p \in Publishers, GetData(p) PROVE TypeOK'
  <2>1. pc[p] # "idle"
    BY <1>8 DEF GetData
  <2>2. CASE data \in Payloads /\ stored' = [stored EXCEPT ![p] = data] /\ Continue(p, "put_manifest")
    <3>1. Control
      BY <2>2, ContinueType DEF Labels
    <3>. QED
      BY <1>8, <2>2, <3>1 DEF GetData, objects, TypeOK
  <2>3. ASSUME NEW detail \in Details, Conflict(p, detail), NoFault \/ Fault("read"), UNCHANGED stored
        PROVE  TypeOK'
    <3>1. Control
      BY <2>1, <2>3, FailureType, FaultType DEF Conflict, NoFault, TypeOK
    <3>. QED
      BY <1>8, <2>3, <3>1 DEF GetData, objects, TypeOK
  <2>. QED
    BY <1>8, <2>2, <2>3 DEF GetData, Details
<1>9. ASSUME NEW p \in Publishers, PutManifest(p) PROVE TypeOK'
  <2>1. pc[p] # "idle" /\ stored[p] \in Payloads
    BY <1>9 DEF PutManifest, CallerInv
  <2>2. ManifestFor(stored[p]) \in Manifests
    BY <2>1 DEF Manifests
  <2>3. manifest' \in Manifests \cup {Absent, Partial}
    BY <1>9, <2>2 DEF PutManifest, TypeOK
  <2>4. CASE NoFault /\ Return(p, PublishedResult(p))
    <3>1. /\ pc' \in [Publishers -> Labels] /\ result' \in [Publishers -> Results]
          /\ acks' \subseteq [call : Publishers \X (1 .. MaxAttempts), status : Success,
                              content : Contents, payload : Payloads]
      BY <2>1, <2>4, PublishedFacts, ReturnType
    <3>. QED
      BY <1>9, <2>3, <2>4, <3>1 DEF PutManifest, NoFault, TypeOK
  <2>5. CASE Continue(p, "write_manifest") \/ Continue(p, "validate_head") \/ Fail(p, "write")
             \/ Fail(p, "lost")
    <3>1. Control
      BY <2>1, <2>5, FailType, ContinueType DEF Labels
    <3>. QED
      BY <1>9, <2>3, <3>1 DEF PutManifest, TypeOK
  <2>6. CASE (RaceLost(p) \/ Fault("resent")) /\ Goto(p, "validate_head") /\ UNCHANGED <<result, acks>>
    <3>1. Control
      BY <2>6, FaultType DEF RaceLost, Goto, TypeOK, Labels
    <3>. QED
      BY <1>9, <2>3, <3>1 DEF PutManifest, TypeOK
  <2>. QED
    BY <1>9, <2>4, <2>5, <2>6 DEF PutManifest
<1>10. ASSUME NEW p \in Publishers, WriteManifest(p) PROVE TypeOK'
  <2>1. pc[p] # "idle" /\ stored[p] \in Payloads
    BY <1>10 DEF WriteManifest, CallerInv
  <2>2. ManifestFor(stored[p]) \in Manifests
    BY <2>1 DEF Manifests
  <2>3. /\ pc' \in [Publishers -> Labels] /\ result' \in [Publishers -> Results]
        /\ acks' \subseteq [call : Publishers \X (1 .. MaxAttempts), status : Success,
                            content : Contents, payload : Payloads]
    BY <1>10, <2>1, PublishedFacts, ReturnType DEF WriteManifest
  <2>. QED
    BY <1>10, <2>2, <2>3 DEF WriteManifest, NoFault, TypeOK
<1>11. ASSUME NEW p \in Publishers, ValidateHead(p) PROVE TypeOK'
  <2>1. Control
    <3>1. CASE NoFault /\ Conflict(p, "manifest_exists_but_data_missing")
      BY <1>11, <3>1, FailureType DEF ValidateHead, Conflict, NoFault, TypeOK, Details
    <3>2. CASE Continue(p, "validate_manifest") \/ Fail(p, "read")
      BY <1>11, <3>2, FailType, ContinueType DEF ValidateHead, Labels
    <3>. QED
      BY <1>11, <3>1, <3>2 DEF ValidateHead
  <2>. QED
    BY <1>11, <2>1 DEF ValidateHead, objects, TypeOK
<1>12. ASSUME NEW p \in Publishers, ValidateManifest(p) PROVE TypeOK'
  <2>1. Control
    <3>1. CASE Conflict(p, "invalid_existing_manifest") /\ (NoFault \/ Fault("read"))
      BY <1>12, <3>1, FailureType, FaultType
         DEF ValidateManifest, Conflict, NoFault, TypeOK, Details
    <3>2. CASE Continue(p, "validate_data")
      BY <3>2, ContinueType DEF Labels
    <3>. QED
      BY <1>12, <3>1, <3>2 DEF ValidateManifest
  <2>2. read' \in [Publishers -> Manifests \cup {Absent}]
    BY <1>12 DEF ValidateManifest, TypeOK
  <2>. QED
    BY <1>12, <2>1, <2>2 DEF ValidateManifest, objects, TypeOK
<1>13. ASSUME NEW p \in Publishers, ValidateData(p) PROVE TypeOK'
  <2>1. pc[p] # "idle" /\ offer[p] \in Payloads
    BY <1>13 DEF ValidateData, CallerInv
  <2>2. CASE /\ data \in Payloads /\ stored' = [stored EXCEPT ![p] = data] /\ NoFault
             /\ Return(p, Verdict(read[p], data, offer[p]))
    <3> DEFINE r == Verdict(read[p], data, offer[p])
    <3>0. /\ r \in Results /\ r.status \in {"conflict", "already_published"}
          /\ r.status = "already_published" => r.payload = data
      BY <2>1, <2>2, VerdictFacts
    <3>1. r \in Results /\ (r.status \in Success => r.payload \in Payloads)
      <4> HIDE DEF r
      <4>. QED
        BY <2>2, <3>0 DEF Success
    <3>2. /\ pc' \in [Publishers -> Labels] /\ result' \in [Publishers -> Results]
          /\ acks' \subseteq [call : Publishers \X (1 .. MaxAttempts), status : Success,
                              content : Contents, payload : Payloads]
      BY <2>1, <2>2, <3>1, ReturnType
    <3>. QED
      BY <1>13, <2>2, <3>2 DEF ValidateData, NoFault, objects, TypeOK
  <2>3. CASE Conflict(p, "invalid_existing_manifest") /\ (NoFault \/ Fault("read")) /\ UNCHANGED stored
    <3>1. Control
      BY <2>1, <2>3, FailureType, FaultType DEF Conflict, NoFault, TypeOK, Details
    <3>. QED
      BY <1>13, <2>3, <3>1 DEF ValidateData, objects, TypeOK
  <2>. QED
    BY <1>13, <2>2, <2>3 DEF ValidateData
<1>14. ASSUME NEW p \in Publishers, Crash(p) PROVE TypeOK'
  <2>1. Control
    BY <1>14, FailureType, FaultType DEF Crash, Details
  <2>. QED
    BY <1>14, <2>1 DEF Crash, objects, TypeOK
<1>15. CASE Done
  BY <1>1, <1>15 DEF Done
<1>. QED
  BY <1>1, <1>2, <1>3, <1>4, <1>5, <1>6, <1>7, <1>8, <1>9, <1>10, <1>11, <1>12, <1>13, <1>14,
     <1>15 DEF Next, Call

-----------------------------------------------------------------------------
(* What each caller knows survives its own steps and the others'. *)
LEMMA CallerStep == IInv /\ [Next]_vars => CallerInv'
<1> SUFFICES ASSUME IInv, [Next]_vars PROVE CallerInv'
  OBVIOUS
<1> USE ObjectAssumption DEF IInv, CallerInv
<1>1. CASE UNCHANGED vars
  BY <1>1 DEF vars, objects
<1>2. ASSUME NEW p \in Publishers, Begin(p) PROVE CallerInv'
  BY <1>2, BoundsAssumption DEF Begin, Goto, objects, TypeOK
<1>3. ASSUME NEW p \in Publishers, HeadManifest(p) PROVE CallerInv'
  BY <1>3 DEF HeadManifest, Continue, Fail, Return, Goto, objects, TypeOK
<1>4. ASSUME NEW p \in Publishers, HeadData(p) PROVE CallerInv'
  BY <1>4 DEF HeadData, Continue, Fail, Return, Goto, objects, TypeOK
<1>5. ASSUME NEW p \in Publishers, PutData(p) PROVE CallerInv'
  BY <1>5 DEF PutData, Continue, Fail, Return, Goto, PutAccepted, objects, TypeOK
<1>6. ASSUME NEW p \in Publishers, WriteData(p) PROVE CallerInv'
  BY <1>6 DEF WriteData, Continue, Goto, objects, TypeOK
<1>7. ASSUME NEW p \in Publishers, CheckData(p) PROVE CallerInv'
  BY <1>7 DEF CheckData, Continue, Fail, Return, Goto, objects, TypeOK
<1>8. ASSUME NEW p \in Publishers, GetData(p) PROVE CallerInv'
  BY <1>8 DEF GetData, Continue, Conflict, Return, Goto, objects, TypeOK
<1>9. ASSUME NEW p \in Publishers, PutManifest(p) PROVE CallerInv'
  BY <1>9 DEF PutManifest, Continue, Fail, Return, Goto, PutAccepted, objects, TypeOK
<1>10. ASSUME NEW p \in Publishers, WriteManifest(p) PROVE CallerInv'
  BY <1>10 DEF WriteManifest, Return, Goto, objects, TypeOK
<1>11. ASSUME NEW p \in Publishers, ValidateHead(p) PROVE CallerInv'
  BY <1>11 DEF ValidateHead, Continue, Fail, Conflict, Return, Goto, objects, TypeOK
<1>12. ASSUME NEW p \in Publishers, ValidateManifest(p) PROVE CallerInv'
  BY <1>12 DEF ValidateManifest, Continue, Conflict, Return, Goto, objects, TypeOK
<1>13. ASSUME NEW p \in Publishers, ValidateData(p) PROVE CallerInv'
  BY <1>13 DEF ValidateData, Conflict, Return, Goto, objects, TypeOK
<1>14. ASSUME NEW p \in Publishers, Crash(p) PROVE CallerInv'
  BY <1>14 DEF Crash, Return, Goto, objects, TypeOK
<1>15. CASE Done
  BY <1>1, <1>15 DEF Done
<1>. QED
  BY <1>1, <1>2, <1>3, <1>4, <1>5, <1>6, <1>7, <1>8, <1>9, <1>10, <1>11, <1>12, <1>13, <1>14,
     <1>15 DEF Next, Call

(* The deployment keeps its store. *)
LEMMA StoreStays == [Next]_vars => store' = store
<1> SUFFICES ASSUME [Next]_vars PROVE store' = store
  OBVIOUS
<1>1. CASE UNCHANGED vars
  BY <1>1 DEF vars
<1>2. ASSUME NEW p \in Publishers, Begin(p) \/ Crash(p) PROVE store' = store
  BY <1>2 DEF Begin, Crash, Return, Goto
<1>3. ASSUME NEW p \in Publishers, HeadManifest(p) \/ HeadData(p) \/ CheckData(p) \/ GetData(p)
      PROVE  store' = store
  BY <1>3 DEF HeadManifest, HeadData, CheckData, GetData, Continue, Fail, Conflict, Return, Goto
<1>4. ASSUME NEW p \in Publishers, PutData(p) \/ WriteData(p) PROVE store' = store
  BY <1>4 DEF PutData, WriteData, Continue, Fail, Return, Goto
<1>5. ASSUME NEW p \in Publishers, PutManifest(p) \/ WriteManifest(p) PROVE store' = store
  BY <1>5 DEF PutManifest, WriteManifest, Continue, Fail, Return, Goto
<1>6. ASSUME NEW p \in Publishers, ValidateHead(p) \/ ValidateManifest(p) \/ ValidateData(p)
      PROVE  store' = store
  BY <1>6 DEF ValidateHead, ValidateManifest, ValidateData, Continue, Fail, Conflict, Return, Goto
<1>7. CASE Done
  BY <1>1, <1>7 DEF Done
<1>. QED
  BY <1>1, <1>2, <1>3, <1>4, <1>5, <1>6, <1>7 DEF Next, Call

(* On S3 no object is ever there without its bytes. *)
LEMMA StoreStep == IInv /\ [Next]_vars => StoreInv'
<1> SUFFICES ASSUME IInv, [Next]_vars, store' = "s3" PROVE StoreInv'
  BY DEF StoreInv
<1>0. store = "s3"
  BY StoreStays
<1> USE <1>0, ObjectAssumption DEF IInv, StoreInv
<1>1. CASE UNCHANGED vars
  BY <1>1 DEF vars, objects
<1>2. ASSUME NEW p \in Publishers, Begin(p) PROVE StoreInv'
  BY <1>2 DEF Begin, Goto, objects, TypeOK
<1>3. ASSUME NEW p \in Publishers, HeadManifest(p) PROVE StoreInv'
  BY <1>3 DEF HeadManifest, Continue, Fail, Return, Goto, objects, TypeOK
<1>4. ASSUME NEW p \in Publishers, HeadData(p) PROVE StoreInv'
  BY <1>4 DEF HeadData, Continue, Fail, Return, Goto, objects, TypeOK
<1>5. ASSUME NEW p \in Publishers, PutData(p) PROVE StoreInv'
  BY <1>5 DEF PutData, Continue, Fail, Return, Goto, PutAccepted, objects, TypeOK, CallerInv
<1>6. ASSUME NEW p \in Publishers, WriteData(p) PROVE StoreInv'
  BY <1>6 DEF WriteData, Continue, Goto, objects, TypeOK
<1>7. ASSUME NEW p \in Publishers, CheckData(p) PROVE StoreInv'
  BY <1>7 DEF CheckData, Continue, Fail, Return, Goto, objects, TypeOK
<1>8. ASSUME NEW p \in Publishers, GetData(p) PROVE StoreInv'
  BY <1>8 DEF GetData, Continue, Conflict, Return, Goto, objects, TypeOK
<1>9. ASSUME NEW p \in Publishers, PutManifest(p) PROVE StoreInv'
  BY <1>9 DEF PutManifest, Continue, Fail, Return, Goto, PutAccepted, objects, TypeOK,
                 CallerInv, ManifestFor, Manifests
<1>10. ASSUME NEW p \in Publishers, WriteManifest(p) PROVE StoreInv'
  BY <1>10 DEF WriteManifest, Return, Goto, objects, TypeOK
<1>11. ASSUME NEW p \in Publishers, ValidateHead(p) PROVE StoreInv'
  BY <1>11 DEF ValidateHead, Continue, Fail, Conflict, Return, Goto, objects, TypeOK
<1>12. ASSUME NEW p \in Publishers, ValidateManifest(p) PROVE StoreInv'
  BY <1>12 DEF ValidateManifest, Continue, Conflict, Return, Goto, objects, TypeOK
<1>13. ASSUME NEW p \in Publishers, ValidateData(p) PROVE StoreInv'
  BY <1>13 DEF ValidateData, Conflict, Return, Goto, objects, TypeOK
<1>14. ASSUME NEW p \in Publishers, Crash(p) PROVE StoreInv'
  BY <1>14 DEF Crash, Return, Goto, objects, TypeOK
<1>15. CASE Done
  BY <1>1, <1>15 DEF Done
<1>. QED
  BY <1>1, <1>2, <1>3, <1>4, <1>5, <1>6, <1>7, <1>8, <1>9, <1>10, <1>11, <1>12, <1>13, <1>14,
     <1>15 DEF Next, Call

-----------------------------------------------------------------------------
(* The five things a step can do to the stored objects and to what callers *)
(* have been told.                                                         *)
AckOf(p, status) ==
  [call |-> <<p, attempts[p]>>, status |-> status, content |-> data.content, payload |-> data]

NothingCommitted == UNCHANGED <<objects, acks>>

DataArrives == data \notin Payloads /\ manifest \notin Manifests /\ UNCHANGED <<manifest, acks>>

ManifestArrives ==
  /\ data \in Payloads /\ manifest \notin Manifests
  /\ manifest' \in {Partial, ManifestFor(data)}
  /\ UNCHANGED <<data, acks>>

CallPublishes(p) ==
  /\ data \in Payloads /\ manifest \notin Manifests
  /\ manifest' = ManifestFor(data)
  /\ acks' = acks \cup {AckOf(p, "published")}
  /\ UNCHANGED data

CallConfirms(p) ==
  /\ manifest \in Manifests
  /\ acks' = acks \cup {AckOf(p, "already_published")}
  /\ UNCHANGED objects

Effect ==
  \/ NothingCommitted
  \/ DataArrives
  \/ ManifestArrives
  \/ \E p \in Publishers : attempts[p] \in 1 .. MaxAttempts /\ (CallPublishes(p) \/ CallConfirms(p))

(* A call that returns without success tells its caller nothing. *)
LEMMA NoAck ==
  ASSUME NEW p, NEW detail, NEW status \in {"conflict", "failed", "crashed"},
         Return(p, Result(status, detail, offer[p]))
  PROVE  acks' = acks
BY DEF Return, Result, Success

(* A failed store call tells its caller nothing. *)
LEMMA FailNoAck == ASSUME NEW p, NEW kind, Fail(p, kind) PROVE acks' = acks
BY NoAck DEF Fail

(* A conflict, likewise. *)
LEMMA ConflictNoAck == ASSUME NEW p, NEW detail, Conflict(p, detail) PROVE acks' = acks
BY NoAck DEF Conflict

(* A call that publishes is told of the payload that is stored. *)
LEMMA PublishedAck ==
  ASSUME IInv, NEW p \in Publishers, pc[p] \in {"put_manifest", "write_manifest"},
         Return(p, PublishedResult(p))
  PROVE  acks' = acks \cup {AckOf(p, "published")}
<1>1. stored[p] = data /\ data \in Payloads /\ data.content = offer[p].content
  BY DEF IInv, CallerInv
<1>2. PublishedResult(p).status = "published" /\ PublishedResult(p).payload = data
  BY <1>1, PublishedFacts
<1>. QED
  BY <1>1, <1>2 DEF Return, Success, AckOf

(* Every step has one of the five effects. *)
LEMMA EffectStep == IInv /\ [Next]_vars => Effect
<1> SUFFICES ASSUME IInv, [Next]_vars PROVE Effect
  OBVIOUS
<1> USE DEF objects
<1>1. CASE UNCHANGED vars
  BY <1>1 DEF vars, Effect, NothingCommitted
<1>2. ASSUME NEW p \in Publishers, Begin(p) PROVE Effect
  BY <1>2 DEF Begin, Effect, NothingCommitted
<1>3. ASSUME NEW p \in Publishers, HeadManifest(p) PROVE Effect
  BY <1>3, FailNoAck DEF HeadManifest, Continue, Effect, NothingCommitted
<1>4. ASSUME NEW p \in Publishers, HeadData(p) PROVE Effect
  BY <1>4, FailNoAck DEF HeadData, Continue, Effect, NothingCommitted
<1>5. ASSUME NEW p \in Publishers, PutData(p) PROVE Effect
  <2>1. acks' = acks
    BY <1>5, FailNoAck DEF PutData, Continue
  <2>2. data' = data \/ data = Absent
    BY <1>5 DEF PutData, PutAccepted
  <2>3. data = Absent => manifest \notin Manifests
    BY ObjectAssumption DEF IInv, CommitInv
  <2>. QED
    BY <1>5, <2>1, <2>2, <2>3, ObjectAssumption DEF PutData, Effect, NothingCommitted, DataArrives
<1>6. ASSUME NEW p \in Publishers, WriteData(p) PROVE Effect
  <2>1. data = Partial
    BY <1>6 DEF WriteData, IInv, CallerInv
  <2>2. manifest \notin Manifests
    BY <2>1, ObjectAssumption DEF IInv, CommitInv
  <2>. QED
    BY <1>6, <2>1, <2>2, ObjectAssumption DEF WriteData, Continue, Effect, DataArrives
<1>7. ASSUME NEW p \in Publishers, CheckData(p) PROVE Effect
  BY <1>7, FailNoAck, NoAck DEF CheckData, Continue, Effect, NothingCommitted
<1>8. ASSUME NEW p \in Publishers, GetData(p) PROVE Effect
  BY <1>8, ConflictNoAck DEF GetData, Continue, Effect, NothingCommitted
<1>9. ASSUME NEW p \in Publishers, PutManifest(p) PROVE Effect
  <2>1. stored[p] = data /\ data \in Payloads /\ attempts[p] \in 1 .. MaxAttempts
    BY <1>9 DEF PutManifest, IInv, CallerInv
  <2>2. PutAccepted(manifest) => manifest \notin Manifests
    BY ObjectAssumption DEF PutAccepted
  <2>3. CASE PutAccepted(manifest) /\ manifest' = ManifestFor(stored[p]) /\ Return(p, PublishedResult(p))
    <3>1. CallPublishes(p)
      BY <1>9, <2>1, <2>2, <2>3, PublishedAck DEF PutManifest, CallPublishes
    <3>. QED
      BY <2>1, <3>1 DEF Effect
  <2>4. CASE /\ acks' = acks
             /\ \/ manifest' = manifest
                \/ PutAccepted(manifest) /\ manifest' \in {Partial, ManifestFor(stored[p])}
    BY <1>9, <2>1, <2>2, <2>4 DEF PutManifest, Effect, NothingCommitted, ManifestArrives
  <2>5. CASE Continue(p, "write_manifest") /\ PutAccepted(manifest) /\ manifest' = Partial
    BY <2>4, <2>5 DEF Continue
  <2>6. CASE Continue(p, "validate_head") /\ UNCHANGED manifest
    BY <2>4, <2>6 DEF Continue
  <2>7. CASE Fail(p, "write") /\ UNCHANGED manifest
    BY <2>4, <2>7, FailNoAck
  <2>8. CASE /\ Fail(p, "lost")
             /\ manifest' = IF PutAccepted(manifest) THEN ManifestFor(stored[p]) ELSE manifest
    BY <2>4, <2>8, FailNoAck
  <2>9. CASE /\ UNCHANGED <<result, acks>>
             /\ \/ manifest' = manifest
                \/ PutAccepted(manifest) /\ manifest' = ManifestFor(stored[p])
    BY <2>4, <2>9
  <2>. QED
    BY <1>9, <2>3, <2>5, <2>6, <2>7, <2>8, <2>9 DEF PutManifest
<1>10. ASSUME NEW p \in Publishers, WriteManifest(p) PROVE Effect
  <2>1. stored[p] = data /\ data \in Payloads /\ manifest = Partial /\ attempts[p] \in 1 .. MaxAttempts
    BY <1>10 DEF WriteManifest, IInv, CallerInv
  <2>2. CallPublishes(p)
    BY <1>10, <2>1, PublishedAck, ObjectAssumption DEF WriteManifest, CallPublishes
  <2>. QED
    BY <2>1, <2>2 DEF Effect
<1>11. ASSUME NEW p \in Publishers, ValidateHead(p) PROVE Effect
  BY <1>11, FailNoAck, ConflictNoAck DEF ValidateHead, Continue, Effect, NothingCommitted
<1>12. ASSUME NEW p \in Publishers, ValidateManifest(p) PROVE Effect
  BY <1>12, ConflictNoAck DEF ValidateManifest, Continue, Effect, NothingCommitted
<1>13. ASSUME NEW p \in Publishers, ValidateData(p) PROVE Effect
  <2>1. /\ offer[p] \in Payloads /\ attempts[p] \in 1 .. MaxAttempts
        /\ manifest \in Manifests /\ read[p] = manifest
    BY <1>13 DEF ValidateData, IInv, CallerInv
  <2>2. CASE data \in Payloads /\ Return(p, Verdict(read[p], data, offer[p]))
    <3> DEFINE r == Verdict(read[p], data, offer[p])
    <3>1. /\ r.status \in {"conflict", "already_published"}
          /\ r.status = "already_published" => r.payload = data /\ data.content = offer[p].content
      BY <2>1, <2>2, VerdictFacts
    <3>2. Return(p, r)
      BY <2>2
    <3> HIDE DEF r
    <3>3. CASE r.status = "conflict"
      BY <1>13, <3>2, <3>3 DEF ValidateData, Return, Success, Effect, NothingCommitted
    <3>4. CASE r.status = "already_published"
      <4>1. acks' = acks \cup {AckOf(p, "already_published")}
        BY <3>1, <3>2, <3>4 DEF Return, Success, AckOf
      <4>. QED
        BY <1>13, <2>1, <4>1 DEF ValidateData, Effect, CallConfirms
    <3>. QED
      BY <3>1, <3>3, <3>4
  <2>3. CASE Conflict(p, "invalid_existing_manifest")
    BY <1>13, <2>3, ConflictNoAck DEF ValidateData, Effect, NothingCommitted
  <2>. QED
    BY <1>13, <2>2, <2>3 DEF ValidateData
<1>14. ASSUME NEW p \in Publishers, Crash(p) PROVE Effect
  BY <1>14, NoAck DEF Crash, Effect, NothingCommitted
<1>15. CASE Done
  BY <1>1, <1>15 DEF Done
<1>. QED
  BY <1>1, <1>2, <1>3, <1>4, <1>5, <1>6, <1>7, <1>8, <1>9, <1>10, <1>11, <1>12, <1>13, <1>14,
     <1>15 DEF Next, Call

-----------------------------------------------------------------------------
(* A success speaks of the committed payload, so nothing was acknowledged  *)
(* while nothing was committed.                                            *)
LEMMA NoAckBeforeCommit == TypeOK /\ CommitInv /\ manifest \notin Manifests => acks = {}
BY DEF TypeOK, CommitInv, AcksDurable, Manifests

(* The relation between objects and results survives every effect. *)
LEMMA CommitStep == IInv /\ Effect => CommitInv'
<1> SUFFICES ASSUME IInv, Effect PROVE CommitInv'
  OBVIOUS
<1> USE DEF IInv, CommitInv, AcksDurable, AtMostOnePublishes
<1>1. CASE NothingCommitted
  BY <1>1 DEF NothingCommitted, objects
<1>2. CASE DataArrives
  <2>1. acks' = {}
    BY <1>2, NoAckBeforeCommit DEF DataArrives
  <2>. QED
    BY <1>2, <2>1 DEF DataArrives
<1>3. CASE ManifestArrives
  <2>1. acks' = {}
    BY <1>3, NoAckBeforeCommit DEF ManifestArrives
  <2>. QED
    BY <1>3, <2>1, ObjectAssumption DEF ManifestArrives
<1>4. ASSUME NEW p \in Publishers, CallPublishes(p) PROVE CommitInv'
  <2>1. acks' = {AckOf(p, "published")}
    BY <1>4, NoAckBeforeCommit DEF CallPublishes
  <2>. QED
    BY <1>4, <2>1 DEF CallPublishes, AckOf
<1>5. ASSUME NEW p \in Publishers, CallConfirms(p) PROVE CommitInv'
  <2>1. AckOf(p, "already_published").status # "published"
    BY DEF AckOf
  <2>2. data \in Payloads /\ manifest = ManifestFor(data) /\ data' = data /\ manifest' = manifest
    BY <1>5 DEF CallConfirms, objects
  <2>3. AcksDurable'
    BY <1>5, <2>2 DEF CallConfirms, AckOf
  <2>4. AtMostOnePublishes'
    BY <1>5, <2>1 DEF CallConfirms
  <2>. QED
    BY <2>2, <2>3, <2>4
<1>. QED
  BY <1>1, <1>2, <1>3, <1>4, <1>5 DEF Effect

(* The inductive invariant holds in every reachable state. *)
THEOREM InvariantHolds == Spec => []IInv
<1>1. IInv /\ [Next]_vars => IInv'
  <2> SUFFICES ASSUME IInv, [Next]_vars PROVE IInv'
    OBVIOUS
  <2>1. TypeOK'
    BY TypeStep DEF IInv
  <2>2. CallerInv' /\ StoreInv' /\ Effect
    BY CallerStep, StoreStep, EffectStep
  <2>3. CommitInv'
    BY <2>2, CommitStep
  <2>. QED
    BY <2>1, <2>2, <2>3 DEF IInv
<1>. QED
  BY <1>1, InitInv, PTL DEF Spec

(* Every variable of BronzePublication stays in its type. *)
THEOREM TypeCorrect == Spec => []TypeOK
<1>1. IInv => TypeOK
  BY DEF IInv
<1>. QED
  BY <1>1, InvariantHolds, PTL

(* A success is never taken back (publication.py:97-145): the committed    *)
(* payload is the one the caller was told of, with the content it offered. *)
THEOREM SuccessIsDurable == Spec => []AcksDurable
<1>1. IInv => AcksDurable
  BY DEF IInv, CommitInv
<1>. QED
  BY <1>1, InvariantHolds, PTL

(* However calls race, crash and retry, one of them is told it published. *)
THEOREM OnePublisher == Spec => []AtMostOnePublishes
<1>1. IInv => AtMostOnePublishes
  BY DEF IInv, CommitInv
<1>. QED
  BY <1>1, InvariantHolds, PTL

(* On S3 a manifest key that exists is a batch that verifies: a crash      *)
(* leaves an orphan object behind, never a manifest without its data.      *)
THEOREM CommitBoundary == Spec => []ListedIsReadable
<1>1. IInv => ListedIsReadable
  BY DEF IInv, TypeOK, CommitInv, StoreInv, ListedIsReadable, ReaderAccepts, ManifestFor
<1>. QED
  BY <1>1, InvariantHolds, PTL

(* On S3 an object that can be seen never changes. *)
THEOREM ObjectsNeverChange == Spec => ObjectsImmutable
<1>1. IInv /\ [Next]_vars =>
        [store = "s3" =>
           (data # Absent => data' = data) /\ (manifest # Absent => manifest' = manifest)]_vars
  BY EffectStep
     DEF IInv, TypeOK, StoreInv, Effect, NothingCommitted, DataArrives, ManifestArrives,
         CallPublishes, CallConfirms, objects
<1>. QED
  BY <1>1, InvariantHolds, PTL DEF Spec, ObjectsImmutable

-----------------------------------------------------------------------------
committedPayload == IF manifest \in Manifests THEN manifest.checksum ELSE Absent

(* A committed manifest describes the stored payload. *)
LEMMA CommittedIsStored ==
  ASSUME IInv
  PROVE  /\ manifest \in Manifests => committedPayload = data /\ data \in Payloads /\ data # Absent
         /\ manifest \notin Manifests => committedPayload = Absent
BY ObjectAssumption DEF IInv, CommitInv, committedPayload, ManifestFor

(* Every step is a step of the write-once register, or none at all. *)
LEMMA RefinementStep == IInv /\ IInv' /\ Effect => [Register!Next]_(Register!vars)
<1> SUFFICES ASSUME IInv, IInv', Effect PROVE [Register!Next]_(Register!vars)
  OBVIOUS
<1> USE DEF Register!vars
<1>1. /\ manifest \in Manifests => committedPayload = data /\ data \in Payloads /\ data # Absent
      /\ manifest \notin Manifests => committedPayload = Absent
  BY CommittedIsStored
<1>2. /\ manifest' \in Manifests => committedPayload' = data' /\ data' \in Payloads
      /\ manifest' \notin Manifests => committedPayload' = Absent
  BY CommittedIsStored, ObjectAssumption DEF IInv, CommitInv, committedPayload, ManifestFor
<1>3. CASE NothingCommitted \/ DataArrives
  BY <1>3 DEF NothingCommitted, DataArrives, objects
<1>4. CASE ManifestArrives
  <2>1. CASE manifest' = Partial
    BY <1>1, <1>2, <1>4, <2>1, ObjectAssumption DEF ManifestArrives, committedPayload
  <2>2. CASE manifest' = ManifestFor(data)
    <3>1. Register!CommitUnnoticed(data)
      BY <1>1, <1>2, <1>4, <2>2
         DEF ManifestArrives, Register!CommitUnnoticed, committedPayload, Manifests
    <3>. QED
      BY <1>4, <3>1 DEF ManifestArrives, Register!Next, Register!Payloads, Payloads
  <2>. QED
    BY <1>4, <2>1, <2>2 DEF ManifestArrives
<1>5. ASSUME NEW p \in Publishers, attempts[p] \in 1 .. MaxAttempts, CallPublishes(p)
      PROVE  Register!Next
  <2>1. Register!Publish(<<p, attempts[p]>>, data)
    BY <1>1, <1>2, <1>5
       DEF CallPublishes, AckOf, Register!Publish, Register!Ack, committedPayload, Manifests
  <2>2. <<p, attempts[p]>> \in Publishers \X (1 .. MaxAttempts)
    BY <1>5
  <2>. QED
    BY <1>5, <2>1, <2>2 DEF CallPublishes, Register!Next, Register!Payloads, Payloads
<1>6. ASSUME NEW p \in Publishers, attempts[p] \in 1 .. MaxAttempts, CallConfirms(p)
      PROVE  Register!Next
  <2>1. Register!Confirm(<<p, attempts[p]>>)
    BY <1>1, <1>2, <1>6
       DEF CallConfirms, AckOf, objects, Register!Confirm, Register!Ack, committedPayload
  <2>2. <<p, attempts[p]>> \in Publishers \X (1 .. MaxAttempts)
    BY <1>6
  <2>. QED
    BY <2>1, <2>2 DEF Register!Next
<1>. QED
  BY <1>3, <1>4, <1>5, <1>6 DEF Effect

(* The whole of publication, with its races and crashes, implements the    *)
(* write-once register CommitOnce.                                         *)
THEOREM PublicationIsAtomic == Spec => ImplementsCommitOnce
<1>1. Init => Register!Init
  BY ObjectAssumption DEF Init, Register!Init
<1>2. IInv /\ IInv' /\ [Next]_vars => [Register!Next]_(Register!vars)
  BY EffectStep, RefinementStep
<1>. QED
  BY <1>1, <1>2, InvariantHolds, PTL DEF Spec, ImplementsCommitOnce, Register!Spec
-----------------------------------------------------------------------------
(* What the reader holds at each of its store calls, and what of it is     *)
(* still in the store.                                                     *)
ReaderInv ==
  /\ reader \in {"idle", "get_manifest", "head_data", "get_data", "spark"}
  /\ reader \in {"head_data", "get_data", "spark"} => manifest \in Manifests /\ claimed = manifest
  /\ reader \in {"get_manifest", "head_data", "get_data"} => verified = Absent
  /\ reader \in {"get_manifest", "head_data", "get_data", "spark"} => consumed = Absent
  /\ reader = "spark" => verified # Absent
  /\ verified # Absent => data \in Payloads /\ verified = data
  /\ consumed # Absent => consumed = verified
  /\ known => acks # {}
  /\ ReportedVerifies

(* Faults are counted, never taken back. *)
LEMMA FaultsGrow == TypeOK /\ [Next]_vars => faults' >= faults
<1> SUFFICES ASSUME TypeOK, [Next]_vars PROVE faults' >= faults
  OBVIOUS
<1>0. faults \in Nat
  BY BoundsAssumption DEF TypeOK
<1> USE <1>0 DEF Fault, Fail, Continue, NoFault
<1>1. CASE UNCHANGED vars
  BY <1>1 DEF vars
<1>2. ASSUME NEW p \in Publishers, Begin(p) \/ Crash(p) PROVE faults' >= faults
  BY <1>2 DEF Begin, Crash
<1>3. ASSUME NEW p \in Publishers, HeadManifest(p) \/ HeadData(p) \/ CheckData(p) \/ GetData(p)
      PROVE  faults' >= faults
  BY <1>3 DEF HeadManifest, HeadData, CheckData, GetData
<1>4. ASSUME NEW p \in Publishers, PutData(p) \/ WriteData(p) PROVE faults' >= faults
  BY <1>4 DEF PutData, WriteData, RaceLost
<1>5. ASSUME NEW p \in Publishers, PutManifest(p) \/ WriteManifest(p) PROVE faults' >= faults
  BY <1>5 DEF PutManifest, WriteManifest, RaceLost
<1>6. ASSUME NEW p \in Publishers, ValidateHead(p) \/ ValidateManifest(p) \/ ValidateData(p)
      PROVE  faults' >= faults
  BY <1>6 DEF ValidateHead, ValidateManifest, ValidateData
<1>7. CASE Done
  BY <1>1, <1>7 DEF Done
<1>. QED
  BY <1>1, <1>2, <1>3, <1>4, <1>5, <1>6, <1>7 DEF Next, Call

(* What is stored whole, committed or acknowledged stays so. *)
LEMMA StoredStays ==
  ASSUME IInv, Effect
  PROVE  /\ data \in Payloads => data' = data
         /\ manifest \in Manifests => manifest' = manifest
         /\ acks \subseteq acks'
BY DEF Effect, NothingCommitted, DataArrives, ManifestArrives, CallPublishes, CallConfirms, objects

(* A reader's step leaves the publication as it is; a failed read counts.  *)
LEMMA ReadOnly ==
  ASSUME IInv, UNCHANGED <<store, data, manifest, pc, offer, stored, read, fresh, result, attempts, acks>>,
         faults' \in 0 .. MaxFaults
  PROVE  IInv'
<1>1. TypeOK'
  BY DEF IInv, TypeOK
<1>2. CallerInv' /\ StoreInv' /\ CommitInv'
  BY DEF IInv, CallerInv, StoreInv, CommitInv, AcksDurable, AtMostOnePublishes
<1>. QED
  BY <1>1, <1>2 DEF IInv

(* Every step of the composition is one of the publishers, with the reader *)
(* at rest, or one of the reader, which only counts its failed calls.      *)
LEMMA ReaderEffect ==
  ASSUME IInv, [ReaderNext]_<<vars, reading>>
  PROVE  \/ [Next]_vars /\ UNCHANGED reading
         \/ /\ StartVerify \/ ReadManifest \/ FindData \/ ReadData \/ Consume
            /\ UNCHANGED <<store, data, manifest, pc, offer, stored, read, fresh, result, attempts, acks>>
            /\ faults' \in 0 .. MaxFaults /\ faults' >= faults
<1>1. faults \in 0 .. MaxFaults
  BY DEF IInv, TypeOK
<1>2. ReadFault => faults' \in 0 .. MaxFaults /\ faults' >= faults
  BY <1>1, BoundsAssumption DEF ReadFault, Fault
<1>3. CASE StartVerify
  BY <1>1, <1>3, BoundsAssumption DEF StartVerify, Publication, Step
<1>4. CASE ReadManifest
  BY <1>1, <1>2, <1>4, BoundsAssumption DEF ReadManifest, Publication, Step, Refuse, ReadFault
<1>5. CASE FindData
  BY <1>1, <1>2, <1>5, BoundsAssumption DEF FindData, Publication, Step, Refuse, ReadFault
<1>6. CASE ReadData
  BY <1>1, <1>2, <1>6, BoundsAssumption DEF ReadData, Publication, Step, Refuse, ReadFault
<1>7. CASE Consume
  BY <1>1, <1>7, BoundsAssumption DEF Consume, Publication, Step
<1>. QED
  BY <1>3, <1>4, <1>5, <1>6, <1>7 DEF ReaderNext

(* Beside a reader the invariant of the publication goes on holding. *)
LEMMA PublicationStep ==
  ASSUME IInv, [ReaderNext]_<<vars, reading>>
  PROVE  IInv' /\ Effect
<1>1. CASE [Next]_vars
  <2>1. TypeOK' /\ CallerInv' /\ StoreInv' /\ Effect
    BY <1>1, TypeStep, CallerStep, StoreStep, EffectStep DEF IInv
  <2>. QED
    BY <2>1, CommitStep DEF IInv
<1>2. CASE /\ UNCHANGED <<store, data, manifest, pc, offer, stored, read, fresh, result, attempts, acks>>
           /\ faults' \in 0 .. MaxFaults
  BY <1>2, ReadOnly DEF Effect, NothingCommitted, objects
<1>. QED
  BY <1>1, <1>2, ReaderEffect

(* What is committed verifies. *)
LEMMA AcknowledgedAgrees ==
  ASSUME IInv
  PROVE  /\ acks # {} => manifest \in Manifests
         /\ manifest \in Manifests => data \in Payloads /\ Agrees(manifest, data)
BY NoAckBeforeCommit DEF IInv, CommitInv, Agrees, ManifestFor

(* The reader never learns anything that stops being true. *)
LEMMA ReaderStep == IInv /\ ReaderInv /\ [ReaderNext]_<<vars, reading>> => ReaderInv'
<1> SUFFICES ASSUME IInv, ReaderInv, [ReaderNext]_<<vars, reading>> PROVE ReaderInv'
  OBVIOUS
<1>1. /\ data \in Payloads => data' = data
      /\ manifest \in Manifests => manifest' = manifest
      /\ acks \subseteq acks'
  BY PublicationStep, StoredStays
<1>2. faults \in Nat /\ faults' \in Nat
  BY PublicationStep, BoundsAssumption DEF IInv, TypeOK
<1>3. /\ acks # {} => manifest \in Manifests
      /\ manifest \in Manifests => data \in Payloads /\ Agrees(manifest, data) /\ data # Absent
  BY AcknowledgedAgrees, ObjectAssumption
<1>4. ReadFault => faults' > 0
  BY <1>2 DEF ReadFault, Fault
<1>5. CASE [Next]_vars /\ UNCHANGED reading
  <2>1. faults' >= faults
    BY <1>5, FaultsGrow DEF IInv
  <2>. QED
    BY <1>1, <1>2, <1>5, <2>1 DEF ReaderInv, ReportedVerifies, reading
<1>6. CASE StartVerify
  BY <1>6 DEF StartVerify, Step, Publication, ReaderInv, ReportedVerifies
<1>7. CASE ReadManifest
  BY <1>1, <1>2, <1>3, <1>4, <1>7
     DEF ReadManifest, Refuse, ReadFault, Step, Publication, ReaderInv, ReportedVerifies
<1>8. CASE FindData
  BY <1>1, <1>2, <1>3, <1>4, <1>8
     DEF FindData, Refuse, ReadFault, Step, Publication, ReaderInv, ReportedVerifies
<1>9. CASE ReadData
  BY <1>1, <1>2, <1>3, <1>4, <1>9, ObjectAssumption
     DEF ReadData, Refuse, ReadFault, Step, Publication, ReaderInv, ReportedVerifies
<1>10. CASE Consume
  BY <1>1, <1>2, <1>10 DEF Consume, Step, Publication, ReaderInv, ReportedVerifies
<1>. QED
  BY <1>5, <1>6, <1>7, <1>8, <1>9, <1>10, ReaderEffect

(* Both invariants hold in every state of the composition. *)
THEOREM ReaderInvariantHolds == ReaderSpec => [](IInv /\ ReaderInv)
<1>1. ReaderInit => IInv /\ ReaderInv
  BY InitInv DEF ReaderInit, ReaderInv, ReportedVerifies
<1>2. IInv /\ ReaderInv /\ [ReaderNext]_<<vars, reading>> => IInv' /\ ReaderInv'
  BY PublicationStep, ReaderStep
<1>. QED
  BY <1>1, <1>2, PTL DEF ReaderSpec

(* The bytes Spark reads by path are those the reader verified and those   *)
(* every successful publisher was told of, on both stores.                 *)
THEOREM VerifiedIsWhatSparkReads == ReaderSpec => []ConsumedIsVerified
<1>1. IInv /\ ReaderInv => ConsumedIsVerified
  BY DEF IInv, CommitInv, AcksDurable, ReaderInv, ConsumedIsVerified
<1>. QED
  BY <1>1, ReaderInvariantHolds, PTL

(* Once a caller has been told of success, no verification that begins     *)
(* afterwards is refused but for a failed read.                            *)
THEOREM CommittedIsNeverRefused == ReaderSpec => []ReportedVerifies
<1>1. ReaderInv => ReportedVerifies
  BY DEF ReaderInv
<1>. QED
  BY <1>1, ReaderInvariantHolds, PTL
================================================================================

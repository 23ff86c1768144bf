---------------------------- MODULE SilverBatchProofs ----------------------------
(***************************************************************************)
(* Proofs about SilverBatch for all records, hours, dates and numbers of   *)
(* runs: the table holds the freshest record that any run has merged, and  *)
(* windows side by side leave no landed record out.                        *)
(***************************************************************************)
EXTENDS SilverBatch, FiniteSetTheorems, WellFoundedInduction, TLAPS

(* A record of a Bronze file. *)
Record ==
  [ key : Keys, version : Nat, extract : Nat, hash : Nat, valid : BOOLEAN, ingested : 0 .. LastHour ]

(* Hash and stamp tell a record from every other. *)
RecordsInv ==
  /\ now \in 0 .. LastHour
  /\ stamped \cup landed \subseteq Record
  /\ IsFiniteSet(stamped \cup landed)
  /\ \A i \in stamped \cup landed : i.ingested <= now
  /\ \A i, q \in stamped \cup landed : i.hash = q.hash /\ i.ingested = q.ingested => i = q

(* What a run reads is what was in its window of the files it listed. *)
ReadsItsWindow(d) ==
  /\ d.bronze \subseteq landed
  /\ d.input = {i \in d.bronze : InBoundary(i, d.window)}

RunInv ==
  /\ pc \in [Runs -> {"new", "quarantine", "merge", "done", "dead"}]
  /\ DOMAIN run = Runs
  /\ \A r \in Runs : ReadsItsWindow(run[r])
  /\ \A d \in done : ReadsItsWindow(d)

(* The valid records of key k that the runs ds have merged. *)
Merged(ds, k) == {i \in UNION {d.input : d \in ds} : i.valid /\ i.key = k}

(* The row is the freshest of the records, and none if there are none. *)
Freshest(row, records) ==
  IF records = {} THEN row = None ELSE row \in records /\ \A i \in records : ~ Newer(i, row)

TableInv == \A k \in Keys : Freshest(table[k], Merged(done, k))

IInv == RecordsInv /\ RunInv /\ TableInv
-----------------------------------------------------------------------------
(* Newer is a strict order in which only equal versions are incomparable.  *)
LEMMA NewerOrder ==
  ASSUME NEW s \in Record, NEW t \in Record, NEW u \in Record
  PROVE  /\ ~ Newer(s, s)
         /\ Newer(s, t) /\ Newer(t, u) => Newer(s, u)
         /\ ~ Newer(s, t) /\ ~ Newer(t, u) => ~ Newer(s, u)
BY DEF Record, Newer

(* A row is no absent row. *)
LEMMA RecordIsNotNone == None \notin Record
<1>1. DOMAIN None = {"none"}
  BY DEF None
<1>2. \A i \in Record : "key" \in DOMAIN i
  BY DEF Record
<1>. QED
  BY <1>1, <1>2

(* Among finitely many records one has none newer than itself: the one     *)
(* with the fewest records above it.                                       *)
LEMMA FreshestExists ==
  ASSUME NEW S, IsFiniteSet(S), S \subseteq Record, S # {}
  PROVE  \E w \in S : \A q \in S : ~ Newer(q, w)
<1> DEFINE Above(q) == {x \in S : Newer(x, q)}
           Aboves == {Above(q) : q \in S}
<1>1. \A q \in S : Above(q) \in FiniteSubsetsOf(S)
  BY FS_Subset DEF FiniteSubsetsOf
<1>2. Aboves \subseteq FiniteSubsetsOf(S) /\ Aboves # {}
  BY <1>1
<1>3. \E a \in Aboves : \A b \in Aboves : <<b, a>> \notin StrictSubsetOrdering(S)
  <2> HIDE DEF Aboves
  <2>. QED
    BY <1>2, FS_StrictSubsetOrderingWellFounded, WFMin
<1>4. PICK w \in S : \A q \in S : <<Above(q), Above(w)>> \notin StrictSubsetOrdering(S)
  BY <1>3
<1>5. ASSUME NEW q \in S, Newer(q, w) PROVE FALSE
  <2>1. Above(q) \subseteq Above(w) /\ q \in Above(w) /\ q \notin Above(q)
    BY <1>5, NewerOrder
  <2>2. <<Above(q), Above(w)>> \in StrictSubsetOrdering(S)
    BY <2>1 DEF StrictSubsetOrdering
  <2>. QED
    BY <1>4, <2>2
<1>. QED
  BY <1>5

(* The freshest of all merged records, after one more run has merged its   *)
(* own freshest: what merge_iceberg computes for one key.                  *)
LEMMA MergeKeepsFreshest ==
  ASSUME NEW old, NEW new, old \subseteq Record, new \subseteq Record,
         NEW row, Freshest(row, old),
         NEW w \in new, \A i \in new : ~ Newer(i, w)
  PROVE  Freshest(IF row = None \/ Newer(w, row) THEN w ELSE row, old \cup new)
<1>1. CASE row = None
  <2>1. old = {}
    BY <1>1, RecordIsNotNone DEF Freshest
  <2>. QED
    BY <1>1, <2>1 DEF Freshest
<1>2. CASE row # None
  <2>1. row \in old /\ \A i \in old : ~ Newer(i, row)
    BY <1>2 DEF Freshest
  <2>2. CASE Newer(w, row)
    <3>1. \A i \in old : ~ Newer(i, w)
      BY <2>1, <2>2, NewerOrder
    <3>. QED
      BY <2>2, <3>1 DEF Freshest
  <2>3. CASE ~ Newer(w, row)
    <3>1. \A i \in new : ~ Newer(i, row)
      BY <2>1, <2>3, NewerOrder
    <3>. QED
      BY <1>2, <2>1, <2>3, <3>1 DEF Freshest
  <2>. QED
    BY <2>2, <2>3
<1>. QED
  BY <1>1, <1>2

-----------------------------------------------------------------------------
(* Empty files, an empty table and runs that have not begun. *)
LEMMA InitInv == Init => IInv
<1> SUFFICES ASSUME Init PROVE IInv
  OBVIOUS
<1>1. RecordsInv
  BY BoundsAssumption, FS_EmptySet DEF Init, RecordsInv
<1>2. RunInv
  BY DEF Init, RunInv, NoRun, ReadsItsWindow
<1>3. TableInv
  BY DEF Init, TableInv, Freshest, Merged
<1>. QED
  BY <1>1, <1>2, <1>3 DEF IInv

(* The records stay finitely many, typed, and told apart by hash and stamp. *)
LEMMA RecordsStep == RecordsInv /\ [Next]_vars => RecordsInv' /\ landed \subseteq landed'
<1> SUFFICES ASSUME RecordsInv, [Next]_vars PROVE RecordsInv' /\ landed \subseteq landed'
  OBVIOUS
<1>1. CASE Tick
  BY <1>1, BoundsAssumption DEF Tick, RecordsInv, Record
<1>2. CASE Stamp
  <2>1. PICK i \in Items :
          /\ \A other \in stamped \cup landed : other.hash # i.hash \/ other.ingested # now
          /\ stamped' = stamped \cup {[key |-> i.key, version |-> i.version, extract |-> i.extract,
                                       hash |-> i.hash, valid |-> i.valid, ingested |-> now]}
    BY <1>2 DEF Stamp
  <2> DEFINE new == [key |-> i.key, version |-> i.version, extract |-> i.extract,
                     hash |-> i.hash, valid |-> i.valid, ingested |-> now]
  <2>2. new \in Record /\ new.hash = i.hash /\ new.ingested = now
    BY ItemsAssumption DEF Record, Keys, RecordsInv
  <2>3. stamped' \cup landed' = (stamped \cup landed) \cup {new} /\ now' = now /\ landed' = landed
    BY <1>2, <2>1 DEF Stamp
  <2>4. \A other \in stamped \cup landed : other.hash # new.hash \/ other.ingested # new.ingested
    BY <2>1, <2>2
  <2> HIDE DEF new
  <2>5. IsFiniteSet(stamped' \cup landed')
    BY <2>3, FS_AddElement DEF RecordsInv
  <2>6. now \in Nat
    BY BoundsAssumption DEF RecordsInv
  <2>. QED
    BY <2>2, <2>3, <2>4, <2>5, <2>6 DEF RecordsInv
<1>3. CASE Land
  <2>1. stamped' \cup landed' = stamped \cup landed /\ now' = now /\ landed \subseteq landed'
    BY <1>3 DEF Land
  <2>. QED
    BY <2>1 DEF RecordsInv
<1>4. CASE ~ (Tick \/ Stamp \/ Land)
  <2>1. UNCHANGED <<now, stamped, landed>>
    BY <1>4 DEF Next, vars, Load, WriteQuarantine, Merge, Crash
  <2>. QED
    BY <2>1 DEF RecordsInv
<1>. QED
  BY <1>1, <1>2, <1>3, <1>4

(* A run keeps what it has read, and landed files stay. *)
LEMMA RunStep == RecordsInv /\ RunInv /\ [Next]_vars => RunInv'
<1> SUFFICES ASSUME RecordsInv, RunInv, [Next]_vars PROVE RunInv'
  OBVIOUS
<1>1. landed \subseteq landed'
  BY RecordsStep
<1>2. \A d : ReadsItsWindow(d) => ReadsItsWindow(d)'
  BY <1>1 DEF ReadsItsWindow
<1>3. ASSUME NEW r \in Runs, Load(r) PROVE RunInv'
  <2>1. PICK date \in Dates, window \in Windows :
          run' = [run EXCEPT ![r] = [date |-> date, window |-> window,
                                     input |-> {i \in landed : InBoundary(i, window)},
                                     bronze |-> landed]]
    BY <1>3 DEF Load
  <2>2. \A q \in Runs : run'[q] = run[q] \/ (run'[q].bronze = landed /\
                          run'[q].input = {i \in landed : InBoundary(i, run'[q].window)})
    BY <2>1 DEF RunInv
  <2>3. \A q \in Runs : ReadsItsWindow(run'[q])
    BY <2>2 DEF RunInv, ReadsItsWindow
  <2>. QED
    BY <1>2, <1>3, <2>1, <2>3 DEF Load, Goto, RunInv, ReadsItsWindow
<1>4. ASSUME NEW r \in Runs, WriteQuarantine(r) PROVE RunInv'
  BY <1>2, <1>4 DEF WriteQuarantine, Goto, RunInv
<1>5. ASSUME NEW r \in Runs, Merge(r) PROVE RunInv'
  BY <1>2, <1>5 DEF Merge, Goto, RunInv
<1>6. ASSUME NEW r \in Runs, Crash(r) PROVE RunInv'
  BY <1>2, <1>6 DEF Crash, Goto, RunInv
<1>7. CASE Tick \/ Stamp \/ Land \/ UNCHANGED vars
  <2>1. UNCHANGED <<pc, run, done>>
    BY <1>7 DEF Tick, Stamp, Land, vars
  <2>. QED
    BY <1>2, <2>1 DEF RunInv
<1>. QED
  BY <1>3, <1>4, <1>5, <1>6, <1>7 DEF Next

(* Every merged record is one of the landed ones. *)
LEMMA MergedLanded ==
  ASSUME RecordsInv, RunInv, NEW k \in Keys
  PROVE  Merged(done, k) \subseteq landed /\ Merged(done, k) \subseteq Record
BY DEF RecordsInv, RunInv, ReadsItsWindow, Merged

(* A MERGE leaves the freshest record of every key. *)
LEMMA TableStep == IInv /\ [Next]_vars => TableInv'
<1> SUFFICES ASSUME IInv, [Next]_vars PROVE TableInv'
  OBVIOUS
<1>1. CASE \E r \in Runs : Merge(r)
  <2>1. PICK r \in Runs : Merge(r)
    BY <1>1
  <2> DEFINE input == run[r].input
  <2>2. /\ input \subseteq landed /\ landed \subseteq Record /\ IsFiniteSet(landed)
        /\ done' = done \cup {run[r]}
    <3>1. IsFiniteSet(landed)
      BY FS_Subset DEF IInv, RecordsInv
    <3>. QED
      BY <2>1, <3>1 DEF IInv, RecordsInv, RunInv, ReadsItsWindow, Merge
  <2>3. ASSUME NEW k \in Keys PROVE Freshest(table'[k], Merged(done', k))
    <3> DEFINE new == {i \in input : i.valid /\ i.key = k}
               mine == {w \in Winners(input) : w.key = k}
    <3>1. Merged(done', k) = Merged(done, k) \cup new
      BY <2>2 DEF Merged
    <3>2. /\ Freshest(table[k], Merged(done, k)) /\ Merged(done, k) \subseteq Record
          /\ new \subseteq Record
      BY <2>2, MergedLanded DEF IInv, TableInv
    <3>3. mine = {w \in new : \A i \in new : ~ Newer(i, w)}
      BY DEF Winners, Valid
    <3>4. table'[k] = IF mine = {} THEN table[k]
                      ELSE LET w == CHOOSE w \in mine : TRUE IN
                           IF table[k] = None \/ Newer(w, table[k]) THEN w ELSE table[k]
      BY <2>1 DEF Merge
    <3> HIDE DEF mine
    <3>5. CASE mine = {}
      <4>1. IsFiniteSet(new)
        BY <2>2, FS_Subset
      <4>2. new = {}
        BY <3>2, <3>3, <3>5, <4>1, FreshestExists
      <4>. QED
        BY <3>1, <3>2, <3>4, <3>5, <4>2
    <3>6. CASE mine # {}
      <4>1. PICK w \in mine : table'[k] = IF table[k] = None \/ Newer(w, table[k]) THEN w ELSE table[k]
        BY <3>4, <3>6
      <4>2. w \in new /\ \A i \in new : ~ Newer(i, w)
        BY <3>3
      <4> HIDE DEF new
      <4>. QED
        BY <3>1, <3>2, <4>1, <4>2, MergeKeepsFreshest
    <3>. QED
      BY <3>5, <3>6
  <2>. QED
    BY <2>3 DEF TableInv
<1>2. CASE ~ \E r \in Runs : Merge(r)
  <2>1. UNCHANGED <<table, done>>
    BY <1>2 DEF Next, vars, Tick, Stamp, Land, Load, WriteQuarantine, Crash
  <2>. QED
    BY <2>1 DEF IInv, TableInv
<1>. QED
  BY <1>1, <1>2

(* The inductive invariant holds in every reachable state. *)
THEOREM InvariantHolds == Spec => []IInv
<1>1. IInv /\ [Next]_vars => IInv'
  BY RecordsStep, RunStep, TableStep DEF IInv
<1>. QED
  BY InitInv, <1>1, PTL DEF Spec

-----------------------------------------------------------------------------
(* A row in the table is a valid record of a Bronze file, and a run reads  *)
(* only what has landed.                                                   *)
THEOREM TypeCorrect == Spec => []TypeOK
<1>1. IInv => TypeOK
  <2> SUFFICES ASSUME IInv PROVE TypeOK
    OBVIOUS
  <2>1. ASSUME NEW k \in Keys PROVE table[k] = None \/ table[k] \in Valid(landed)
    <3>1. table[k] = None \/ table[k] \in Merged(done, k)
      BY DEF IInv, TableInv, Freshest
    <3>. QED
      BY <3>1, MergedLanded DEF IInv, Merged, Valid
  <2>. QED
    BY <2>1 DEF IInv, RecordsInv, RunInv, ReadsItsWindow, TypeOK
<1>. QED
  BY InvariantHolds, <1>1, PTL

(* Whatever runs of whatever windows came in whatever order, repeated, and *)
(* died, a key's row is the freshest valid record any of them merged.      *)
THEOREM RowIsFreshestMerged == Spec => []FreshestMerged
<1>1. IInv => FreshestMerged
  <2> SUFFICES ASSUME IInv, NEW k \in Keys
               PROVE  IF Merged(done, k) = {} THEN table[k] = None
                      ELSE /\ table[k] \in Merged(done, k)
                           /\ \A i \in Merged(done, k) :
                                i.version <= table[k].version /\ (i = table[k] \/ ~ Newer(i, table[k]))
    BY DEF FreshestMerged, Merged
  <2>1. Freshest(table[k], Merged(done, k)) /\ Merged(done, k) \subseteq Record
    BY MergedLanded DEF IInv, TableInv
  <2>2. \A i, t \in Record : ~ Newer(i, t) => i.version <= t.version
    BY DEF Record, Newer
  <2>. QED
    BY <2>1, <2>2 DEF Freshest
<1>. QED
  BY InvariantHolds, <1>1, PTL

(* Hours side by side leave no landed record out. *)
THEOREM NoRecordLeftOut == Spec => []WindowsCoverBronze
<1>1. IInv => WindowsCoverBronze
  <2> SUFFICES ASSUME IInv, NEW i \in Valid(landed),
                      \A h \in 0 .. LastHour :
                        \E d \in done : d.window = [from |-> h, to |-> h + 1] /\ i \in d.bronze
               PROVE  table[i.key] # None /\ ~ Newer(i, table[i.key])
    BY DEF WindowsCoverBronze
  <2>1. i \in Record /\ i \in landed /\ i.valid
    BY DEF IInv, RecordsInv, Valid
  <2>2. i.ingested \in 0 .. LastHour /\ i.key \in Keys
    BY <2>1 DEF Record
  <2>3. PICK d \in done : d.window = [from |-> i.ingested, to |-> i.ingested + 1] /\ i \in d.bronze
    BY <2>2
  <2>4. InBoundary(i, d.window)
    BY <2>2, <2>3, BoundsAssumption DEF InBoundary
  <2>5. i \in Merged(done, i.key)
    BY <2>1, <2>3, <2>4 DEF IInv, RunInv, ReadsItsWindow, Merged
  <2>6. /\ table[i.key] \in Merged(done, i.key) /\ ~ Newer(i, table[i.key])
        /\ Merged(done, i.key) \subseteq Record
    BY <2>2, <2>5, MergedLanded DEF IInv, TableInv, Freshest
  <2>. QED
    BY <2>6, RecordIsNotNone
<1>. QED
  BY InvariantHolds, <1>1, PTL

==================================================================================

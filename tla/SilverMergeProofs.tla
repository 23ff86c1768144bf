--------------------------- MODULE SilverMergeProofs ---------------------------
(***************************************************************************)
(* Proofs about SilverMerge for all batches, keys and numbers of jobs:     *)
(* the freshness comparison is a strict order, a merged batch never holds  *)
(* a row fresher than the table, rows only advance, a recorded manifest is *)
(* finished, and a backfill validated beside the jobs is reported truly    *)
(* and never refused once it is merged and clean.                          *)
(***************************************************************************)
EXTENDS BackfillValidation, FiniteSetTheorems, WellFoundedInduction, TLAPS

(* A job that is about to merge or past it has a batch; once past it, the  *)
(* batch has been merged.                                                  *)
JobInv ==
  /\ \A j \in Jobs : pc[j] # "idle" => job[j] \in Batches
  /\ \A j \in Jobs : pc[j] \in {"quarantine", "record", "acknowledge"} => job[j] \in merged

IInv == TypeOK /\ JobInv /\ FreshestWins

-----------------------------------------------------------------------------
(* No row is newer than itself. *)
LEMMA NewerIrreflexive == ASSUME NEW s \in Row PROVE ~ Newer(s, s)
BY DEF Row, Newer

(* Newer is transitive. *)
LEMMA NewerTransitive ==
  ASSUME NEW s \in Row, NEW t \in Row, NEW u \in Row, Newer(s, t), Newer(t, u)
  PROVE  Newer(s, u)
BY DEF Row, Newer

(* Rows with different hashes are ordered one way or the other. *)
LEMMA NewerTotal ==
  ASSUME NEW s \in Row, NEW t \in Row, s.hash # t.hash
  PROVE  Newer(s, t) \/ Newer(t, s)
BY DEF Row, Newer

(* The rows of a batch, and of a verified batch's parts, are typed and     *)
(* finite.                                                                 *)
LEMMA BatchParts ==
  ASSUME NEW b \in Batches
  PROVE  /\ Winners(b) \subseteq Row /\ Valid(b) \subseteq Row
         /\ \A s : s \subseteq b.rows => IsFiniteSet(s) /\ Cardinality(s) \in Nat
         /\ Winners(b) \subseteq b.rows /\ Duplicates(b) \subseteq b.rows /\ Invalid(b) \subseteq b.rows
<1>1. b.rows \subseteq Row /\ IsFiniteSet(b.rows)
  BY BatchesAssumption
<1>2. ASSUME NEW s, s \subseteq b.rows PROVE IsFiniteSet(s) /\ Cardinality(s) \in Nat
  BY <1>1, <1>2, FS_Subset, FS_CardinalityType
<1>3. Valid(b) \subseteq b.rows /\ Winners(b) \subseteq Valid(b)
  BY DEF Valid, Winners
<1>. QED
  BY <1>1, <1>2, <1>3 DEF Duplicates, Invalid

(* A winner is never less fresh than another valid row of its key. *)
LEMMA WinnerIsFreshest ==
  ASSUME NEW b \in Batches, NEW w \in Winners(b), NEW r \in Valid(b), r.key = w.key
  PROVE  ~ Newer(r, w)
<1>1. w \in Row /\ r \in Row
  BY BatchParts
<1>2. CASE r = w
  BY <1>1, <1>2, NewerIrreflexive
<1>3. CASE r # w
  <2>1. RanksBefore(w, r)
    BY <1>3 DEF Winners
  <2>2. Newer(w, r) /\ Newer(r, w) => Newer(w, w)
    BY <1>1, NewerTransitive
  <2>. QED
    BY <1>1, <2>1, <2>2, NewerIrreflexive DEF RanksBefore
<1>. QED
  BY <1>2, <1>3

(* The window order is a strict total order on the rows of a batch. *)
LEMMA RankingIsTotal ==
  ASSUME NEW b \in Batches
  PROVE  /\ \A r \in b.rows : ~ RanksBefore(r, r)
         /\ \A r, q, x \in b.rows : RanksBefore(r, q) /\ RanksBefore(q, x) => RanksBefore(r, x)
         /\ \A r, q \in b.rows : r # q => RanksBefore(r, q) \/ RanksBefore(q, r)
<1>1. b.rows \subseteq Row /\ \A r, q \in b.rows : r.locator = q.locator => r = q
  BY BatchesAssumption
<1>2. \A r \in b.rows : ~ RanksBefore(r, r)
  BY <1>1, NewerIrreflexive DEF RanksBefore, Row
<1>3. ASSUME NEW r \in b.rows, NEW q \in b.rows, NEW x \in b.rows,
             RanksBefore(r, q), RanksBefore(q, x)
      PROVE  RanksBefore(r, x)
  BY <1>1, <1>3 DEF RanksBefore, Newer, Row
<1>4. ASSUME NEW r \in b.rows, NEW q \in b.rows, r # q
      PROVE  RanksBefore(r, q) \/ RanksBefore(q, r)
  BY <1>1, <1>4 DEF RanksBefore, Row
<1>. QED
  BY <1>2, <1>3, <1>4

(* Every key with a valid row has a winner: among the valid rows of a key, *)
(* one has the fewest rows ranked before it, and that is none.             *)
LEMMA EveryKeyHasAWinner ==
  ASSUME NEW b \in Batches, NEW r \in Valid(b)
  PROVE  \E w \in Winners(b) : w.key = r.key
<1> DEFINE SameKey == {q \in Valid(b) : q.key = r.key}
           Before(q) == {x \in SameKey : RanksBefore(x, q)}
           Befores == {Before(q) : q \in SameKey}
<1>1. SameKey \subseteq b.rows
  BY DEF Valid
<1>2. \A q \in SameKey : Before(q) \in FiniteSubsetsOf(SameKey)
  BY <1>1, BatchParts, FS_Subset DEF FiniteSubsetsOf
<1>3. Befores \subseteq FiniteSubsetsOf(SameKey) /\ Befores # {}
  BY <1>2
<1>4. \E s \in Befores : \A t \in Befores : <<t, s>> \notin StrictSubsetOrdering(SameKey)
  <2> HIDE DEF SameKey, Befores
  <2>. QED
    BY <1>3, FS_StrictSubsetOrderingWellFounded, WFMin
<1>5. PICK w \in SameKey :
        \A q \in SameKey : <<Before(q), Before(w)>> \notin StrictSubsetOrdering(SameKey)
  BY <1>4
<1>6. Before(w) = {}
  <2> SUFFICES ASSUME NEW q \in Before(w) PROVE FALSE
    OBVIOUS
  <2>1. Before(q) \subseteq Before(w) /\ q \in Before(w) /\ q \notin Before(q)
    BY <1>1, RankingIsTotal
  <2>2. <<Before(q), Before(w)>> \in StrictSubsetOrdering(SameKey)
    BY <2>1 DEF StrictSubsetOrdering
  <2>. QED
    BY <1>5, <2>2
<1>7. \A q \in SameKey \ {w} : RanksBefore(w, q)
  BY <1>1, <1>6, RankingIsTotal
<1>. QED
  BY <1>7 DEF Winners

(* Classification counts are natural numbers, and zero for no rows. *)
LEMMA CountsFacts ==
  ASSUME NEW b \in Batches
  PROVE  /\ Counts(b) \in [inserted : Nat, updated : Nat, unchanged : Nat]
         /\ NothingNew(Counts(b)) => Inserts(b) = {} /\ Updates(b) = {}
<1>1. Inserts(b) \subseteq b.rows /\ Updates(b) \subseteq b.rows
  BY BatchParts DEF Inserts, Updates
<1>2. /\ Cardinality(Inserts(b)) \in Nat /\ Cardinality(Updates(b)) \in Nat
      /\ Cardinality(Winners(b) \ (Inserts(b) \cup Updates(b))) \in Nat
      /\ IsFiniteSet(Inserts(b)) /\ IsFiniteSet(Updates(b))
  BY <1>1, BatchParts
<1>. QED
  BY <1>2, FS_EmptySet DEF Counts, NothingNew

-----------------------------------------------------------------------------
(* Empty tables and idle jobs satisfy the invariant. *)
LEMMA InitInv == Init => IInv
BY DEF Init, IInv, TypeOK, JobInv, FreshestWins, NoCounts

(* What the MERGE leaves for one key: a winner that is new or fresher, or  *)
(* the row that was there.                                                 *)
LEMMA MergeRow ==
  ASSUME TypeOK, JobInv, NEW j \in Jobs, MergeBusiness(j), NEW k \in Keys
  PROVE  \/ /\ table'[k] = table[k]
            /\ \A w \in Winners(job[j]) : w.key = k => w \notin Inserts(job[j]) \cup Updates(job[j])
         \/ /\ table'[k] \in Winners(job[j]) /\ table'[k].key = k
            /\ table[k] # NoRow => Newer(table'[k], table[k])
<1> DEFINE Changing == Inserts(job[j]) \cup Updates(job[j])
<1>1. table'[k] = IF \E w \in Changing : w.key = k THEN CHOOSE w \in Changing : w.key = k ELSE table[k]
  BY DEF MergeBusiness
<1>2. CASE \E w \in Changing : w.key = k
  <2>1. table'[k] \in Changing /\ table'[k].key = k
    BY <1>1, <1>2
  <2>. QED
    BY <2>1 DEF Inserts, Updates
<1>3. CASE ~ \E w \in Changing : w.key = k
  BY <1>1, <1>3
<1>. QED
  BY <1>2, <1>3

(* The merged table is typed, and rows only advance. *)
LEMMA MergeTable ==
  ASSUME TypeOK, JobInv, NEW j \in Jobs, MergeBusiness(j)
  PROVE  /\ table' \in [Keys -> Row \cup {NoRow}]
         /\ \A k \in Keys : table[k] # NoRow /\ table'[k] # table[k] =>
              table'[k] # NoRow /\ Newer(table'[k], table[k])
<1>1. job[j] \in Batches
  BY DEF MergeBusiness, JobInv
<1>2. Winners(job[j]) \subseteq Row
  BY <1>1, BatchParts
<1>3. ASSUME NEW k \in Keys
      PROVE  /\ table'[k] \in Row \cup {NoRow}
             /\ table[k] # NoRow /\ table'[k] # table[k] =>
                  table'[k] # NoRow /\ Newer(table'[k], table[k])
  BY <1>2, MergeRow, NothingAssumption DEF TypeOK
<1>4. table' = [k \in Keys |-> table'[k]]
  BY DEF MergeBusiness
<1>. QED
  BY <1>3, <1>4

(* Every step keeps every variable in its type. *)
LEMMA TypeStep == TypeOK /\ JobInv /\ [Next]_vars => TypeOK'
<1> SUFFICES ASSUME TypeOK, JobInv, [Next]_vars PROVE TypeOK'
  OBVIOUS
<1>0. NoCounts \in [inserted : Nat, updated : Nat, unchanged : Nat]
  BY DEF NoCounts
<1>1. CASE UNCHANGED vars
  BY <1>1 DEF vars, TypeOK
<1>2. ASSUME NEW j \in Jobs, NEW b \in Batches, Start(j, b) PROVE TypeOK'
  BY <1>0, <1>2 DEF Start, Goto, tables, TypeOK
<1>3. ASSUME NEW j \in Jobs, Classify(j) PROVE TypeOK'
  <2>1. job[j] \in Batches
    BY <1>3 DEF Classify, JobInv
  <2>2. Counts(job[j]) \in [inserted : Nat, updated : Nat, unchanged : Nat]
    BY <2>1, CountsFacts
  <2>3. outcome' \in [Jobs -> [inserted : Nat, updated : Nat, unchanged : Nat]]
    BY <1>3, <2>2 DEF Classify, TypeOK
  <2>. QED
    BY <1>3, <2>1, <2>3 DEF Classify, Goto, tables, TypeOK
<1>4. ASSUME NEW j \in Jobs, MergeBusiness(j) PROVE TypeOK'
  <2>1. job[j] \in Batches
    BY <1>4 DEF MergeBusiness, JobInv
  <2>2. table' \in [Keys -> Row \cup {NoRow}]
    BY <1>4, MergeTable
  <2>. QED
    BY <1>4, <2>1, <2>2 DEF MergeBusiness, Goto, TypeOK
<1>5. ASSUME NEW j \in Jobs, MergeQuarantine(j) PROVE TypeOK'
  <2>1. job[j] \in Batches
    BY <1>5 DEF MergeQuarantine, JobInv
  <2>2. quarantine' \subseteq UNION {Evidence(b) : b \in Batches}
    BY <1>5, <2>1 DEF MergeQuarantine, TypeOK
  <2>. QED
    BY <1>5, <2>2 DEF MergeQuarantine, Goto, TypeOK
<1>6. ASSUME NEW j \in Jobs, Record(j) PROVE TypeOK'
  <2>1. job[j] \in Batches
    BY <1>6 DEF Record, JobInv
  <2>2. /\ Cardinality(job[j].rows) \in Nat /\ Cardinality(Invalid(job[j])) \in Nat
        /\ Cardinality(Duplicates(job[j])) \in Nat /\ Cardinality(Winners(job[j])) \in Nat
    BY <2>1, BatchParts
  <2>3. ResultOf(j) \in
          [ manifest : {b.manifest : b \in Batches}, input : Nat, rejected : Nat,
            duplicates : Nat, winners : Nat,
            counts : [inserted : Nat, updated : Nat, unchanged : Nat] ]
    BY <2>1, <2>2 DEF ResultOf, TypeOK
  <2> HIDE DEF ResultOf
  <2>. QED
    BY <1>6, <2>3 DEF Record, Goto, TypeOK
<1>7. ASSUME NEW j \in Jobs, Acknowledge(j) PROVE TypeOK'
  <2>1. job[j] \in Batches
    BY <1>7 DEF Acknowledge, JobInv
  <2>. QED
    BY <1>0, <1>7, <2>1 DEF Acknowledge, Stop, Goto, tables, TypeOK
<1>8. ASSUME NEW j \in Jobs, Crash(j) PROVE TypeOK'
  BY <1>0, <1>8 DEF Crash, Stop, Goto, tables, TypeOK
<1>. QED
  BY <1>1, <1>2, <1>3, <1>4, <1>5, <1>6, <1>7, <1>8 DEF Next

(* A job keeps its batch until it stops. *)
LEMMA JobStep == TypeOK /\ JobInv /\ [Next]_vars => JobInv'
<1> SUFFICES ASSUME TypeOK, JobInv, [Next]_vars PROVE JobInv'
  OBVIOUS
<1> USE DEF TypeOK, JobInv, Goto
<1>1. CASE UNCHANGED vars
  BY <1>1 DEF vars
<1>2. ASSUME NEW j \in Jobs, NEW b \in Batches, Start(j, b) PROVE JobInv'
  BY <1>2 DEF Start
<1>3. ASSUME NEW j \in Jobs, Classify(j) PROVE JobInv'
  BY <1>3 DEF Classify
<1>4. ASSUME NEW j \in Jobs, MergeBusiness(j) PROVE JobInv'
  BY <1>4 DEF MergeBusiness
<1>5. ASSUME NEW j \in Jobs, MergeQuarantine(j) PROVE JobInv'
  BY <1>5 DEF MergeQuarantine
<1>6. ASSUME NEW j \in Jobs, Record(j) PROVE JobInv'
  BY <1>6 DEF Record
<1>7. ASSUME NEW j \in Jobs, Acknowledge(j) PROVE JobInv'
  BY <1>7 DEF Acknowledge, Stop
<1>8. ASSUME NEW j \in Jobs, Crash(j) PROVE JobInv'
  BY <1>8 DEF Crash, Stop
<1>. QED
  BY <1>1, <1>2, <1>3, <1>4, <1>5, <1>6, <1>7, <1>8 DEF Next

-----------------------------------------------------------------------------
(* No valid row of b is fresher than the row that t holds for its key. *)
Covers(t, b) == \A r \in Valid(b) : t[r.key] # NoRow /\ ~ Newer(r, t[r.key])

(* A table covers a batch when no winner of the batch beats its rows. *)
LEMMA WinnersCover ==
  ASSUME NEW b \in Batches, NEW t \in [Keys -> Row \cup {NoRow}],
         \A w \in Winners(b) : t[w.key] # NoRow /\ ~ Newer(w, t[w.key])
  PROVE  Covers(t, b)
<1> SUFFICES ASSUME NEW r \in Valid(b) PROVE t[r.key] # NoRow /\ ~ Newer(r, t[r.key])
  BY DEF Covers
<1>1. PICK w \in Winners(b) : w.key = r.key
  BY EveryKeyHasAWinner
<1>2. w \in Row /\ r \in Row /\ r.key \in Keys
  BY BatchParts DEF Row
<1>3. t[r.key] \in Row /\ ~ Newer(w, t[r.key])
  BY <1>1, <1>2
<1>4. ~ Newer(r, w)
  BY <1>1, WinnerIsFreshest
<1>5. Newer(r, t[r.key]) => Newer(w, t[r.key])
  BY <1>2, <1>3, <1>4 DEF Newer, Row
<1>. QED
  BY <1>1, <1>2, <1>3, <1>5, NothingAssumption

(* A table whose rows only advance goes on covering what it covered. *)
LEMMA CoversAdvances ==
  ASSUME NEW b \in Batches, NEW t \in [Keys -> Row \cup {NoRow}],
         NEW u \in [Keys -> Row \cup {NoRow}], Covers(t, b),
         \A k \in Keys : t[k] # NoRow /\ u[k] # t[k] => u[k] # NoRow /\ Newer(u[k], t[k])
  PROVE  Covers(u, b)
<1> SUFFICES ASSUME NEW r \in Valid(b) PROVE u[r.key] # NoRow /\ ~ Newer(r, u[r.key])
  BY DEF Covers
<1>1. r \in Row /\ r.key \in Keys
  BY BatchParts DEF Row
<1>2. t[r.key] \in Row /\ ~ Newer(r, t[r.key])
  BY <1>1 DEF Covers
<1>3. CASE u[r.key] = t[r.key]
  BY <1>2, <1>3, NothingAssumption
<1>4. CASE u[r.key] # t[r.key]
  <2>1. u[r.key] \in Row /\ Newer(u[r.key], t[r.key])
    BY <1>1, <1>2, <1>4, NothingAssumption
  <2>2. Newer(r, u[r.key]) => Newer(r, t[r.key])
    BY <1>1, <1>2, <2>1, NewerTransitive
  <2>. QED
    BY <1>2, <2>1, <2>2, NothingAssumption
<1>. QED
  BY <1>3, <1>4

(* A MERGE leaves the table covering the batch, although the table may     *)
(* have moved on since the batch was classified.                           *)
LEMMA MergeCovers ==
  ASSUME TypeOK, JobInv, NEW j \in Jobs, MergeBusiness(j)
  PROVE  Covers(table', job[j])
<1>1. job[j] \in Batches /\ Winners(job[j]) \subseteq Row
  BY BatchParts DEF MergeBusiness, JobInv
<1>2. table' \in [Keys -> Row \cup {NoRow}]
  BY MergeTable
<1>3. ASSUME NEW w \in Winners(job[j])
      PROVE  table'[w.key] # NoRow /\ ~ Newer(w, table'[w.key])
  <2>1. w \in Row /\ w.key \in Keys
    BY <1>1 DEF Row
  <2>2. CASE /\ table'[w.key] = table[w.key]
             /\ w \notin Inserts(job[j]) \cup Updates(job[j])
    BY <2>2 DEF Inserts, Updates
  <2>3. CASE table'[w.key] \in Winners(job[j]) /\ table'[w.key].key = w.key
    <3>1. w \in Valid(job[j])
      BY DEF Winners
    <3>2. ~ Newer(w, table'[w.key])
      BY <1>1, <2>3, <3>1, WinnerIsFreshest
    <3>. QED
      BY <1>1, <2>3, <3>2, NothingAssumption
  <2>. QED
    BY <2>1, <2>2, <2>3, MergeRow
<1>. QED
  BY <1>1, <1>2, <1>3, WinnersCover

(* The steps that leave the table alone. *)
LEMMA TableStep ==
  ASSUME TypeOK, JobInv, [Next]_vars
  PROVE  \A k \in Keys : table[k] # NoRow /\ table'[k] # table[k]
           => table'[k] # NoRow /\ Newer(table'[k], table[k])
<1>1. CASE \E j \in Jobs : MergeBusiness(j)
  BY <1>1, MergeTable
<1>2. CASE ~ \E j \in Jobs : MergeBusiness(j)
  <2>1. table' = table
    BY <1>2 DEF Next, Start, Classify, MergeQuarantine, Record, Acknowledge, Crash, vars, tables
  <2>. QED
    BY <2>1
<1>. QED
  BY <1>1, <1>2

(* Every step leaves each merged batch covered. *)
LEMMA FreshestStep == IInv /\ [Next]_vars => FreshestWins'
<1> SUFFICES ASSUME IInv, [Next]_vars PROVE FreshestWins'
  OBVIOUS
<1>1. TypeOK /\ JobInv /\ TypeOK'
  BY TypeStep DEF IInv
<1>2. /\ table \in [Keys -> Row \cup {NoRow}] /\ table' \in [Keys -> Row \cup {NoRow}]
      /\ merged \subseteq Batches
  BY <1>1 DEF TypeOK
<1>3. ASSUME NEW b \in merged PROVE Covers(table', b)
  <2>1. Covers(table, b)
    BY DEF IInv, FreshestWins, Covers
  <2>. QED
    BY <1>1, <1>2, <2>1, TableStep, CoversAdvances
<1>4. ASSUME NEW b \in merged', b \notin merged PROVE Covers(table', b)
  <2>1. CASE \E j \in Jobs : MergeBusiness(j)
    <3>1. PICK j \in Jobs : MergeBusiness(j)
      BY <2>1
    <3>2. b = job[j]
      BY <1>4, <3>1 DEF MergeBusiness
    <3>. QED
      BY <1>1, <3>1, <3>2, MergeCovers
  <2>2. CASE ~ \E j \in Jobs : MergeBusiness(j)
    <3>1. PICK j \in Jobs : Classify(j) /\ NothingNew(Counts(job[j])) /\ b = job[j]
      BY <1>4, <2>2 DEF Next, Start, Classify, MergeQuarantine, Record, Acknowledge, Crash, vars
    <3>2. job[j] \in Batches /\ table' = table
      BY <1>1, <3>1 DEF Classify, JobInv, tables
    <3>3. Inserts(b) = {} /\ Updates(b) = {}
      BY <3>1, <3>2, CountsFacts
    <3>4. \A w \in Winners(b) : table[w.key] # NoRow /\ ~ Newer(w, table[w.key])
      BY <3>3 DEF Inserts, Updates
    <3>. QED
      BY <1>2, <3>1, <3>2, <3>4, WinnersCover
  <2>. QED
    BY <2>1, <2>2
<1>. QED
  BY <1>3, <1>4 DEF FreshestWins, Covers

(* The inductive invariant holds in every reachable state. *)
THEOREM InvariantHolds == Spec => []IInv
<1>1. IInv /\ [Next]_vars => IInv'
  BY TypeStep, JobStep, FreshestStep DEF IInv
<1>. QED
  BY InitInv, <1>1, PTL DEF Spec

(* Every variable of the job and of its tables stays in its type. *)
THEOREM TypeCorrect == Spec => []TypeOK
<1>1. IInv => TypeOK
  BY DEF IInv
<1>. QED
  BY InvariantHolds, <1>1, PTL

(* No merged batch holds a valid row fresher than the current one, for any *)
(* number of jobs at once, replays, late batches and crashes.              *)
THEOREM NoFresherRowLost == Spec => []FreshestWins
<1>1. IInv => FreshestWins
  BY DEF IInv
<1>. QED
  BY InvariantHolds, <1>1, PTL

(* A row of the table changes only to a fresher one. *)
THEOREM TableNeverGoesBack == Spec => RowsAdvance
<1>1. IInv /\ [Next]_vars =>
        [\A k \in Keys : table[k] # NoRow /\ table'[k] # table[k]
           => table'[k] # NoRow /\ Newer(table'[k], table[k])]_vars
  BY TableStep DEF IInv
<1>. QED
  BY InvariantHolds, <1>1, PTL DEF Spec, RowsAdvance

(* A recorded reconciliation is never replaced. *)
THEOREM ReplaysKeepTheResult == Spec => FirstResultStands
<1>1. [Next]_vars => [reconciliation \subseteq reconciliation']_vars
  BY DEF Next, Start, Classify, MergeBusiness, MergeQuarantine, Record, Acknowledge, Crash,
         vars, tables
<1>. QED
  BY <1>1, PTL DEF Spec, FirstResultStands

(* A clean batch that has been merged is found exact or superseded by the  *)
(* backfill validator: two different rows of equal freshness do not exist. *)
THEOREM MergedBatchesValidate == Spec => []BackfillAccepts
<1>1. ASSUME IInv, NEW b \in merged, NEW i \in b.rows, b.rows = Winners(b)
      PROVE  BackfillStatus(i) \in {"exact", "superseded"}
  <2>1. b \in Batches /\ i \in Valid(b)
    BY <1>1 DEF IInv, TypeOK, Winners
  <2>2. i \in Row /\ i.key \in Keys
    BY <2>1, BatchParts DEF Row
  <2>3. table[i.key] # NoRow /\ ~ Newer(i, table[i.key]) /\ table[i.key] \in Row
    BY <1>1, <2>1, <2>2 DEF IInv, TypeOK, FreshestWins
  <2>4. table[i.key].hash = i.hash \/ Newer(table[i.key], i)
    BY <2>2, <2>3, NewerTotal
  <2>. QED
    BY <2>3, <2>4 DEF BackfillStatus
<1>2. IInv => BackfillAccepts
  BY <1>1 DEF BackfillAccepts
<1>. QED
  BY InvariantHolds, <1>2, PTL

-----------------------------------------------------------------------------
(* What a recorded result says of its batch. *)
Finished(r, b) ==
  /\ b \in merged
  /\ Evidence(b) \subseteq quarantine
  /\ r.rejected = Cardinality(Invalid(b))
  /\ r.duplicates = Cardinality(Duplicates(b))
  /\ r.winners = Cardinality(Winners(b))

(* A job past a commit has what it committed; so has a recorded result. *)
FinishedInv ==
  /\ \A j \in Jobs : pc[j] \in {"record", "acknowledge"} => Evidence(job[j]) \subseteq quarantine
  /\ \A j \in Jobs : pc[j] = "acknowledge" =>
       \E r \in reconciliation : r.manifest = job[j].manifest
  /\ \A b \in acked : \E r \in reconciliation : r.manifest = b.manifest
  /\ \A r \in reconciliation : \A b \in Batches : b.manifest = r.manifest => Finished(r, b)

(* Counting the members of a finite set through a one-to-one operator. *)
LEMMA SameCount ==
  ASSUME NEW S, IsFiniteSet(S), NEW f, DOMAIN f = S, \A x, y \in S : f[x] = f[y] => x = y
  PROVE  IsFiniteSet({f[x] : x \in S}) /\ Cardinality({f[x] : x \in S}) = Cardinality(S)
<1> DEFINE T == {f[x] : x \in S}
           g == [x \in S |-> f[x]]
<1>1. g \in Bijection(S, T)
  BY DEF Bijection, Injection, Surjection, IsInjective
<1>2. ExistsBijection(S, T)
  BY <1>1 DEF ExistsBijection
<1>. QED
  BY <1>2, FS_Bijection

(* Each rejected or losing row of a batch has evidence of its own. *)
LEMMA EvidenceCount ==
  ASSUME NEW b \in Batches
  PROVE  Cardinality(Evidence(b)) = Cardinality(Invalid(b)) + Cardinality(Duplicates(b))
<1> DEFINE Lost == Invalid(b) \cup Duplicates(b)
           id == [x \in Lost |-> IF x \in Invalid(b) THEN EvidenceId(x, x.reason)
                                 ELSE EvidenceId(x, "duplicate_business_key_non_winner")]
<1>1. Lost \subseteq b.rows /\ Invalid(b) \subseteq b.rows /\ Duplicates(b) \subseteq b.rows
  BY BatchParts
<1>2. IsFiniteSet(Lost) /\ IsFiniteSet(Invalid(b)) /\ IsFiniteSet(Duplicates(b))
  BY <1>1, BatchParts
<1>3. Invalid(b) \cap Duplicates(b) = {}
  BY DEF Invalid, Duplicates
<1>4. Cardinality(Lost) = Cardinality(Invalid(b)) + Cardinality(Duplicates(b))
  <2>1. /\ Cardinality(Invalid(b)) \in Nat /\ Cardinality(Duplicates(b)) \in Nat
        /\ Cardinality({}) = 0
    BY <1>1, BatchParts, FS_EmptySet
  <2>2. Cardinality(Lost) = Cardinality(Invalid(b)) + Cardinality(Duplicates(b))
                              - Cardinality(Invalid(b) \cap Duplicates(b))
    BY <1>2, FS_Union
  <2>3. Cardinality(Invalid(b) \cap Duplicates(b)) = 0
    BY <1>3, <2>1
  <2> HIDE DEF Lost
  <2>. QED
    BY <2>1, <2>2, <2>3
<1>5. \A x, y \in Lost : id[x] = id[y] => x = y
  <2>1. \A x \in Lost : id[x].locator = x.locator
    BY DEF EvidenceId
  <2>2. \A x, y \in b.rows : x.locator = y.locator => x = y
    BY BatchesAssumption
  <2> HIDE DEF id
  <2>. QED
    BY <1>1, <2>1, <2>2
<1>6. Evidence(b) = {id[x] : x \in Lost}
  BY <1>3 DEF Evidence
<1>7. Cardinality({id[x] : x \in Lost}) = Cardinality(Lost)
  <2>1. DOMAIN id = Lost
    OBVIOUS
  <2> HIDE DEF id, Lost
  <2>. QED
    BY <1>2, <1>5, <2>1, SameCount
<1>. QED
  BY <1>4, <1>6, <1>7

(* A batch has one winner for each key of its valid rows. *)
LEMMA WinnersCount ==
  ASSUME NEW b \in Batches
  PROVE  /\ IsFiniteSet({x.key : x \in Valid(b)})
         /\ Cardinality({x.key : x \in Valid(b)}) = Cardinality(Winners(b))
<1> DEFINE key == [w \in Winners(b) |-> w.key]
<1>1. Winners(b) \subseteq b.rows /\ Winners(b) \subseteq Valid(b) /\ IsFiniteSet(Winners(b))
  BY BatchParts DEF Winners
<1>2. \A w, x \in Winners(b) : w.key = x.key => w = x
  <2> SUFFICES ASSUME NEW w \in Winners(b), NEW x \in Winners(b), w.key = x.key, w # x
               PROVE FALSE
    OBVIOUS
  <2>1. RanksBefore(w, x) /\ RanksBefore(x, w)
    BY <1>1 DEF Winners
  <2>. QED
    BY <1>1, <2>1, RankingIsTotal
<1>3. {x.key : x \in Valid(b)} = {key[w] : w \in Winners(b)}
  <2>1. \A r \in Valid(b) : \E w \in Winners(b) : w.key = r.key
    BY EveryKeyHasAWinner
  <2>. QED
    BY <1>1, <2>1
<1>4. /\ IsFiniteSet({key[w] : w \in Winners(b)})
      /\ Cardinality({key[w] : w \in Winners(b)}) = Cardinality(Winners(b))
  <2>1. DOMAIN key = Winners(b) /\ \A w, x \in Winners(b) : key[w] = key[x] => w = x
    BY <1>2
  <2> HIDE DEF key
  <2>. QED
    BY <1>1, <2>1, SameCount
<1>. QED
  BY <1>3, <1>4

(* The quarantine of a manifest is the evidence of its batch. *)
LEMMA EvidenceOfManifest ==
  ASSUME TypeOK, NEW b \in Batches, Evidence(b) \subseteq quarantine
  PROVE  {q \in quarantine : q.manifest = b.manifest} = Evidence(b)
<1>1. \A c \in Batches : \A e \in Evidence(c) : e.manifest = c.manifest
  <2> SUFFICES ASSUME NEW c \in Batches, NEW e \in Evidence(c) PROVE e.manifest = c.manifest
    OBVIOUS
  <2>1. \A x \in Invalid(c) \cup Duplicates(c) : x.manifest = c.manifest
    BY BatchParts, BatchesAssumption
  <2>. QED
    BY <2>1 DEF Evidence, EvidenceId
<1>2. \A q \in quarantine : \E c \in Batches : q \in Evidence(c)
  BY DEF TypeOK
<1>. QED
  BY <1>1, <1>2, ManifestsAssumption

(* Every step leaves recorded results finished. *)
LEMMA FinishedStep == IInv /\ FinishedInv /\ [Next]_vars => FinishedInv'
<1> SUFFICES ASSUME IInv, FinishedInv, [Next]_vars PROVE FinishedInv'
  OBVIOUS
<1>0. TypeOK /\ JobInv
  BY DEF IInv
<1>1. CASE UNCHANGED vars
  BY <1>1 DEF vars, FinishedInv, Finished
<1> USE DEF FinishedInv, Finished, Goto
<1>2. ASSUME NEW j \in Jobs, NEW b \in Batches, Start(j, b) PROVE FinishedInv'
  BY <1>0, <1>2 DEF Start, tables, TypeOK
<1>3. ASSUME NEW j \in Jobs, Classify(j) PROVE FinishedInv'
  <2>1. /\ UNCHANGED <<quarantine, reconciliation, job, acked>> /\ merged \subseteq merged'
        /\ \E label \in {"merge", "quarantine"} : pc' = [pc EXCEPT ![j] = label]
    BY <1>3 DEF Classify, tables
  <2>. QED
    BY <1>0, <2>1 DEF TypeOK
<1>4. ASSUME NEW j \in Jobs, MergeBusiness(j) PROVE FinishedInv'
  BY <1>0, <1>4 DEF MergeBusiness, TypeOK
<1>5. ASSUME NEW j \in Jobs, MergeQuarantine(j) PROVE FinishedInv'
  BY <1>0, <1>5 DEF MergeQuarantine, TypeOK
<1>6. ASSUME NEW j \in Jobs, Record(j) PROVE FinishedInv'
  <2>1. job[j] \in Batches /\ job[j] \in merged /\ Evidence(job[j]) \subseteq quarantine
    BY <1>0, <1>6 DEF Record, JobInv
  <2>2. /\ ResultOf(j).manifest = job[j].manifest
        /\ \A b \in Batches : b.manifest = job[j].manifest => Finished(ResultOf(j), b)
    <3>1. \A b \in Batches : b.manifest = job[j].manifest => b = job[j]
      BY <2>1, ManifestsAssumption
    <3>. QED
      BY <2>1, <3>1 DEF ResultOf
  <2>3. reconciliation \subseteq reconciliation' /\ reconciliation' \subseteq reconciliation \cup {ResultOf(j)}
    BY <1>6 DEF Record
  <2>4. \E r \in reconciliation' : r.manifest = job[j].manifest
    <3> HIDE DEF ResultOf
    <3>. QED
      BY <1>6, <2>2 DEF Record
  <2>5. UNCHANGED <<quarantine, job, merged, acked>> /\ pc' = [pc EXCEPT ![j] = "acknowledge"]
    BY <1>6 DEF Record
  <2>6. \A r \in reconciliation' : \A b \in Batches : b.manifest = r.manifest => Finished(r, b)'
    <3> HIDE DEF ResultOf
    <3>. QED
      BY <2>2, <2>3, <2>5
  <2>7. \A i \in Jobs : pc'[i] = "acknowledge" =>
          \E r \in reconciliation' : r.manifest = job[i].manifest
    BY <1>0, <2>3, <2>4, <2>5 DEF TypeOK
  <2>8. \A i \in Jobs : pc'[i] \in {"record", "acknowledge"} => Evidence(job[i]) \subseteq quarantine
    BY <1>0, <2>1, <2>5 DEF TypeOK
  <2>9. \A b \in acked : \E r \in reconciliation' : r.manifest = b.manifest
    BY <2>3
  <2>. QED
    BY <2>5, <2>6, <2>7, <2>8, <2>9
<1>7. ASSUME NEW j \in Jobs, Acknowledge(j) PROVE FinishedInv'
  BY <1>0, <1>7 DEF Acknowledge, Stop, tables, TypeOK
<1>8. ASSUME NEW j \in Jobs, Crash(j) PROVE FinishedInv'
  BY <1>0, <1>8 DEF Crash, Stop, tables, TypeOK
<1>. QED
  BY <1>1, <1>2, <1>3, <1>4, <1>5, <1>6, <1>7, <1>8 DEF Next

(* A manifest with a reconciliation row is finished: its winners, one for  *)
(* each key, are merged, and each of its other rows is in quarantine by    *)
(* itself; an acknowledged manifest has one.                               *)
THEOREM AcknowledgedIsFinished == Spec => []RecordedIsFinished
<1>1. Init => FinishedInv
  BY DEF Init, FinishedInv
<1>2. TypeOK /\ FinishedInv => RecordedIsFinished
  <2> SUFFICES ASSUME TypeOK, FinishedInv, NEW r \in reconciliation, NEW b \in Batches,
                      b.manifest = r.manifest
               PROVE  /\ b \in merged
                      /\ Cardinality({q \in quarantine : q.manifest = b.manifest}) = r.rejected + r.duplicates
                      /\ r.winners = Cardinality({x.key : x \in Valid(b)})
    BY DEF RecordedIsFinished, FinishedInv
  <2>1. Finished(r, b)
    BY DEF FinishedInv
  <2>. QED
    BY <2>1, EvidenceCount, WinnersCount, EvidenceOfManifest DEF Finished
<1>3. IInv => TypeOK
  BY DEF IInv
<1>. QED
  BY InvariantHolds, FinishedStep, <1>1, <1>2, <1>3, PTL DEF Spec

-----------------------------------------------------------------------------
(* The keys a table has rows of. *)
Present(t) == {k \in Keys : t[k] # NoRow}

(* The rows of a table are valid rows of batches, under their own keys. *)
Sourced(t) ==
  /\ t \in [Keys -> Row \cup {NoRow}]
  /\ IsFiniteSet(Present(t))
  /\ \A k \in Present(t) : t[k].key = k /\ \E b \in Batches : t[k] \in Valid(b)

(* Each row of t is in u, or has given way to a fresher one. *)
Advanced(t, u) ==
  \A k \in Present(t) : u[k] # NoRow /\ (u[k] = t[k] \/ Newer(u[k], t[k]))

(* What ReportHolds says of one table. *)
HoldsOf(r, current) ==
  /\ \A i \in historical : current[i.key] # NoRow /\ AsNewAtSource(current[i.key], i)
  /\ Cardinality(Present(current)) >= r.exact + r.superseded + r.unrelated

(* What the validation has accepted is still there, or fresher; what it    *)
(* reported holds of the snapshot it named.                                *)
ValidationInv ==
  /\ request \in Requests
  /\ Sourced(table)
  /\ checking = "report" =>
       Sourced(cached) /\ Advanced(cached, table) /\ InputSound /\ Accepts(cached)
  /\ report # NoReport =>
       /\ Sourced(report.snapshot) /\ Advanced(report.snapshot, table)
       /\ report.exact \in Nat /\ report.superseded \in Nat /\ report.unrelated \in Nat
       /\ HoldsOf(report, report.snapshot)

(* The historical rows are finitely many rows of batches. *)
LEMMA HistoricalRows ==
  ASSUME request \in Requests
  PROVE  /\ IsFiniteSet(historical) /\ historical \subseteq Row
         /\ \A i \in historical : \E b \in request : b \in Batches /\ i \in b.rows
<1>1. request \subseteq Batches /\ IsFiniteSet(request)
  BY RequestsAssumption
<1>2. IsFiniteSet({b.rows : b \in request})
  <2> DEFINE T == {b.rows : b \in request}
             rows == [b \in request |-> b.rows]
  <2>1. rows \in Surjection(request, T)
    BY DEF Surjection
  <2>. QED
    BY <1>1, <2>1, FS_Surjection
<1>3. \A s \in {b.rows : b \in request} : IsFiniteSet(s) /\ s \subseteq Row
  BY <1>1, BatchesAssumption
<1>. QED
  BY <1>1, <1>2, <1>3, FS_UNION DEF historical

(* Rows that advance do not go back at the source. *)
LEMMA AdvancedHolds ==
  ASSUME request \in Requests, NEW t, NEW u, Sourced(t), Sourced(u), Advanced(t, u),
         NEW r, r.exact \in Nat, r.superseded \in Nat, r.unrelated \in Nat, HoldsOf(r, t)
  PROVE  HoldsOf(r, u)
<1>1. ASSUME NEW i \in historical
      PROVE  u[i.key] # NoRow /\ AsNewAtSource(u[i.key], i)
  <2>1. i \in Row /\ i.key \in Keys /\ i.key \in Present(t)
    BY HistoricalRows DEF HoldsOf, Present, Row
  <2>2. t[i.key] \in Row /\ u[i.key] # NoRow /\ u[i.key] \in Row /\ AsNewAtSource(t[i.key], i)
    BY <2>1 DEF Sourced, Advanced, Present, HoldsOf
  <2>3. u[i.key] = t[i.key] \/ Newer(u[i.key], t[i.key])
    BY <2>1 DEF Advanced
  <2>. QED
    BY <2>1, <2>2, <2>3 DEF AsNewAtSource, Newer, Row
<1>2. Present(t) \subseteq Present(u)
  BY DEF Advanced, Present
<1>3. /\ Cardinality(Present(t)) \in Nat /\ Cardinality(Present(u)) \in Nat
      /\ Cardinality(Present(t)) <= Cardinality(Present(u))
  BY <1>2, FS_Subset, FS_CardinalityType DEF Sourced
<1>4. Cardinality(Present(u)) >= r.exact + r.superseded + r.unrelated
  BY <1>3 DEF HoldsOf
<1>. QED
  BY <1>1, <1>4 DEF HoldsOf

(* Advancing twice is advancing. *)
LEMMA AdvancedTransitive ==
  ASSUME NEW t, NEW u, NEW v, Sourced(t), Sourced(u), Sourced(v), Advanced(t, u), Advanced(u, v)
  PROVE  Advanced(t, v)
<1> SUFFICES ASSUME NEW k \in Present(t)
             PROVE  v[k] # NoRow /\ (v[k] = t[k] \/ Newer(v[k], t[k]))
  BY DEF Advanced
<1>1. k \in Present(u) /\ v[k] # NoRow
  BY DEF Advanced, Present
<1>2. t[k] \in Row /\ u[k] \in Row /\ v[k] \in Row
  BY <1>1 DEF Sourced, Present
<1>. QED
  BY <1>1, <1>2, NewerTransitive DEF Advanced

(* The verdict of an accepting validation on each historical row. *)
LEMMA AcceptedRow ==
  ASSUME request \in Requests, NEW t, Sourced(t), Accepts(t), NEW i \in historical
  PROVE  /\ i \in Row /\ i.key \in Present(t)
         /\ Status(i, t[i.key]) \in {"exact", "superseded"}
         /\ AsNewAtSource(t[i.key], i)
<1>1. ASSUME NEW status, Count(t, status) = 0
      PROVE  Status(i, t[i.key]) # status
  <2> DEFINE Rows == {x \in historical : Status(x, t[x.key]) = status}
  <2>1. IsFiniteSet(Rows) /\ Cardinality(Rows) = 0
    BY <1>1, HistoricalRows, FS_Subset DEF Count
  <2>2. Rows = {}
    BY <2>1, FS_EmptySet
  <2>. QED
    BY <2>2
<1>2. Status(i, t[i.key]) # "missing" /\ Status(i, t[i.key]) # "conflict"
  BY <1>1 DEF Accepts
<1>3. t[i.key] # NoRow /\ (t[i.key].hash = i.hash \/ Newer(t[i.key], i))
  BY <1>2 DEF Status
<1>4. i \in Row /\ i.key \in Present(t)
  BY <1>3, HistoricalRows DEF Present, Row
<1>5. AsNewAtSource(t[i.key], i)
  <2>1. t[i.key] \in Row
    BY <1>4 DEF Sourced, Present
  <2>2. CASE Newer(t[i.key], i)
    BY <1>4, <2>1, <2>2 DEF AsNewAtSource, Newer, Row
  <2>3. CASE t[i.key].hash = i.hash
    <3>1. PICK b \in Batches : t[i.key] \in b.rows
      BY <1>4 DEF Sourced, Valid
    <3>2. PICK c \in Batches : i \in c.rows
      BY HistoricalRows
    <3>3. t[i.key].key = i.key
      BY <1>4 DEF Sourced
    <3>4. t[i.key].version = i.version /\ t[i.key].extract = i.extract
      BY <2>3, <3>1, <3>2, <3>3, HashAssumption
    <3>. QED
      BY <1>4, <2>1, <3>4 DEF AsNewAtSource, Row
  <2>. QED
    BY <1>3, <2>2, <2>3
<1>. QED
  BY <1>2, <1>3, <1>4, <1>5 DEF Status

(* A table that the validation accepts has a row of its own for each row   *)
(* the summary counts.                                                     *)
LEMMA AcceptedCounts ==
  ASSUME request \in Requests, NEW t, Sourced(t), InputSound, Accepts(t)
  PROVE  /\ Count(t, "exact") \in Nat /\ Count(t, "superseded") \in Nat
         /\ Cardinality(Unrelated(t)) \in Nat
         /\ Cardinality(Present(t)) >=
              Count(t, "exact") + Count(t, "superseded") + Cardinality(Unrelated(t))
<1> DEFINE Exact == {i \in historical : Status(i, t[i.key]) = "exact"}
           Superseded == {i \in historical : Status(i, t[i.key]) = "superseded"}
           key == [i \in Exact \cup Superseded |-> i.key]
           Approved == {key[i] : i \in Exact \cup Superseded}
<1>1. /\ IsFiniteSet(Exact) /\ IsFiniteSet(Superseded) /\ IsFiniteSet(Exact \cup Superseded)
      /\ Cardinality(Exact) \in Nat /\ Cardinality(Superseded) \in Nat
  <2>1. IsFiniteSet(Exact) /\ IsFiniteSet(Superseded)
    BY HistoricalRows, FS_Subset
  <2>. QED
    BY <2>1, FS_Union, FS_CardinalityType
<1>2. Cardinality(Exact \cup Superseded) = Cardinality(Exact) + Cardinality(Superseded)
  <2>1. Exact \cap Superseded = {}
    OBVIOUS
  <2>2. Cardinality(Exact \cap Superseded) = 0
    BY <2>1, FS_EmptySet
  <2> HIDE DEF Exact, Superseded
  <2>3. Cardinality(Exact \cup Superseded) =
          Cardinality(Exact) + Cardinality(Superseded) - Cardinality(Exact \cap Superseded)
    BY <1>1, FS_Union
  <2>. QED
    BY <1>1, <2>2, <2>3
<1>3. IsFiniteSet(Approved) /\ Cardinality(Approved) = Cardinality(Exact \cup Superseded)
  <2>1. DOMAIN key = Exact \cup Superseded
    OBVIOUS
  <2>2. \A i, q \in Exact \cup Superseded : key[i] = key[q] => i = q
    BY DEF InputSound
  <2> HIDE DEF key, Exact, Superseded
  <2>. QED
    BY <1>1, <2>1, <2>2, SameCount
<1>4. Approved \subseteq Present(t) /\ Unrelated(t) \subseteq Present(t) /\ Approved \cap Unrelated(t) = {}
  <2>1. \A i \in historical : i.key \in Present(t)
    BY AcceptedRow
  <2>. QED
    BY <2>1 DEF Unrelated, Present
<1>5. /\ IsFiniteSet(Unrelated(t)) /\ Cardinality(Unrelated(t)) \in Nat
      /\ Cardinality(Present(t)) \in Nat
      /\ Cardinality(Approved \cup Unrelated(t)) <= Cardinality(Present(t))
  <2> HIDE DEF Approved
  <2>. QED
    BY <1>4, FS_Subset, FS_CardinalityType DEF Sourced
<1>6. Cardinality(Approved \cup Unrelated(t)) = Cardinality(Approved) + Cardinality(Unrelated(t))
  <2> HIDE DEF Approved
  <2>1. Cardinality(Approved \cap Unrelated(t)) = 0
    BY <1>4, FS_EmptySet
  <2>2. Cardinality(Approved) \in Nat
    BY <1>3, FS_CardinalityType
  <2>3. Cardinality(Approved \cup Unrelated(t)) =
          Cardinality(Approved) + Cardinality(Unrelated(t)) - Cardinality(Approved \cap Unrelated(t))
    BY <1>3, <1>5, FS_Union
  <2>. QED
    BY <1>5, <2>1, <2>2, <2>3
<1>7. Count(t, "exact") = Cardinality(Exact) /\ Count(t, "superseded") = Cardinality(Superseded)
  BY DEF Count
<1> HIDE DEF Exact, Superseded, Approved
<1>. QED
  BY <1>1, <1>2, <1>3, <1>5, <1>6, <1>7

(* The MERGE puts rows of the batch under their own keys, and only those. *)
LEMMA SourcedStep ==
  ASSUME IInv, [Next]_vars, Sourced(table)
  PROVE  Sourced(table') /\ Advanced(table, table')
<1>1. TypeOK /\ JobInv /\ TypeOK'
  BY TypeStep DEF IInv
<1>2. Advanced(table, table')
  BY <1>1, TableStep DEF Advanced, Present
<1>3. CASE \E j \in Jobs : MergeBusiness(j)
  <2>1. PICK j \in Jobs : MergeBusiness(j)
    BY <1>3
  <2>2. job[j] \in Batches
    BY <1>1, <2>1 DEF MergeBusiness, JobInv
  <2>3. \A k \in Keys : \/ table'[k] = table[k]
                        \/ table'[k] \in Winners(job[j]) /\ table'[k].key = k
    BY <1>1, <2>1, MergeRow
  <2>4. Winners(job[j]) \subseteq Valid(job[j])
    BY DEF Winners
  <2>5. Present(table') \subseteq Present(table) \cup {x.key : x \in Valid(job[j])}
    BY <2>3, <2>4 DEF Present
  <2>6. IsFiniteSet(Present(table'))
    <3>1. IsFiniteSet(Present(table) \cup {x.key : x \in Valid(job[j])})
      BY <2>2, WinnersCount, FS_Union DEF Sourced
    <3>. QED
      BY <2>5, <3>1, FS_Subset
  <2>7. \A k \in Present(table') : table'[k].key = k /\ \E b \in Batches : table'[k] \in Valid(b)
    BY <2>2, <2>3, <2>4 DEF Sourced, Present
  <2>. QED
    BY <1>1, <1>2, <2>6, <2>7 DEF Sourced, TypeOK
<1>4. CASE ~ \E j \in Jobs : MergeBusiness(j)
  <2>1. table' = table
    BY <1>4 DEF Next, Start, Classify, MergeQuarantine, Record, Acknowledge, Crash, vars, tables
  <2>. QED
    BY <1>2, <2>1
<1>. QED
  BY <1>3, <1>4

(* Every step, of a job or of the validation, keeps what was accepted and  *)
(* what was reported true.                                                 *)
LEMMA ValidationStep ==
  IInv /\ ValidationInv /\ [ValidationNext]_<<vars, validation>> => ValidationInv'
<1> SUFFICES ASSUME IInv, ValidationInv, [ValidationNext]_<<vars, validation>> PROVE ValidationInv'
  OBVIOUS
<1>0. Sourced(table) /\ request \in Requests
  BY DEF ValidationInv
<1>1. CASE [Next]_vars /\ UNCHANGED validation
  <2>1. Sourced(table') /\ Advanced(table, table')
    BY <1>0, <1>1, SourcedStep
  <2>2. UNCHANGED <<request, checking, cached, report>>
    BY <1>1 DEF validation
  <2>3. /\ InputSound' <=> InputSound
        /\ Accepts(cached)' <=> Accepts(cached)
        /\ HoldsOf(report, report.snapshot)' <=> HoldsOf(report, report.snapshot)
    BY <2>2 DEF InputSound, Accepts, Count, Unexpected, HoldsOf, historical
  <2>4. checking = "report" => Advanced(cached, table')
    BY <1>0, <2>1, AdvancedTransitive DEF ValidationInv
  <2>5. report # NoReport => Advanced(report.snapshot, table')
    BY <1>0, <2>1, AdvancedTransitive DEF ValidationInv
  <2>. QED
    BY <2>1, <2>2, <2>3, <2>4, <2>5 DEF ValidationInv
<1>2. CASE Validate
  <2>1. table' = table /\ report' = report /\ request' = request
    BY <1>2 DEF Validate, vars, End
  <2>2. \/ checking' # "report"
        \/ InputSound /\ Accepts(table) /\ cached' = table
    BY <1>2 DEF Validate, End
  <2>3. Advanced(table, table)
    BY DEF Advanced, Present
  <2>. QED
    BY <2>1, <2>2, <2>3 DEF ValidationInv, InputSound, Accepts, Count, Unexpected, HoldsOf, historical
<1>3. CASE WriteReport
  <2>1. table' = table /\ request' = request /\ checking' # "report"
    BY <1>3 DEF WriteReport, vars, End
  <2>2. CASE report # NoReport
    <3>1. report' = report
      BY <1>3, <2>2 DEF WriteReport
    <3>. QED
      BY <2>1, <3>1 DEF ValidationInv, HoldsOf, historical
  <2>3. CASE report = NoReport
    <3>1. /\ report' = Report /\ checking = "report"
          /\ Sourced(cached) /\ Advanced(cached, table) /\ InputSound /\ Accepts(cached)
      BY <1>3, <2>3 DEF WriteReport, ValidationInv
    <3>2. /\ Report.exact = Count(cached, "exact") /\ Report.superseded = Count(cached, "superseded")
          /\ Report.unrelated = Cardinality(Unrelated(cached)) /\ Report.snapshot = table
      BY DEF Report
    <3>3. /\ Report.exact \in Nat /\ Report.superseded \in Nat /\ Report.unrelated \in Nat
          /\ Cardinality(Present(cached)) >= Report.exact + Report.superseded + Report.unrelated
      BY <1>0, <3>1, <3>2, AcceptedCounts
    <3>4. HoldsOf(Report, cached)
      BY <1>0, <3>1, <3>3, AcceptedRow DEF HoldsOf, Present
    <3>5. HoldsOf(Report, table)
      <4> HIDE DEF Report
      <4>. QED
        BY <1>0, <3>1, <3>3, <3>4, AdvancedHolds
    <3>6. Advanced(table, table)
      BY DEF Advanced, Present
    <3> HIDE DEF Report
    <3>. QED
      BY <1>0, <2>1, <3>1, <3>2, <3>3, <3>5, <3>6 DEF ValidationInv, HoldsOf, historical
  <2>. QED
    BY <2>2, <2>3
<1>4. CASE Abort
  <2>1. table' = table /\ report' = report /\ request' = request /\ checking' # "report"
    BY <1>4 DEF Abort, vars, End
  <2>. QED
    BY <2>1 DEF ValidationInv, HoldsOf, historical
<1>5. CASE UNCHANGED <<vars, validation>>
  BY <1>1, <1>5
<1>. QED
  BY <1>1, <1>2, <1>3, <1>4, <1>5 DEF ValidationNext

(* The jobs' invariant beside a validation, which writes none of theirs. *)
LEMMA ValidationInvariantHolds == ValidationSpec => [](IInv /\ ValidationInv)
<1>1. ValidationInit => IInv /\ ValidationInv
  <2>1. ValidationInit => Present(table) = {}
    BY DEF ValidationInit, Init, Present
  <2>2. ValidationInit => Sourced(table)
    BY <2>1, FS_EmptySet DEF ValidationInit, Init, Sourced
  <2>. QED
    BY <2>2, InitInv DEF ValidationInit, ValidationInv
<1>2. [ValidationNext]_<<vars, validation>> => [Next]_vars
  BY DEF ValidationNext, Validate, WriteReport, Abort
<1>3. IInv /\ [Next]_vars => IInv'
  BY TypeStep, JobStep, FreshestStep DEF IInv
<1>. QED
  BY <1>1, <1>2, <1>3, ValidationStep, PTL DEF ValidationSpec

(* A stored report stays true of the table and of the snapshot it names,   *)
(* whatever the jobs have merged between and since.                        *)
THEOREM ReportsStayTrue == ValidationSpec => []ReportHolds
<1>1. ValidationInv => ReportHolds
  <2> SUFFICES ASSUME ValidationInv, report # NoReport, NEW current \in {table, report.snapshot}
               PROVE  HoldsOf(report, current)
    BY DEF ReportHolds, HoldsOf, Present
  <2>. QED
    BY AdvancedHolds DEF ValidationInv
<1>. QED
  BY ValidationInvariantHolds, <1>1, PTL

(* No false alarm: a validation of merged batches without rejected rows or *)
(* repeated keys is never refused.                                         *)
THEOREM CleanIsNeverRefused == ValidationSpec => CleanIsValidated
<1>1. ASSUME IInv, ValidationInv, request \subseteq merged, InputSound
      PROVE  Accepts(table)
  <2>1. ASSUME NEW i \in historical
        PROVE  Status(i, table[i.key]) \in {"exact", "superseded"}
    <3>1. PICK b \in request : b \in Batches /\ i \in b.rows
      BY <1>1, HistoricalRows DEF ValidationInv
    <3>2. i \in Valid(b) /\ i \in Row /\ i.key \in Keys
      BY <1>1, <3>1, BatchParts DEF InputSound, Valid, Row
    <3>3. table[i.key] # NoRow /\ ~ Newer(i, table[i.key]) /\ table[i.key] \in Row
      BY <1>1, <3>1, <3>2 DEF IInv, TypeOK, FreshestWins
    <3>4. table[i.key].hash = i.hash \/ Newer(table[i.key], i)
      BY <3>2, <3>3, NewerTotal
    <3>. QED
      BY <3>3, <3>4 DEF Status
  <2>2. Count(table, "missing") = 0 /\ Count(table, "conflict") = 0
    <3>1. \A status \in {"missing", "conflict"} :
            {i \in historical : Status(i, table[i.key]) = status} = {}
      BY <2>1
    <3>. QED
      BY <3>1, FS_EmptySet DEF Count
  <2>3. Unexpected(table) = {}
    <3> SUFFICES ASSUME NEW k \in Present(table), NEW b \in request, table[k].manifest = b.manifest
                 PROVE  k \in {i.key : i \in historical}
      BY DEF Unexpected, Present
    <3>1. PICK c \in Batches : table[k] \in Valid(c) /\ table[k].key = k
      BY <1>1 DEF ValidationInv, Sourced
    <3>2. table[k] \in c.rows /\ table[k].manifest = c.manifest
      BY <3>1, BatchesAssumption DEF Valid
    <3>3. c = b
      BY <1>1, <3>2, ManifestsAssumption, RequestsAssumption DEF ValidationInv
    <3>. QED
      BY <3>1, <3>2, <3>3 DEF historical
  <2>. QED
    BY <2>2, <2>3 DEF Accepts
<1>2. IInv /\ ValidationInv /\ [ValidationNext]_<<vars, validation>> =>
        [ request \subseteq merged /\ InputSound =>
            ~ (checking = "idle" /\ verdict' = "refused" /\ verdict # "refused") ]_<<vars, validation>>
  BY <1>1 DEF ValidationNext, Validate, WriteReport, Abort, validation, End
<1>. QED
  BY ValidationInvariantHolds, <1>2, PTL DEF ValidationSpec, CleanIsValidated

(* The validation is a reader only: a behaviour with it is one of the jobs *)
(* alone (architecture.md:180: never a replacement writer), so everything  *)
(* proved of them holds beside it.                                         *)
THEOREM ValidationOnlyReads == ValidationSpec => Spec
<1>1. ValidationInit => Init
  BY DEF ValidationInit
<1>2. [ValidationNext]_<<vars, validation>> => [Next]_vars
  BY DEF ValidationNext, Validate, WriteReport, Abort
<1>. QED
  BY <1>1, <1>2, PTL DEF ValidationSpec, Spec

================================================================================

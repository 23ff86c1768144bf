--------------------------- MODULE CdcLedgerProofs ---------------------------
(***************************************************************************)
(* Proofs about CdcOrdering and CdcLedger, for every set of keys, events   *)
(* and source positions: the ordering oracle decides by a strict partial   *)
(* order, the adapter gives well-formed events of that order, and the      *)
(* one-writer ledger keeps its safety properties and implements the        *)
(* atomic reference store.                                                 *)
(***************************************************************************)
EXTENDS CdcLedger, DmsAdapter, TLAPS

-----------------------------------------------------------------------------
(* The order of source positions.                                          *)

(* Precedes is a strict order: no position precedes itself. *)
LEMMA PrecedesIrreflexive ==
  ASSUME NEW p \in Position PROVE ~ Precedes(p, p)
BY DEF Precedes, Position, SnapshotPosition

(* Precedes is transitive, so a row that advances twice has advanced. *)
LEMMA PrecedesTransitive ==
  ASSUME NEW p \in Position, NEW q \in Position, NEW r \in Position,
         Precedes(p, q), Precedes(q, r)
  PROVE  Precedes(p, r)
BY DEF Precedes, Position, SnapshotPosition

(* The snapshot phase has one position, which tells rows of it apart from   *)
(* every change.                                                           *)
LEMMA PositionCases ==
  ASSUME NEW p \in Position
  PROVE  \/ p = SnapshotPosition /\ p.phase = 0
         \/ p.phase = 1 /\ p \in [phase : {1}, lsn : Nat, tx : Txs, rec : Nat]
<1>1. CASE p = SnapshotPosition
  BY <1>1 DEF SnapshotPosition
<1>2. CASE p \in [phase : {1}, lsn : Nat, tx : Txs, rec : Nat]
  BY <1>2
<1>. QED
  BY <1>1, <1>2 DEF Position

(* compare_positions answers "newer" and "older" exactly by the source     *)
(* order, "same" exactly for equal coordinates, whatever the positions.    *)
THEOREM CompareDecidesSourceOrder ==
  ASSUME NEW p \in Position, NEW q \in Position
  PROVE  /\ ComparePositions(p, q) = "newer" <=> Precedes(q, p)
         /\ ComparePositions(p, q) = "older" <=> Precedes(p, q)
         /\ ComparePositions(p, q) = "same" <=> p = q
<1>1. CASE p.phase # q.phase
  BY <1>1 DEF ComparePositions, CompareChanges, Precedes, Position, SnapshotPosition
<1>2. CASE p.phase = q.phase /\ p.phase = 0
  <2>1. p = SnapshotPosition /\ q = SnapshotPosition
    <3>1. p.phase = 0 /\ q.phase = 0
      BY <1>2
    <3>2. p.phase # 1 /\ q.phase # 1
      BY <3>1
    <3>3. p = SnapshotPosition
      BY <3>2, PositionCases
    <3>. QED BY <3>2, <3>3, PositionCases
  <2>2. ComparePositions(p, q) = "same"
    BY <1>2 DEF ComparePositions, CompareChanges
  <2>. QED
    BY <2>1, <2>2, PrecedesIrreflexive
<1>3. CASE p.phase = 1 /\ q.phase = 1
  BY <1>3 DEF ComparePositions, CompareChanges, Precedes, Position, SnapshotPosition, NoRec
<1>. QED
  BY <1>1, <1>2, <1>3 DEF Position, SnapshotPosition

(* What decide answers, in terms of the source order and event identity.   *)
LEMMA DecideCases ==
  ASSUME NEW e \in Events, NEW f \in Events
  PROVE  LET d == Decide(e, f.pos, EventHash(f))
         IN /\ d \in Applied <=> Precedes(f.pos, e.pos)
            /\ d = "duplicate" <=> EventHash(e) = EventHash(f)
            /\ d \in Rejected <=> /\ ~ Precedes(f.pos, e.pos)
                                  /\ EventHash(e) # EventHash(f)
            /\ d \in Decision
<1>1. e.pos \in Position /\ f.pos \in Position
  BY EventsAssumption DEF Event
<1>2. EventHash(e) = EventHash(f) => e.pos = f.pos
  BY DEF EventHash
<1>3. ComparePositions(e.pos, f.pos) \in {"newer", "older", "same", "incomparable"}
  BY DEF ComparePositions, CompareChanges
<1> DEFINE order == ComparePositions(e.pos, f.pos)
           d == Decide(e, f.pos, EventHash(f))
<1>4. /\ order = "newer" <=> Precedes(f.pos, e.pos)
      /\ order = "older" <=> Precedes(e.pos, f.pos)
      /\ order = "same" <=> e.pos = f.pos
  BY <1>1, CompareDecidesSourceOrder
<1>5. CASE order = "newer"
  <2>1. d \in {"applied_delete", "applied_update"}
    BY <1>5 DEF Decide
  <2>2. EventHash(e) # EventHash(f)
    BY <1>5, <1>4, <1>2
  <2>. QED
    BY <2>1, <2>2, <1>5, <1>4 DEF Applied, Rejected, Decision
<1>6. CASE order = "older"
  <2>1. d = "stale"
    BY <1>6 DEF Decide
  <2>2. EventHash(e) # EventHash(f)
    BY <1>6, <1>4, <1>2
  <2>. QED
    BY <2>1, <2>2, <1>6, <1>4 DEF Applied, Rejected, Decision
<1>7. CASE order = "same"
  <2>1. d = IF EventHash(e) = EventHash(f) THEN "duplicate" ELSE "conflict"
    BY <1>7 DEF Decide
  <2>. QED
    BY <2>1, <1>7, <1>4 DEF Applied, Rejected, Decision
<1>8. CASE order = "incomparable"
  <2>1. d = "incomparable"
    BY <1>8 DEF Decide
  <2>2. EventHash(e) # EventHash(f)
    BY <1>8, <1>4, <1>2
  <2>. QED
    BY <2>1, <2>2, <1>8, <1>4 DEF Applied, Rejected, Decision
<1>. QED
  BY <1>3, <1>5, <1>6, <1>7, <1>8

(* The coordinate survives the row encoding: reading a stored row gives    *)
(* back the position of the event it was written from.                     *)
LEMMA StoredPosition ==
  ASSUME NEW e \in Events
  PROVE  /\ CurrentPosition(StoredRow(e)) = e.pos
         /\ StoredRow(e).winner = e
<1>1. e.pos \in Position
  BY EventsAssumption DEF Event
<1>2. CASE e.pos = SnapshotPosition
  <2>1. /\ e.pos.phase = 0 /\ e.pos.lsn = 0 /\ e.pos.tx = NoTx /\ e.pos.rec = NoRec
    BY <1>2 DEF SnapshotPosition
  <2>2. CurrentPosition(StoredRow(e)) = [phase |-> 0, lsn |-> 0, tx |-> NoTx, rec |-> NoRec]
    BY <2>1 DEF CurrentPosition, StoredRow
  <2>. QED
    BY <1>2, <2>2 DEF SnapshotPosition, StoredRow
<1>3. CASE e.pos \in [phase : {1}, lsn : Nat, tx : Txs, rec : Nat]
  BY <1>3 DEF CurrentPosition, StoredRow
<1>. QED
  BY <1>1, <1>2, <1>3 DEF Position

-----------------------------------------------------------------------------
(* The inductive invariant.                                                *)

(* With one writer the row it read is still the row when it writes, and    *)
(* what it wrote is still there when it returns.                           *)
WriterInv ==
  \A w \in Writers :
    pc[w] # "idle" =>
      LET e == job[w]
          d == DecisionOn(e, table[e.key])
      IN /\ e \in Events
         /\ pc[w] = "merge" => d = decision[w] /\ d \in Applied
         /\ pc[w] = "quarantine" => d = decision[w] /\ d \in Rejected
         /\ pc[w] = "return" =>
              /\ e \in committed
              /\ d = "duplicate" \/ (d \in Rejected /\ QuarantineId(e, d) \in quarantine)

(* Rows were written by events that took effect. *)
RowCommitted ==
  \A k \in Keys : table[k] # NoRow => table[k].winner \in committed /\ table[k].winner.key = k

(* What EventAccounted and NewestWins say of the events returned for holds *)
(* of every event that took effect: a caller that was never told of one    *)
(* has left it in the tables all the same.                                 *)
CommittedAccounted ==
  \A e \in committed :
    /\ table[e.key] # NoRow
    /\ \/ RowHash(e.key) = EventHash(e)
       \/ Precedes(e.pos, RowPosition(e.key))
       \/ \E r \in Reasons : [hash |-> EventHash(e), reason |-> r] \in quarantine

CommittedNewest ==
  \A e \in committed : ~ Precedes(RowPosition(e.key), e.pos)

(* The part that speaks of what is committed, not of the writer in flight. *)
LedgerInv == RowCommitted /\ CommittedAccounted /\ CommittedNewest /\ QuarantinedNeverCurrent

IInv == TypeOK /\ WriterInv /\ LedgerInv

(* A row that is there was written from its winner and has its position.   *)
LEMMA RowShape ==
  ASSUME TypeOK, NEW k \in Keys, table[k] # NoRow
  PROVE  /\ table[k].winner \in Events
         /\ table[k] = StoredRow(table[k].winner)
         /\ RowPosition(k) = table[k].winner.pos
<1>1. PICK e \in Events : table[k] = StoredRow(e)
  BY DEF TypeOK, Rows
<1>. QED
  BY <1>1, StoredPosition DEF RowPosition

(* What a writer decides on the current row of its event's key.            *)
LEMMA DecisionOnCases ==
  ASSUME TypeOK, NEW e \in Events
  PROVE  LET d == DecisionOn(e, table[e.key])
         IN /\ d \in Decision
            /\ table[e.key] = NoRow => d \in Applied
            /\ table[e.key] # NoRow =>
                 /\ d \in Applied <=> Precedes(RowPosition(e.key), e.pos)
                 /\ d = "duplicate" <=> EventHash(e) = RowHash(e.key)
                 /\ d \in Rejected <=> /\ ~ Precedes(RowPosition(e.key), e.pos)
                                       /\ EventHash(e) # RowHash(e.key)
<1>1. e.key \in Keys
  BY EventsAssumption DEF Event
<1>2. CASE table[e.key] = NoRow
  BY <1>2 DEF DecisionOn, DecideWithoutRow, Applied, Decision
<1>3. CASE table[e.key] # NoRow
  <2> DEFINE f == table[e.key].winner
  <2>1. f \in Events /\ RowPosition(e.key) = f.pos
    BY <1>1, <1>3, RowShape
  <2>2. DecisionOn(e, table[e.key]) = Decide(e, f.pos, EventHash(f))
    BY <1>3, <2>1 DEF DecisionOn, RowPosition
  <2>. QED
    BY <1>3, <2>1, <2>2, DecideCases DEF RowHash
<1>. QED
  BY <1>2, <1>3

(* The empty ledger, with idle writers, satisfies the invariant. *)
LEMMA InitInv == Init => IInv
BY DEF Init, IInv, TypeOK, WriterInv, LedgerInv, RowCommitted, CommittedAccounted, CommittedNewest,
       QuarantinedNeverCurrent, Rejected, Applied

(* Types are preserved by every step. *)
LEMMA TypeStep == TypeOK /\ WriterInv /\ [Next]_vars => TypeOK'
<1> SUFFICES ASSUME TypeOK, WriterInv, [Next]_vars
             PROVE  TypeOK'
  OBVIOUS
<1>1. ASSUME NEW w \in Writers, NEW e \in Events, ReadRow(w, e)
      PROVE  TypeOK'
  <2>1. DecisionOn(e, table[e.key]) \in Decision
    BY DecisionOnCases
  <2>. QED
    BY <1>1, <2>1 DEF ReadRow, TypeOK, Decision
<1>2. ASSUME NEW w \in Writers, MergeRow(w)
      PROVE  TypeOK'
  <2>1. job[w] \in Events /\ job[w].key \in Keys
    BY <1>2, EventsAssumption DEF MergeRow, WriterInv, Event
  <2>. QED
    BY <1>2, <2>1 DEF MergeRow, Commit, TypeOK, Rows
<1>3. ASSUME NEW w \in Writers, MergeQuarantine(w)
      PROVE  TypeOK'
  <2>1. job[w] \in Events /\ decision[w] \in Rejected
    BY <1>3 DEF MergeQuarantine, WriterInv
  <2>2. QuarantineId(job[w], decision[w]) \in [hash : {EventHash(e) : e \in Events}, reason : Reasons]
    BY <2>1 DEF QuarantineId, Reasons
  <2>. QED
    BY <1>3, <2>1, <2>2 DEF MergeQuarantine, Commit, TypeOK
<1>4. ASSUME NEW w \in Writers, Return(w)
      PROVE  TypeOK'
  <2>1. job[w] \in committed
    BY <1>4 DEF Return, WriterInv
  <2>. QED
    BY <1>4, <2>1 DEF Return, Leave, TypeOK
<1>5. ASSUME NEW w \in Writers, Crash(w)
      PROVE  TypeOK'
  BY <1>5 DEF Crash, Leave, TypeOK
<1>6. CASE UNCHANGED vars
  BY <1>6 DEF vars, TypeOK
<1>. QED
  BY <1>1, <1>2, <1>3, <1>4, <1>5, <1>6 DEF Next, Merge

(* One writer: its decision is still about the current row, and what it    *)
(* committed makes the event a duplicate or a rejection already recorded.  *)
LEMMA WriterStep == TypeOK /\ WriterInv /\ [Next]_vars => WriterInv'
<1> SUFFICES ASSUME TypeOK, WriterInv, [Next]_vars
             PROVE  WriterInv'
  OBVIOUS
<1>1. ASSUME NEW w \in Writers, NEW e \in Events, ReadRow(w, e)
      PROVE  WriterInv'
  <2> DEFINE d == DecisionOn(e, table[e.key])
  <2>1. d \in Decision
    BY DecisionOnCases
  <2>2. CASE d = "duplicate"
    <3>1. pc' = pc /\ pc[w] = "idle"
      BY <1>1, <2>2 DEF ReadRow, Rejected
    <3>. QED
      BY <3>1, OneCanonicalWriter DEF WriterInv
  <2>3. CASE d # "duplicate"
    <3>1. /\ job'[w] = e /\ decision'[w] = d /\ table' = table
          /\ pc'[w] = IF d \in Rejected THEN "quarantine" ELSE "merge"
      BY <1>1, <2>3 DEF ReadRow, TypeOK
    <3>2. d \in Rejected \cup Applied
      BY <2>1, <2>3 DEF Decision
    <3>. QED
      BY <3>1, <3>2, OneCanonicalWriter DEF WriterInv
  <2>. QED
    BY <2>2, <2>3
<1>2. ASSUME NEW w \in Writers, MergeRow(w)
      PROVE  WriterInv'
  <2>0. PICK e \in Events : e = job[w]
    BY <1>2 DEF MergeRow, WriterInv
  <2>1. /\ pc'[w] = "return" /\ job'[w] = e /\ e \in committed'
        /\ table'[e.key] = StoredRow(e)
    BY <1>2, <2>0, EventsAssumption DEF MergeRow, Commit, TypeOK, Event
  <2>2. DecisionOn(e, StoredRow(e)) = "duplicate"
    <3>1. StoredRow(e) # NoRow
      BY NoRowAssumption DEF Rows
    <3>2. DecisionOn(e, StoredRow(e)) = Decide(e, e.pos, EventHash(e))
      BY <3>1, StoredPosition DEF DecisionOn
    <3>. QED
      BY <3>2, DecideCases
  <2>. QED
    BY <2>1, <2>2, OneCanonicalWriter DEF WriterInv
<1>3. ASSUME NEW w \in Writers, MergeQuarantine(w)
      PROVE  WriterInv'
  <2>0. PICK e \in Events : e = job[w]
    BY <1>3 DEF MergeQuarantine, WriterInv
  <2> DEFINE d == DecisionOn(e, table[e.key])
  <2>1. d = decision[w] /\ d \in Rejected
    BY <1>3, <2>0 DEF MergeQuarantine, WriterInv
  <2>2. /\ pc'[w] = "return" /\ job'[w] = e /\ e \in committed' /\ table' = table
        /\ QuarantineId(e, d) \in quarantine'
    BY <1>3, <2>0, <2>1 DEF MergeQuarantine, Commit, TypeOK
  <2>. QED
    BY <2>1, <2>2, OneCanonicalWriter DEF WriterInv
<1>4. ASSUME NEW w \in Writers, Leave(w)
      PROVE  WriterInv'
  <2>1. pc'[w] = "idle"
    BY <1>4 DEF Leave, TypeOK
  <2>. QED
    BY <2>1, OneCanonicalWriter DEF WriterInv
<1>5. CASE UNCHANGED vars
  BY <1>5 DEF vars, WriterInv
<1>. QED
  BY <1>1, <1>2, <1>3, <1>4, <1>5 DEF Next, Merge, Return, Crash

(* What a quarantine entry says of the event it is evidence of. *)
LEMMA EvidenceShape ==
  ASSUME TypeOK, NEW q \in quarantine
  PROVE  q.hash.key \in Keys /\ q.hash.pos \in Position
<1>1. PICK g \in Events : q.hash = EventHash(g)
  BY DEF TypeOK
<1>. QED
  BY <1>1, EventsAssumption DEF EventHash, Event

(* An exact replay of the row's event adds nothing but its own return. *)
LEMMA DuplicateStep ==
  ASSUME TypeOK, LedgerInv, NEW e \in Events,
         DecisionOn(e, table[e.key]) = "duplicate",
         committed' = committed \cup {e}, UNCHANGED <<table, quarantine>>
  PROVE  LedgerInv'
<1>1. /\ table[e.key] # NoRow
      /\ EventHash(e) = RowHash(e.key)
      /\ ~ Precedes(RowPosition(e.key), e.pos)
  BY DecisionOnCases DEF Applied
<1>2. RowCommitted'
  BY DEF LedgerInv, RowCommitted
<1>3. CommittedAccounted'
  BY <1>1 DEF LedgerInv, CommittedAccounted, RowHash, RowPosition
<1>4. CommittedNewest'
  BY <1>1 DEF LedgerInv, CommittedNewest, RowPosition
<1>5. QuarantinedNeverCurrent'
  BY DEF LedgerInv, QuarantinedNeverCurrent, RowPosition, RowHash
<1>. QED
  BY <1>2, <1>3, <1>4, <1>5 DEF LedgerInv

(* A rejected event leaves the row alone and its evidence behind. *)
LEMMA RejectStep ==
  ASSUME TypeOK, LedgerInv, NEW e \in Events,
         NEW d \in Rejected, d = DecisionOn(e, table[e.key]),
         quarantine' = quarantine \cup {QuarantineId(e, d)},
         committed' = committed \cup {e}, UNCHANGED table
  PROVE  LedgerInv'
<1>1. /\ table[e.key] # NoRow
      /\ EventHash(e) # RowHash(e.key)
      /\ ~ Precedes(RowPosition(e.key), e.pos)
  BY DecisionOnCases DEF Applied, Rejected
<1>2. RowCommitted'
  BY DEF LedgerInv, RowCommitted
<1>3. CommittedAccounted'
  <2>1. [hash |-> EventHash(e), reason |-> Reason(d)] \in quarantine' /\ Reason(d) \in Reasons
    BY DEF QuarantineId, Reasons
  <2>. QED
    BY <1>1, <2>1 DEF LedgerInv, CommittedAccounted, RowHash, RowPosition
<1>4. CommittedNewest'
  BY <1>1 DEF LedgerInv, CommittedNewest, RowPosition
<1>5. QuarantinedNeverCurrent'
  <2>1. /\ QuarantineId(e, d).hash = EventHash(e)
        /\ EventHash(e).key = e.key /\ EventHash(e).pos = e.pos
    BY DEF QuarantineId, EventHash
  <2>. QED
    BY <1>1, <2>1 DEF LedgerInv, QuarantinedNeverCurrent, RowPosition, RowHash
<1>. QED
  BY <1>2, <1>3, <1>4, <1>5 DEF LedgerInv

(* The MERGE installs a row that is newer than the one it replaces, hence  *)
(* newer than everything that row stood for.                               *)
LEMMA ApplyStep ==
  ASSUME TypeOK, LedgerInv, NEW e \in Events,
         DecisionOn(e, table[e.key]) \in Applied,
         table' = [table EXCEPT ![e.key] = StoredRow(e)],
         committed' = committed \cup {e}, UNCHANGED quarantine
  PROVE  LedgerInv'
<1> DEFINE k == e.key
           old == RowPosition(k)
<1>1. k \in Keys /\ e.pos \in Position
  BY EventsAssumption DEF Event
<1>2. /\ table'[k] # NoRow /\ table'[k].winner = e
      /\ RowPosition(k)' = e.pos /\ RowHash(k)' = EventHash(e)
  BY <1>1, StoredPosition, NoRowAssumption DEF TypeOK, Rows, RowPosition, RowHash
<1>3. \A j \in Keys \ {k} : /\ table'[j] = table[j]
                            /\ RowPosition(j)' = RowPosition(j) /\ RowHash(j)' = RowHash(j)
  BY <1>1 DEF TypeOK, RowPosition, RowHash
<1>4. table[k] # NoRow => /\ old \in Position
                          /\ Precedes(old, e.pos)
  BY <1>1, DecisionOnCases, RowShape, EventsAssumption DEF Event
<1>5. \A f \in committed : f.key \in Keys /\ f.pos \in Position
  BY EventsAssumption DEF TypeOK, Event
<1>6. RowCommitted'
  BY <1>1, <1>2, <1>3 DEF LedgerInv, RowCommitted
<1>7. ASSUME NEW f \in committed, f.key = k
      PROVE  /\ EventHash(f) = RowHash(k) => Precedes(f.pos, e.pos)
             /\ Precedes(f.pos, old) => Precedes(f.pos, e.pos)
             /\ ~ Precedes(e.pos, f.pos)
  <2>1. table[k] # NoRow /\ ~ Precedes(old, f.pos)
    BY <1>7 DEF LedgerInv, CommittedAccounted, CommittedNewest
  <2>2. EventHash(f) = RowHash(k) => f.pos = old
    BY <2>1, <1>1, RowShape DEF EventHash, RowHash
  <2>. QED
    BY <2>1, <2>2, <1>1, <1>4, <1>5, PrecedesTransitive
<1>8. CommittedAccounted'
  <2> SUFFICES ASSUME NEW f \in committed'
               PROVE  (/\ table[f.key] # NoRow
                       /\ \/ RowHash(f.key) = EventHash(f)
                          \/ Precedes(f.pos, RowPosition(f.key))
                          \/ \E r \in Reasons : [hash |-> EventHash(f), reason |-> r] \in quarantine)'
    BY DEF CommittedAccounted
  <2>1. CASE f = e
    BY <2>1, <1>2
  <2>2. CASE f \in committed /\ f.key = k
    BY <2>2, <1>2, <1>7 DEF LedgerInv, CommittedAccounted
  <2>3. CASE f \in committed /\ f.key # k
    BY <2>3, <1>3, <1>5 DEF LedgerInv, CommittedAccounted
  <2>. QED
    BY <2>1, <2>2, <2>3
<1>9. CommittedNewest'
  <2> SUFFICES ASSUME NEW f \in committed'
               PROVE  ~ Precedes(RowPosition(f.key)', f.pos)
    BY DEF CommittedNewest
  <2>1. CASE f = e
    BY <2>1, <1>1, <1>2, PrecedesIrreflexive
  <2>2. CASE f \in committed /\ f.key = k
    BY <2>2, <1>2, <1>7
  <2>3. CASE f \in committed /\ f.key # k
    BY <2>3, <1>3, <1>5 DEF LedgerInv, CommittedNewest
  <2>. QED
    BY <2>1, <2>2, <2>3
<1>10. QuarantinedNeverCurrent'
  <2> SUFFICES ASSUME NEW q \in quarantine
               PROVE  (/\ table[q.hash.key] # NoRow
                       /\ RowHash(q.hash.key) # q.hash
                       /\ ~ Precedes(RowPosition(q.hash.key), q.hash.pos))'
    BY DEF QuarantinedNeverCurrent
  <2>1. /\ q.hash.key \in Keys /\ q.hash.pos \in Position
        /\ table[q.hash.key] # NoRow
        /\ ~ Precedes(RowPosition(q.hash.key), q.hash.pos)
    BY EvidenceShape DEF LedgerInv, QuarantinedNeverCurrent
  <2>2. CASE q.hash.key = k
    <3>1. EventHash(e) # q.hash
      BY <2>1, <2>2, <1>4 DEF EventHash
    <3>2. ~ Precedes(e.pos, q.hash.pos)
      BY <2>1, <2>2, <1>1, <1>4, PrecedesTransitive
    <3>. QED
      BY <3>1, <3>2, <2>2, <1>2
  <2>3. CASE q.hash.key # k
    BY <2>1, <2>3, <1>3 DEF LedgerInv, QuarantinedNeverCurrent
  <2>. QED
    BY <2>2, <2>3
<1>. QED
  BY <1>6, <1>8, <1>9, <1>10 DEF LedgerInv

(* What the committed row stands for survives every step. *)
LEMMA LedgerStep == TypeOK /\ WriterInv /\ LedgerInv /\ [Next]_vars => LedgerInv'
<1> SUFFICES ASSUME TypeOK, WriterInv, LedgerInv, [Next]_vars
             PROVE  LedgerInv'
  OBVIOUS
<1>1. ASSUME UNCHANGED <<table, quarantine, committed>>
      PROVE  LedgerInv'
  BY <1>1 DEF LedgerInv, RowCommitted, CommittedAccounted, CommittedNewest,
              QuarantinedNeverCurrent, RowPosition, RowHash
<1>2. ASSUME NEW w \in Writers, NEW e \in Events, ReadRow(w, e)
      PROVE  LedgerInv'
  <2>1. CASE DecisionOn(e, table[e.key]) = "duplicate"
    BY <1>2, <2>1, DuplicateStep DEF ReadRow
  <2>2. CASE DecisionOn(e, table[e.key]) # "duplicate"
    BY <1>1, <1>2, <2>2 DEF ReadRow
  <2>. QED
    BY <2>1, <2>2
<1>3. ASSUME NEW w \in Writers, MergeRow(w)
      PROVE  LedgerInv'
  BY <1>3, ApplyStep DEF MergeRow, Commit, WriterInv
<1>4. ASSUME NEW w \in Writers, MergeQuarantine(w)
      PROVE  LedgerInv'
  BY <1>4, RejectStep DEF MergeQuarantine, Commit, WriterInv
<1>5. ASSUME NEW w \in Writers, Leave(w)
      PROVE  LedgerInv'
  BY <1>1, <1>5 DEF Leave
<1>6. CASE UNCHANGED vars
  BY <1>1, <1>6 DEF vars
<1>. QED
  BY <1>2, <1>3, <1>4, <1>5, <1>6 DEF Next, Merge, Return, Crash

(* The inductive invariant holds in every reachable state. *)
THEOREM InvariantHolds == Spec => []IInv
<1>1. Init => IInv
  BY InitInv
<1>2. IInv /\ [Next]_vars => IInv'
  BY TypeStep, WriterStep, LedgerStep DEF IInv
<1>. QED
  BY <1>1, <1>2, PTL DEF Spec

-----------------------------------------------------------------------------
(* Type correctness of the writer. *)
THEOREM TypeCorrect == Spec => []TypeOK
<1>1. IInv => TypeOK
  BY DEF IInv
<1>. QED
  BY <1>1, InvariantHolds, PTL

(* Nothing the writer returned for is lost: every event is the row, older  *)
(* than the row, or in quarantine.                                         *)
THEOREM NoEventLost == Spec => []EventAccounted
<1>1. IInv => EventAccounted
  BY DEF IInv, TypeOK, LedgerInv, CommittedAccounted, EventAccounted
<1>. QED
  BY <1>1, InvariantHolds, PTL

(* No row is older than an event the writer returned for. *)
THEOREM RowIsNewest == Spec => []NewestWins
<1>1. IInv => NewestWins
  BY DEF IInv, TypeOK, LedgerInv, CommittedNewest, NewestWins
<1>. QED
  BY <1>1, InvariantHolds, PTL

(* Rejected events fail closed for ever. *)
THEOREM RejectionIsFinal == Spec => []QuarantinedNeverCurrent
<1>1. IInv => QuarantinedNeverCurrent
  BY DEF IInv, LedgerInv
<1>. QED
  BY <1>1, InvariantHolds, PTL

(* The ledger does not depend on arrival order, nor on where the writer    *)
(* died: the strictly newest event that took effect for a key owns its row. *)
THEOREM ArrivalOrderIrrelevant == Spec => []OrderIndependent
<1>1. IInv => OrderIndependent
  <2> SUFFICES ASSUME IInv, NEW e \in committed,
                      \A f \in committed : f.key = e.key /\ EventHash(f) # EventHash(e)
                                           => Precedes(f.pos, e.pos)
               PROVE  table[e.key] # NoRow /\ RowHash(e.key) = EventHash(e)
    BY DEF OrderIndependent
  <2> DEFINE f == table[e.key].winner
  <2>1. e \in Events /\ e.key \in Keys
    BY EventsAssumption DEF IInv, TypeOK, Event
  <2>2. table[e.key] # NoRow
    BY DEF IInv, LedgerInv, CommittedAccounted
  <2>3. /\ f \in committed /\ f.key = e.key
        /\ RowPosition(e.key) = f.pos /\ RowHash(e.key) = EventHash(f)
    BY <2>1, <2>2, RowShape DEF IInv, LedgerInv, RowCommitted, RowHash
  <2>4. ~ Precedes(f.pos, e.pos)
    BY <2>3 DEF IInv, LedgerInv, CommittedNewest
  <2>. QED
    BY <2>2, <2>3, <2>4
<1>. QED
  BY <1>1, InvariantHolds, PTL

(* Checkpoints only advance, so a tombstone is never resurrected. *)
THEOREM NoResurrection == Spec => CheckpointAdvances
<1> DEFINE Advance == \A k \in Keys :
      table[k] # NoRow /\ table'[k] # table[k]
        => /\ table'[k] # NoRow
           /\ Precedes(CurrentPosition(table[k]), CurrentPosition(table'[k]))
<1>1. IInv /\ [Next]_vars => [Advance]_vars
  <2> SUFFICES ASSUME IInv, Next
               PROVE  Advance
    BY DEF vars
  <2>1. CASE table' = table
    BY <2>1
  <2>2. ASSUME NEW w \in Writers, MergeRow(w)
        PROVE  Advance
    <3> DEFINE e == job[w]
    <3>1. e \in Events /\ e.key \in Keys /\ DecisionOn(e, table[e.key]) \in Applied
      BY <2>2, EventsAssumption DEF IInv, WriterInv, MergeRow, Event
    <3>2. /\ table'[e.key] = StoredRow(e)
          /\ StoredRow(e) # NoRow
          /\ \A j \in Keys \ {e.key} : table'[j] = table[j]
      BY <2>2, <3>1, NoRowAssumption DEF MergeRow, IInv, TypeOK, Rows
    <3>3. table[e.key] # NoRow => Precedes(RowPosition(e.key), e.pos)
      BY <3>1, DecisionOnCases DEF IInv
    <3>. QED
      BY <3>1, <3>2, <3>3, StoredPosition DEF RowPosition
  <2>. QED
    BY <2>1, <2>2 DEF Next, Merge, ReadRow, MergeQuarantine, Return, Crash, Leave
<1>. QED
  BY <1>1, InvariantHolds, PTL DEF Spec, CheckpointAdvances

-----------------------------------------------------------------------------
(* Refinement: a committed MERGE is an apply of the store whose answer is  *)
(* lost, and a return one more apply, which changes nothing.               *)

StateMap == [k \in Keys |-> IF table[k] = NoRow THEN NoRow ELSE table[k].winner]

(* The operators the store's instance shares with the writer agree. *)
LEMMA SameOperators ==
  /\ Oracle!Applied = Applied /\ Oracle!Rejected = Rejected
  /\ \A e \in Events : Oracle!DecideWithoutRow(e) = DecideWithoutRow(e)
  /\ \A e \in Events : Oracle!EventHash(e) = EventHash(e)
  /\ \A e \in Events : \A p, h : Oracle!Decide(e, p, h) = Decide(e, p, h)
  /\ \A e \in Events, d \in Rejected : Oracle!QuarantineId(e, d) = QuarantineId(e, d)
<1>1. Oracle!Applied = Applied /\ Oracle!Rejected = Rejected
  BY DEF Oracle!Applied, Applied, Oracle!Rejected, Rejected
<1>2. \A e \in Events : Oracle!DecideWithoutRow(e) = DecideWithoutRow(e)
  BY DEF Oracle!DecideWithoutRow, DecideWithoutRow
<1>3. \A e \in Events : Oracle!EventHash(e) = EventHash(e)
  BY DEF Oracle!EventHash, EventHash
<1>4. \A e \in Events : \A p, h : Oracle!Decide(e, p, h) = Decide(e, p, h)
  <2>1. \A p, q : Oracle!ComparePositions(p, q) = ComparePositions(p, q)
    BY DEF Oracle!ComparePositions, ComparePositions, Oracle!CompareChanges, CompareChanges, Oracle!NoRec, NoRec
  <2>. QED
    BY <1>3, <2>1 DEF Oracle!Decide, Decide
<1>5. \A e \in Events, d \in Rejected : Oracle!QuarantineId(e, d) = QuarantineId(e, d)
  <2>1. \A d : Oracle!Reason(d) = Reason(d)
    BY DEF Oracle!Reason, Reason
  <2>. QED
    BY <1>3, <2>1 DEF Oracle!QuarantineId, QuarantineId
<1>. QED
  BY <1>1, <1>2, <1>3, <1>4, <1>5

(* Under the mapping the store decides what the writer decides. *)
LEMMA SameDecision ==
  ASSUME TypeOK, NEW e \in Events
  PROVE  Oracle!DecisionFor(e) = DecisionOn(e, table[e.key])
<1>1. e.key \in Keys
  BY EventsAssumption DEF Event
<1>2. CASE table[e.key] = NoRow
  BY <1>1, <1>2, SameOperators DEF Oracle!DecisionFor, DecisionOn
<1>3. CASE table[e.key] # NoRow
  <2>1. table[e.key].winner \in Events /\ CurrentPosition(table[e.key]) = table[e.key].winner.pos
    BY <1>1, <1>3, RowShape DEF RowPosition
  <2>2. table[e.key].winner # NoRow
    BY <2>1, NoRowAssumption
  <2>. QED
    BY <1>1, <1>3, <2>1, <2>2, SameOperators DEF Oracle!DecisionFor, DecisionOn
<1>. QED
  BY <1>2, <1>3

(* Every step of the writer is an apply of the store, answered or not, or  *)
(* changes nothing the store can see.                                      *)
LEMMA StepRefinement == IInv /\ [Next]_vars => [Oracle!Next]_(Oracle!vars)
<1> SUFFICES ASSUME IInv, [Next]_vars
             PROVE  Oracle!Next \/ UNCHANGED <<StateMap, quarantine, handled>>
  BY DEF Oracle!vars, StateMap
<1>1. ASSUME UNCHANGED <<table, quarantine, handled>>
      PROVE  UNCHANGED <<StateMap, quarantine, handled>>
  BY <1>1 DEF StateMap
<1>2. ASSUME NEW w \in Writers, NEW e \in Events, ReadRow(w, e)
      PROVE  Oracle!Next \/ UNCHANGED <<StateMap, quarantine, handled>>
  <2>1. CASE DecisionOn(e, table[e.key]) = "duplicate"
    <3>1. Oracle!DecisionFor(e) = "duplicate"
      BY <2>1, SameDecision DEF IInv
    <3>2. UNCHANGED <<StateMap, quarantine>> /\ handled' = handled \cup {e}
      BY <1>2, <2>1 DEF ReadRow, StateMap
    <3>3. Oracle!Apply(e)
      BY <3>1, <3>2 DEF Oracle!Apply, Oracle!Effect, StateMap
    <3>. QED
      BY <3>3 DEF Oracle!Next
  <2>2. CASE DecisionOn(e, table[e.key]) # "duplicate"
    BY <1>1, <1>2, <2>2 DEF ReadRow
  <2>. QED
    BY <2>1, <2>2
<1>3. ASSUME NEW w \in Writers, MergeRow(w)
      PROVE  Oracle!Next
  <2>0. PICK e \in Events : e = job[w]
    BY <1>3 DEF IInv, WriterInv, MergeRow
  <2>1. e.key \in Keys /\ DecisionOn(e, table[e.key]) \in Applied
    BY <1>3, <2>0, EventsAssumption DEF IInv, WriterInv, MergeRow, Event
  <2>2. Oracle!DecisionFor(e) \in Applied
    BY <2>1, SameDecision DEF IInv
  <2>3. /\ table' = [table EXCEPT ![e.key] = StoredRow(e)]
        /\ StoredRow(e) # NoRow /\ StoredRow(e).winner = e
    BY <1>3, <2>0, <2>1, NoRowAssumption, StoredPosition DEF MergeRow, Rows
  <2>4. StateMap' = [StateMap EXCEPT ![e.key] = e]
    BY <2>1, <2>3 DEF StateMap, IInv, TypeOK
  <2>5. Oracle!ApplyUnanswered(e)
    BY <1>3, <2>0, <2>2, <2>4, SameOperators
       DEF Oracle!ApplyUnanswered, Oracle!Effect, MergeRow, Commit, StateMap
  <2>. QED
    BY <2>5 DEF Oracle!Next
<1>4. ASSUME NEW w \in Writers, MergeQuarantine(w)
      PROVE  Oracle!Next
  <2>0. PICK e \in Events : e = job[w]
    BY <1>4 DEF IInv, WriterInv, MergeQuarantine
  <2>1. decision[w] = DecisionOn(e, table[e.key]) /\ decision[w] \in Rejected
    BY <1>4, <2>0 DEF IInv, WriterInv, MergeQuarantine
  <2>2. Oracle!DecisionFor(e) = decision[w]
    BY <2>1, SameDecision DEF IInv
  <2>3. StateMap' = StateMap
    BY <1>4 DEF MergeQuarantine, StateMap
  <2>4. Oracle!ApplyUnanswered(e)
    BY <1>4, <2>0, <2>1, <2>2, <2>3, SameOperators
       DEF Oracle!ApplyUnanswered, Oracle!Effect, MergeQuarantine, Commit, StateMap
  <2>. QED
    BY <2>4 DEF Oracle!Next
<1>5. ASSUME NEW w \in Writers, Return(w)
      PROVE  Oracle!Next
  <2>0. PICK e \in Events : e = job[w]
    BY <1>5 DEF IInv, WriterInv, Return
  <2> DEFINE d == DecisionOn(e, table[e.key])
  <2>1. d = "duplicate" \/ (d \in Rejected /\ QuarantineId(e, d) \in quarantine)
    BY <1>5, <2>0 DEF IInv, WriterInv, Return
  <2>2. UNCHANGED <<StateMap, quarantine>> /\ handled' = handled \cup {e}
    BY <1>5, <2>0 DEF Return, Leave, StateMap
  <2>3. Oracle!DecisionFor(e) = d
    BY SameDecision DEF IInv
  <2>4. CASE d = "duplicate"
    BY <2>2, <2>3, <2>4 DEF Oracle!Apply, Oracle!Effect, Oracle!Next, StateMap
  <2>5. CASE d \in Rejected /\ QuarantineId(e, d) \in quarantine
    <3>1. quarantine' = quarantine \cup {Oracle!QuarantineId(e, d)}
      BY <2>2, <2>5, SameOperators
    <3>. QED
      BY <2>2, <2>3, <2>5, <3>1, SameOperators
         DEF Oracle!Apply, Oracle!Effect, Oracle!Next, StateMap
  <2>. QED
    BY <2>1, <2>4, <2>5
<1>6. ASSUME NEW w \in Writers, Crash(w)
      PROVE  UNCHANGED <<StateMap, quarantine, handled>>
  BY <1>1, <1>6 DEF Crash, Leave
<1>7. CASE UNCHANGED vars
  BY <1>1, <1>7 DEF vars
<1>. QED
  BY <1>2, <1>3, <1>4, <1>5, <1>6, <1>7 DEF Next, Merge

(* The Iceberg writer implements the SQLite reference store. *)
THEOREM LedgerImplementsOracle == Spec => ImplementsOracle
<1>1. Init => Oracle!Init
  BY DEF Init, Oracle!Init
<1>. QED
  BY <1>1, StepRefinement, InvariantHolds, PTL DEF Spec, ImplementsOracle, Oracle!Spec

-----------------------------------------------------------------------------
(* The adapter.                                                            *)

(* The halves of an LSN, of which the low one has eight digits at most. *)
Halves == Nat \X (0 .. Word - 1)

(* What the adapter may find in a record; of the rest it reads the type,   *)
(* the schema and whether a row is complete.                               *)
Readable(r) ==
  /\ r.data \in Data \cup {Missing} /\ r.raw \in Raws
  /\ r.key # Missing /\ r.table \in Tables => <<r.table, r.key>> \in Keys
  /\ r.lsn \in Halves \cup {Missing}
  /\ r.tx \in Txs \cup {Missing}
  /\ r.rec \in Nat \cup {Missing}

(* An LSN is a natural number, and greater with the greater halves. *)
LEMMA LsnOrder ==
  ASSUME NEW a \in Halves, NEW b \in Halves
  PROVE  /\ Lsn(a) \in Nat /\ Lsn(b) \in Nat
         /\ Lsn(a) < Lsn(b) <=> a[1] < b[1] \/ (a[1] = b[1] /\ a[2] < b[2])
         /\ Lsn(a) = Lsn(b) <=> a[1] = b[1] /\ a[2] = b[2]
<1>1. /\ Word \in Nat \ {0}
      /\ a[1] \in Nat /\ a[2] \in 0 .. Word - 1 /\ b[1] \in Nat /\ b[2] \in 0 .. Word - 1
  BY WordAssumption DEF Halves
<1>2. ASSUME NEW h \in Nat, NEW l \in 0 .. Word - 1, NEW i \in Nat, NEW m \in 0 .. Word - 1, h < i
      PROVE  h * Word + l < i * Word + m
  <2>1. PICK d \in Nat : i = h + 1 + d
    <3>1. i - h - 1 \in Nat /\ i = h + 1 + (i - h - 1)
      BY <1>2
    <3>. QED
      BY <3>1
  <2>2. i * Word = h * Word + Word + d * Word /\ d * Word \in Nat /\ h * Word \in Nat
    BY <1>1, <2>1
  <2>. QED
    BY <1>1, <2>2
<1>3. a[1] * Word \in Nat /\ b[1] * Word \in Nat
  BY <1>1
<1>4. Lsn(a) = a[1] * Word + a[2] /\ Lsn(b) = b[1] * Word + b[2]
  BY DEF Lsn
<1>5. CASE a[1] < b[1]
  <2>1. Lsn(a) < Lsn(b)
    BY <1>1, <1>2, <1>4, <1>5
  <2>. QED
    BY <1>1, <1>3, <1>4, <1>5, <2>1
<1>6. CASE b[1] < a[1]
  <2>1. Lsn(b) < Lsn(a)
    BY <1>1, <1>2, <1>4, <1>6
  <2>. QED
    BY <1>1, <1>3, <1>4, <1>6, <2>1
<1>7. CASE a[1] = b[1]
  BY <1>1, <1>3, <1>4, <1>7
<1>. QED
  BY <1>1, <1>5, <1>6, <1>7

(* A record that is not refused becomes a well-formed event, so the log of *)
(* any stream of records meets EventsAssumption (dms_adapter.py:52).       *)
THEOREM AdaptedRecordsAreEvents ==
  ASSUME NEW records, \A r \in records : Readable(r)
  PROVE  EventsOf(records) \subseteq Event
<1> SUFFICES ASSUME NEW r \in records, ~ Refused(r) PROVE Parse(r) \in Event
  BY DEF EventsOf
<1>1. /\ r.data \in Data /\ r.raw \in Raws /\ <<r.table, r.key>> \in Keys /\ r.op \in Operation
      /\ r.op # "load" => r.lsn \in Halves /\ r.tx \in Txs /\ r.rec \in Nat
  BY DEF Readable, Refused
<1>2. PositionOf(r) \in Position /\ (r.op = "load" <=> PositionOf(r).phase = 0)
  <2>1. CASE r.op = "load"
    BY <2>1 DEF PositionOf, Position, SnapshotPosition
  <2>2. CASE r.op # "load"
    <3>1. Lsn(r.lsn) \in Nat
      BY <1>1, <2>2, LsnOrder
    <3>. QED
      BY <1>1, <2>2, <3>1 DEF PositionOf, Position
  <2>. QED
    BY <2>1, <2>2
<1>. QED
  BY <1>1, <1>2 DEF Parse, Event

(* Two changes are ordered by the numbers DMS sends, the high half of the  *)
(* LSN first, and record ids only within a transaction                     *)
(* (dms_adapter.py:39).                                                    *)
THEOREM AdaptedOrderIsStreamOrder ==
  ASSUME NEW r, NEW q, Readable(r), Readable(q), ~ Refused(r), ~ Refused(q),
         r.op # "load", q.op # "load"
  PROVE  Precedes(Parse(r).pos, Parse(q).pos) <=>
           \/ r.lsn[1] < q.lsn[1]
           \/ r.lsn[1] = q.lsn[1] /\ r.lsn[2] < q.lsn[2]
           \/ r.lsn[1] = q.lsn[1] /\ r.lsn[2] = q.lsn[2] /\ r.tx = q.tx /\ r.rec < q.rec
<1>1. r.lsn \in Halves /\ q.lsn \in Halves
  BY DEF Readable, Refused
<1>2. /\ Parse(r).pos = [phase |-> 1, lsn |-> Lsn(r.lsn), tx |-> r.tx, rec |-> r.rec]
      /\ Parse(q).pos = [phase |-> 1, lsn |-> Lsn(q.lsn), tx |-> q.tx, rec |-> q.rec]
  BY DEF Parse, PositionOf
<1>3. Precedes(Parse(r).pos, Parse(q).pos) <=>
        \/ Lsn(r.lsn) < Lsn(q.lsn)
        \/ Lsn(r.lsn) = Lsn(q.lsn) /\ r.tx = q.tx /\ r.rec < q.rec
  BY <1>2 DEF Precedes
<1>. QED
  BY <1>1, <1>3, LsnOrder
===============================================================================

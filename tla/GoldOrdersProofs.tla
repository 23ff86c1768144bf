---------------------------- MODULE GoldOrdersProofs ----------------------------
(***************************************************************************)
(* Proofs about GoldOrders for all sets of orders, business times, changes *)
(* and corrections of the rate: what the fact holds after a run over a     *)
(* quiet Silver, that its rows never go back, and which orders leave it.   *)
(***************************************************************************)
EXTENDS GoldOrders, TLAPS

(* The order's own row, or one of a later business time. *)
Current(row, o) ==
  /\ row # NoRow
  /\ \/ row = [lsn |-> silver[o].lsn, updated |-> silver[o].updated, rate |-> rate]
     \/ row.updated > silver[o].updated

(* Nothing dbt reads is ahead of Silver, and no fact or selected row is    *)
(* ahead of what dbt reads.                                                *)
OrderInv ==
  /\ source.rate <= rate
  /\ \A o \in Orders :
       /\ silver[o] # NoRow => silver[o].lsn <= lsn
       /\ source.orders[o] # NoRow =>
            silver[o] # NoRow /\ source.orders[o].lsn <= silver[o].lsn
       /\ \A row \in {fact[o], staged[o]} :
            row # NoRow =>
              /\ source.orders[o] # NoRow /\ row.lsn <= source.orders[o].lsn
              /\ row.rate <= source.rate

(* The selected rows still beat the fact when the MERGE comes. *)
StagedInv ==
  pc = "merge" =>
    \A o \in Orders :
      staged[o] # NoRow /\ fact[o] # NoRow => Newer(staged[o], fact[o]) /\ fact[o].rate <= staged[o].rate

(* While a run's Silver is quiet, each live order is current in the fact,  *)
(* or will be by the MERGE that is to come.                                *)
QuietInv ==
  quiet =>
    /\ source = [orders |-> silver, rate |-> rate]
    /\ \A o \in Live(silver) :
         \/ pc = "merge" /\ Current(staged[o], o)
         \/ (pc = "merge" => staged[o] = NoRow) /\ Current(fact[o], o)

IInv == TypeOK /\ OrderInv /\ StagedInv /\ QuietInv

-----------------------------------------------------------------------------
(* What an order of the staged view brings, and what is selected of it.    *)
LEMMA IncomingType ==
  ASSUME TypeOK, NEW o \in Live(source.orders)
  PROVE  Incoming(o) \in FactRow /\ source.orders[o] \in Row /\ Incoming(o) # NoRow
<1>1. source.orders[o] \in Row
  BY DEF TypeOK, Live
<1>2. Incoming(o) \in FactRow
  BY <1>1 DEF TypeOK, Incoming, Row, FactRow
<1>. QED
  BY <1>1, <1>2, NoRowAssumption

(* A selected row is that of a live order, and newer than its fact. *)
LEMMA SelectedRow ==
  ASSUME TypeOK, Select, NEW o \in Orders
  PROVE  \/ staged'[o] = NoRow
         \/ /\ o \in Live(source.orders) /\ staged'[o] = Incoming(o)
            /\ fact[o] # NoRow => Newer(Incoming(o), fact[o])
BY DEF Select

(* A row that does not give way to the incoming one is that row, or has a  *)
(* later business time, provided nothing in Gold is ahead of the source.   *)
LEMMA NotNewer ==
  ASSUME NEW i \in FactRow, NEW c \in FactRow, c.lsn <= i.lsn, c.rate <= i.rate, ~ Newer(i, c)
  PROVE  c = i \/ c.updated > i.updated
BY BoundsAssumption DEF FactRow, Newer

-----------------------------------------------------------------------------
(* Nothing is loaded, selected or in the fact at first. *)
LEMMA InitInv == Init => IInv
<1> SUFFICES ASSUME Init PROVE IInv
  OBVIOUS
<1>1. 0 \in 0 .. MaxChanges /\ 0 \in 0 .. MaxRates
  BY BoundsAssumption
<1>2. TypeOK
  BY <1>1 DEF Init, Nothing, TypeOK
<1>. QED
  BY <1>2 DEF Init, Nothing, IInv, OrderInv, StagedInv, QuietInv

(* Every step keeps every variable in its type. *)
LEMMA TypeStep == TypeOK /\ [Next]_vars => TypeOK'
<1> SUFFICES ASSUME TypeOK, [Next]_vars PROVE TypeOK'
  OBVIOUS
<1>1. CASE UNCHANGED vars
  BY <1>1 DEF vars, TypeOK
<1>2. ASSUME NEW o \in Orders, Change(o) PROVE TypeOK'
  <2>1. PICK updated \in 1 .. LastUpdate, deleted \in BOOLEAN :
          silver' = [silver EXCEPT ![o] = [lsn |-> lsn + 1, updated |-> updated, deleted |-> deleted]]
    BY <1>2 DEF Change
  <2>2. lsn + 1 \in 1 .. MaxChanges
    BY <1>2, BoundsAssumption DEF Change, TypeOK
  <2>3. [lsn |-> lsn + 1, updated |-> updated, deleted |-> deleted] \in Row
    BY <2>2 DEF Row
  <2>4. silver' \in [Orders -> Row \cup {NoRow}]
    BY <2>1, <2>3 DEF TypeOK
  <2>5. lsn' \in 0 .. MaxChanges
    BY <1>2, <2>2, BoundsAssumption DEF Change
  <2>. QED
    BY <1>2, <2>4, <2>5 DEF Change, TypeOK
<1>3. CASE CorrectRate
  <2>1. rate' \in 0 .. MaxRates
    BY <1>3, BoundsAssumption DEF CorrectRate, TypeOK
  <2>. QED
    BY <1>3, <2>1 DEF CorrectRate, TypeOK
<1>4. CASE Load
  BY <1>4 DEF Load, TypeOK
<1>5. CASE Select
  <2>1. \A o \in Orders : staged'[o] \in FactRow \cup {NoRow}
    BY <1>5, SelectedRow, IncomingType
  <2>2. staged' \in [Orders -> FactRow \cup {NoRow}]
    BY <1>5, <2>1 DEF Select
  <2>. QED
    BY <1>5, <2>2 DEF Select, TypeOK
<1>6. CASE Merge
  BY <1>6 DEF Merge, Nothing, TypeOK
<1>7. CASE CountDeletes
  BY <1>7 DEF CountDeletes, TypeOK
<1>8. CASE DeleteAbsent
  BY <1>8 DEF DeleteAbsent, Delete, TypeOK
<1>9. CASE DeleteTombstoned
  BY <1>9 DEF DeleteTombstoned, Delete, TypeOK
<1>10. CASE Interrupt
  BY <1>10 DEF Interrupt, Nothing, TypeOK
<1>. QED
  BY <1>1, <1>2, <1>3, <1>4, <1>5, <1>6, <1>7, <1>8, <1>9, <1>10 DEF Next

(* Silver and the rate run ahead of the source, the source ahead of Gold.  *)
LEMMA OrderStep == TypeOK /\ OrderInv /\ [Next]_vars => OrderInv'
<1> SUFFICES ASSUME TypeOK, OrderInv, [Next]_vars PROVE OrderInv'
  OBVIOUS
<1>1. CASE UNCHANGED vars
  BY <1>1 DEF vars, OrderInv
<1>2. ASSUME NEW o \in Orders, Change(o) PROVE OrderInv'
  <2>1. PICK updated \in 1 .. LastUpdate, deleted \in BOOLEAN :
          silver' = [silver EXCEPT ![o] = [lsn |-> lsn + 1, updated |-> updated, deleted |-> deleted]]
    BY <1>2 DEF Change
  <2> DEFINE new == [lsn |-> lsn + 1, updated |-> updated, deleted |-> deleted]
  <2>2. lsn + 1 \in 1 .. MaxChanges
    BY <1>2, BoundsAssumption DEF Change, TypeOK
  <2>3. new # NoRow /\ new.lsn = lsn + 1
    BY <2>2, NoRowAssumption DEF Row
  <2>4. \A q \in Orders : silver'[q] = IF q = o THEN new ELSE silver[q]
    BY <2>1 DEF TypeOK
  <2> HIDE DEF new
  <2>5. \A q \in Orders : /\ silver[q] \in Row \cup {NoRow}
                          /\ source.orders[q] \in Row \cup {NoRow}
    BY DEF TypeOK
  <2>6. lsn \in Nat /\ \A row \in Row : row.lsn \in Nat
    BY BoundsAssumption DEF TypeOK, Row
  <2>7. ASSUME NEW q \in Orders
        PROVE  /\ silver'[q] # NoRow => silver'[q].lsn <= lsn'
               /\ source'.orders[q] # NoRow =>
                    silver'[q] # NoRow /\ source'.orders[q].lsn <= silver'[q].lsn
    <3>1. lsn' = lsn + 1 /\ source' = source
      BY <1>2 DEF Change
    <3>. QED
      BY <2>3, <2>4, <2>5, <2>6, <3>1 DEF OrderInv
  <2>. QED
    BY <1>2, <2>7 DEF Change, OrderInv
<1>3. CASE CorrectRate
  BY <1>3, BoundsAssumption DEF CorrectRate, OrderInv, TypeOK
<1>4. CASE Load
  <2>1. /\ source'.orders \in {source.orders, silver} /\ source'.rate \in {source.rate, rate}
        /\ UNCHANGED <<silver, lsn, rate, fact, staged>>
    BY <1>4 DEF Load, TypeOK
  <2>2. /\ source.rate \in Nat /\ rate \in Nat
        /\ \A o \in Orders : \A row \in {fact[o], staged[o]} : row # NoRow => row.lsn \in Nat /\ row.rate \in Nat
        /\ \A o \in Orders : silver[o] # NoRow => silver[o].lsn \in Nat
        /\ \A o \in Orders : source.orders[o] # NoRow => source.orders[o].lsn \in Nat
    BY BoundsAssumption DEF TypeOK, FactRow, Row
  <2>. QED
    BY <2>1, <2>2 DEF OrderInv
<1>5. CASE Select
  <2>1. ASSUME NEW o \in Orders, staged'[o] # NoRow
        PROVE  /\ source.orders[o] # NoRow /\ staged'[o].lsn <= source.orders[o].lsn
               /\ staged'[o].rate <= source.rate
    <3>1. o \in Live(source.orders) /\ staged'[o] = Incoming(o)
      BY <1>5, <2>1, SelectedRow
    <3>. QED
      BY <3>1, IncomingType, BoundsAssumption DEF Incoming, Live, Row, TypeOK
  <2>. QED
    BY <1>5, <2>1 DEF Select, OrderInv
<1>6. CASE Merge
  BY <1>6 DEF Merge, Nothing, OrderInv
<1>7. CASE CountDeletes
  BY <1>7 DEF CountDeletes, OrderInv
<1>8. CASE DeleteAbsent
  BY <1>8 DEF DeleteAbsent, Delete, OrderInv
<1>9. CASE DeleteTombstoned
  BY <1>9 DEF DeleteTombstoned, Delete, OrderInv
<1>10. CASE Interrupt
  BY <1>10 DEF Interrupt, Nothing, OrderInv
<1>. QED
  BY <1>1, <1>2, <1>3, <1>4, <1>5, <1>6, <1>7, <1>8, <1>9, <1>10 DEF Next

(* Between a run's select and its MERGE the fact does not change. *)
LEMMA StagedStep == TypeOK /\ OrderInv /\ StagedInv /\ [Next]_vars => StagedInv'
<1> SUFFICES ASSUME TypeOK, OrderInv, StagedInv, [Next]_vars, pc' = "merge" PROVE StagedInv'
  BY DEF StagedInv
<1>1. CASE Select
  <2>1. ASSUME NEW o \in Orders, staged'[o] # NoRow, fact[o] # NoRow
        PROVE  Newer(staged'[o], fact[o]) /\ fact[o].rate <= staged'[o].rate
    <3>1. staged'[o] = Incoming(o) /\ Newer(Incoming(o), fact[o])
      BY <1>1, <2>1, SelectedRow
    <3>. QED
      BY <2>1, <3>1 DEF OrderInv, Incoming
  <2>. QED
    BY <1>1, <2>1 DEF Select, StagedInv
<1>2. CASE ~ Select
  <2>1. UNCHANGED <<fact, staged, pc>>
    BY <1>2 DEF Next, vars, Change, CorrectRate, Load, Merge, CountDeletes, DeleteAbsent,
                DeleteTombstoned, Interrupt
  <2>. QED
    BY <2>1 DEF StagedInv
<1>. QED
  BY <1>1, <1>2

(* A run over a quiet Silver: what Select leaves of a live order is either *)
(* selected for the MERGE or current in the fact already.                  *)
LEMMA SelectCovers ==
  ASSUME TypeOK, OrderInv, Select, source = [orders |-> silver, rate |-> rate], NEW o \in Live(silver)
  PROVE  Current(staged'[o], o) \/ (staged'[o] = NoRow /\ Current(fact[o], o))
<1>1. /\ o \in Orders /\ o \in Live(source.orders)
      /\ Incoming(o) = [lsn |-> silver[o].lsn, updated |-> silver[o].updated, rate |-> rate]
      /\ Incoming(o) \in FactRow /\ Incoming(o) # NoRow
  BY IncomingType DEF Live, Incoming
<1>2. CASE fact[o] = NoRow \/ Newer(Incoming(o), fact[o])
  <2>1. staged'[o] = Incoming(o)
    BY <1>1, <1>2 DEF Select
  <2>. QED
    BY <1>1, <2>1 DEF Current
<1>3. CASE fact[o] # NoRow /\ ~ Newer(Incoming(o), fact[o])
  <2>1. staged'[o] = NoRow
    BY <1>1, <1>3 DEF Select
  <2>2. fact[o] \in FactRow /\ fact[o].lsn <= Incoming(o).lsn /\ fact[o].rate <= Incoming(o).rate
    BY <1>1, <1>3 DEF TypeOK, OrderInv, Incoming
  <2>3. fact[o] = Incoming(o) \/ fact[o].updated > Incoming(o).updated
    BY <1>1, <1>3, <2>2, NotNewer
  <2>. QED
    BY <1>1, <1>3, <2>1, <2>3 DEF Current
<1>. QED
  BY <1>2, <1>3

(* Only changes of Silver and interrupted runs end the quiet. *)
LEMMA QuietStep == TypeOK /\ OrderInv /\ QuietInv /\ [Next]_vars => QuietInv'
<1> SUFFICES ASSUME TypeOK, OrderInv, QuietInv, [Next]_vars, quiet' PROVE QuietInv'
  BY DEF QuietInv
<1>1. UNCHANGED <<silver, rate>>
  BY DEF Next, vars, Change, CorrectRate, Load, Select, Merge, CountDeletes, DeleteAbsent,
         DeleteTombstoned, Interrupt
<1>2. Live(silver)' = Live(silver) /\ Live(silver) \subseteq Orders
  BY <1>1 DEF Live
<1>3. \A row, o : Current(row, o)' <=> Current(row', o)
  BY <1>1 DEF Current
<1>4. CASE Select
  <2>1. source = [orders |-> silver, rate |-> rate] /\ source' = source /\ pc' = "merge"
    BY <1>4 DEF Select
  <2>2. ASSUME NEW o \in Live(silver)
        PROVE  Current(staged'[o], o) \/ (staged'[o] = NoRow /\ Current(fact'[o], o))
    BY <1>4, <2>1, SelectCovers DEF Select
  <2>. QED
    BY <1>1, <1>2, <2>1, <2>2 DEF QuietInv, Current
<1>5. CASE ~ Select
  <2>1. quiet
    BY <1>5 DEF Next, vars, Change, CorrectRate, Load, Merge, CountDeletes, DeleteAbsent,
                DeleteTombstoned, Interrupt
  <2>2. source = [orders |-> silver, rate |-> rate]
    BY <2>1 DEF QuietInv
  <2>3. source' = source
    BY <1>5, <2>2 DEF Next, vars, Change, CorrectRate, Load, Merge, CountDeletes, DeleteAbsent,
                DeleteTombstoned, Interrupt
  <2>4. ASSUME NEW o \in Live(silver)
        PROVE  \/ pc' = "merge" /\ Current(staged'[o], o)
               \/ (pc' = "merge" => staged'[o] = NoRow) /\ Current(fact'[o], o)
    <3>1. /\ o \in Orders /\ silver[o] # NoRow /\ ~ silver[o].deleted
          /\ \/ pc = "merge" /\ Current(staged[o], o)
             \/ (pc = "merge" => staged[o] = NoRow) /\ Current(fact[o], o)
      BY <2>1 DEF QuietInv, Live
    <3>2. CASE Merge
      <4>1. pc = "merge" /\ pc' = "idle" /\ fact'[o] = IF staged[o] # NoRow THEN staged[o] ELSE fact[o]
        BY <3>1, <3>2 DEF Merge
      <4>. QED
        BY <3>1, <4>1 DEF Current
    <3>3. CASE DeleteAbsent
      <4>1. o \notin Absent
        BY <2>2, <3>1 DEF Absent, Live
      <4>2. pc = "delete" /\ pc' = "idle" /\ fact'[o] = fact[o]
        BY <3>1, <3>3, <4>1 DEF DeleteAbsent, Delete
      <4>. QED
        BY <3>1, <4>2
    <3>4. CASE DeleteTombstoned
      <4>1. o \notin {q \in Orders : source.orders[q] # NoRow /\ source.orders[q].deleted}
        BY <2>2, <3>1
      <4>2. pc = "idle" /\ pc' = "idle" /\ fact'[o] = fact[o]
        BY <3>1, <3>4, <4>1 DEF DeleteTombstoned, Delete
      <4>. QED
        BY <3>1, <4>2
    <3>5. CASE CountDeletes
      BY <3>1, <3>5 DEF CountDeletes
    <3>6. CASE ~ (Merge \/ DeleteAbsent \/ DeleteTombstoned \/ CountDeletes)
      <4>1. UNCHANGED <<fact, staged, pc>>
        BY <1>5, <3>6 DEF Next, vars, Change, CorrectRate, Load, Interrupt
      <4>. QED
        BY <3>1, <4>1
    <3>. QED
      BY <3>2, <3>3, <3>4, <3>5, <3>6
  <2>. QED
    BY <1>1, <1>2, <2>2, <2>3, <2>4 DEF QuietInv, Current
<1>. QED
  BY <1>4, <1>5

(* The inductive invariant holds in every reachable state. *)
THEOREM InvariantHolds == Spec => []IInv
<1>1. IInv /\ [Next]_vars => IInv'
  BY TypeStep, OrderStep, StagedStep, QuietStep DEF IInv
<1>. QED
  BY InitInv, <1>1, PTL DEF Spec

-----------------------------------------------------------------------------
(* Every variable of Silver, of the source and of the fact stays in its    *)
(* type.                                                                   *)
THEOREM TypeCorrect == Spec => []TypeOK
<1>1. IInv => TypeOK
  BY DEF IInv
<1>. QED
  BY InvariantHolds, <1>1, PTL

(* After a run over a quiet Silver each live order is current in the fact, *)
(* except where business-first ordering keeps a later business time.       *)
THEOREM QuietRunIsCurrent == Spec => []RunIsCurrent
<1>1. IInv => RunIsCurrent
  BY DEF IInv, QuietInv, RunIsCurrent, Current
<1>. QED
  BY InvariantHolds, <1>1, PTL

(* What a step does to one order's fact: it stays, gives way to a newer    *)
(* row, appears, or goes because the source says the order is gone.        *)
LEMMA FactStep ==
  ASSUME IInv, [Next]_vars, NEW o \in Orders
  PROVE  \/ fact'[o] = fact[o]
         \/ fact'[o] = staged[o] /\ staged[o] # NoRow /\ (fact[o] # NoRow => Newer(staged[o], fact[o]) /\ fact[o].rate <= staged[o].rate)
         \/ fact'[o] = NoRow /\ o \notin Live(source.orders)
<1>1. CASE Merge
  BY <1>1 DEF Merge, IInv, StagedInv
<1>2. CASE DeleteAbsent
  BY <1>2 DEF DeleteAbsent, Delete, Absent, IInv, TypeOK
<1>3. CASE DeleteTombstoned
  BY <1>3 DEF DeleteTombstoned, Delete, Live, IInv, TypeOK
<1>4. CASE ~ (Merge \/ DeleteAbsent \/ DeleteTombstoned)
  BY <1>4 DEF Next, vars, Change, CorrectRate, Load, Select, CountDeletes, Interrupt
<1>. QED
  BY <1>1, <1>2, <1>3, <1>4

(* A row gives way only to one of a later business time, or of the same    *)
(* time and a later LSN, and never to one at an older rate.                *)
THEOREM FactsNeverGoBack == Spec => FactsAdvance
<1> DEFINE Advance == \A o \in Orders : fact[o] # NoRow /\ fact'[o] # NoRow =>
                        /\ fact'[o].rate >= fact[o].rate
                        /\ \/ fact'[o].updated > fact[o].updated
                           \/ fact'[o].updated = fact[o].updated /\ fact'[o].lsn >= fact[o].lsn
<1>1. IInv /\ [Next]_vars => [Advance]_vars
  <2> SUFFICES ASSUME IInv, [Next]_vars, NEW o \in Orders, fact[o] # NoRow, fact'[o] # NoRow
               PROVE  /\ fact'[o].rate >= fact[o].rate
                      /\ \/ fact'[o].updated > fact[o].updated
                         \/ fact'[o].updated = fact[o].updated /\ fact'[o].lsn >= fact[o].lsn
    OBVIOUS
  <2>1. fact[o] \in FactRow
    BY DEF IInv, TypeOK
  <2>2. CASE fact'[o] = fact[o]
    BY <2>1, <2>2, BoundsAssumption DEF FactRow
  <2>3. CASE fact'[o] = staged[o] /\ staged[o] # NoRow /\ Newer(staged[o], fact[o])
              /\ fact[o].rate <= staged[o].rate
    <3>1. staged[o] \in FactRow
      BY <2>3 DEF IInv, TypeOK
    <3>. QED
      BY <2>1, <2>3, <3>1, BoundsAssumption DEF FactRow, Newer
  <2>. QED
    BY <2>2, <2>3, FactStep
<1>. QED
  BY InvariantHolds, <1>1, PTL DEF Spec, FactsAdvance

(* An order leaves the fact only while the source says it is gone. *)
THEOREM LiveOrdersStay == Spec => OnlyGoneOrdersLeave
<1>1. IInv /\ [Next]_vars =>
        [\A o \in Orders : fact[o] # NoRow /\ fact'[o] = NoRow => o \notin Live(source.orders)]_vars
  BY FactStep
<1>. QED
  BY InvariantHolds, <1>1, PTL DEF Spec, OnlyGoneOrdersLeave

================================================================================

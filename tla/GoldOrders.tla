------------------------------- MODULE GoldOrders -------------------------------
(***************************************************************************)
(* The order fact of the AWS Gold project (aws-native/gold): the           *)
(* incremental model fct_orders, which dbt runs again and again over the   *)
(* current CDC and reference Silver tables, and the two operations that    *)
(* delete from it.  dbt commands run one at a time (GoldHarness.dbt) while *)
(* Silver goes on changing.  The tables dbt reads are Silver's own, as of  *)
(* the query (Redshift), or copies that load_bridge replaces one by one.   *)
(*                                                                         *)
(* Silver decides by LSN, Gold by business time first.  An order's row is  *)
(* its LSN, which applied_at follows, its updated_at, and whether it is    *)
(* deleted.  All orders use one exchange rate, known by its version, which *)
(* stands for retrieval, extraction, ingestion and hash in that order; 0   *)
(* is no rate, coalesced to 1900.                                          *)
(***************************************************************************)
EXTENDS Integers, FiniteSets

CONSTANTS
  Orders,         \* order_id
  NoRow,          \* no row under an order
  LastUpdate,     \* business times are 1 .. LastUpdate
  DeletePercent,  \* maximum_delete_fraction
  MaxChanges,     \* bound: changes applied to Silver
  MaxRates        \* bound: corrections of the exchange rate

ASSUME BoundsAssumption ==
  /\ LastUpdate \in Nat /\ MaxChanges \in Nat /\ MaxRates \in Nat
  /\ DeletePercent \in 0 .. 100

Row == [lsn : 1 .. MaxChanges, updated : 1 .. LastUpdate, deleted : BOOLEAN]

FactRow == [lsn : 1 .. MaxChanges, updated : 1 .. LastUpdate, rate : 0 .. MaxRates]

ASSUME NoRowAssumption == NoRow \notin Row \cup FactRow

VARIABLES
  silver,  \* core_orders: the current row of each order, tombstones included
  lsn,     \* the newest LSN applied to it
  rate,    \* ref_exchange_rates: the version of the rate
  source,  \* the order and rate tables dbt reads
  fact,    \* fct_orders
  staged,  \* the rows an incremental run has selected, before its MERGE
  pc,      \* what dbt is doing
  quiet    \* history: the last run read all of Silver, which has not changed since

vars == <<silver, lsn, rate, source, fact, staged, pc, quiet>>

Nothing == [o \in Orders |-> NoRow]

Init ==
  /\ silver = Nothing /\ lsn = 0 /\ rate = 0
  /\ source = [orders |-> Nothing, rate |-> 0]
  /\ fact = Nothing /\ staged = Nothing
  /\ pc = "idle" /\ quiet = FALSE

-----------------------------------------------------------------------------
(* A CDC change reaches Silver, whatever its business time says. *)
Change(o) ==
  /\ lsn < MaxChanges
  /\ lsn' = lsn + 1
  /\ \E updated \in 1 .. LastUpdate, deleted \in BOOLEAN :
       silver' = [silver EXCEPT ![o] = [lsn |-> lsn + 1, updated |-> updated, deleted |-> deleted]]
  /\ quiet' = FALSE
  /\ UNCHANGED <<rate, source, fact, staged, pc>>

(* The reference job merges a fresher rate. *)
CorrectRate ==
  /\ rate < MaxRates
  /\ rate' = rate + 1
  /\ quiet' = FALSE
  /\ UNCHANGED <<silver, lsn, source, fact, staged, pc>>

(* A query reads a Silver table, or load_bridge replaces its copy.  A load *)
(* whose counts do not reconcile has replaced the tables before it raises. *)
Load ==
  /\ \E part \in {"orders", "rate"} :
       source' = [source EXCEPT ![part] = IF part = "orders" THEN silver ELSE rate]
  /\ UNCHANGED <<silver, lsn, rate, fact, staged, pc, quiet>>

-----------------------------------------------------------------------------
(* stg_orders *)
Live(orders) == {o \in Orders : orders[o] # NoRow /\ ~ orders[o].deleted}

(* int_orders_enriched *)
Incoming(o) ==
  [lsn |-> source.orders[o].lsn, updated |-> source.orders[o].updated, rate |-> source.rate]

(* Mutants: an unchanged order is never converted anew; the LSN decides    *)
(* before the business time.                                               *)
NewerWithoutRate(i, c) ==
  \/ i.updated > c.updated
  \/ i.updated = c.updated /\ i.lsn > c.lsn

NewerByLsn(i, c) ==
  \/ i.lsn > c.lsn
  \/ i.lsn = c.lsn /\ i.rate > c.rate

Newer(i, c) ==
  \/ i.updated > c.updated
  \/ i.updated = c.updated /\ i.lsn > c.lsn
  \/ i.updated = c.updated /\ i.lsn = c.lsn /\ i.rate > c.rate

(* dbt run: the select of fct_orders, into a temporary relation. *)
Select ==
  /\ pc = "idle"
  /\ staged' = [o \in Orders |->
                  IF o \in Live(source.orders) /\ (fact[o] = NoRow \/ Newer(Incoming(o), fact[o]))
                  THEN Incoming(o) ELSE NoRow]
  /\ quiet' = (source = [orders |-> silver, rate |-> rate])
  /\ pc' = "merge"
  /\ UNCHANGED <<silver, lsn, rate, source, fact>>

(* Mutant: the run replaces the table by what it selected. *)
MergeReplaces ==
  /\ pc = "merge"
  /\ fact' = staged
  /\ staged' = Nothing
  /\ pc' = "idle"
  /\ UNCHANGED <<silver, lsn, rate, source, quiet>>

(* The MERGE of the temporary relation by order_id. *)
Merge ==
  /\ pc = "merge"
  /\ fact' = [o \in Orders |-> IF staged[o] # NoRow THEN staged[o] ELSE fact[o]]
  /\ staged' = Nothing
  /\ pc' = "idle"
  /\ UNCHANGED <<silver, lsn, rate, source, quiet>>

Absent == {o \in Orders : fact[o] # NoRow /\ o \notin Live(source.orders)}

(* apply_verified_order_deletes: the count and its bound; staged is unused *)
(* by the operation.                                                       *)
CountDeletes ==
  /\ pc = "idle"
  /\ 100 * Cardinality(Absent) <= DeletePercent * Cardinality({o \in Orders : fact[o] # NoRow})
  /\ pc' = "delete"
  /\ UNCHANGED <<silver, lsn, rate, source, fact, staged, quiet>>

Delete(orders) == fact' = [o \in Orders |-> IF o \in orders THEN NoRow ELSE fact[o]]

(* The delete, which repeats the anti-join. *)
DeleteAbsent ==
  /\ pc = "delete"
  /\ Delete(Absent)
  /\ pc' = "idle"
  /\ UNCHANGED <<silver, lsn, rate, source, staged, quiet>>

(* apply_verified_order_tombstones *)
DeleteTombstoned ==
  /\ pc = "idle"
  /\ Delete({o \in Orders : source.orders[o] # NoRow /\ source.orders[o].deleted})
  /\ UNCHANGED <<silver, lsn, rate, source, staged, pc, quiet>>

(* A dbt command fails: its statement is rolled back, the view dropped. *)
Interrupt ==
  /\ pc # "idle"
  /\ pc' = "idle" /\ staged' = Nothing /\ quiet' = FALSE
  /\ UNCHANGED <<silver, lsn, rate, source, fact>>

Next ==
  \/ \E o \in Orders : Change(o)
  \/ CorrectRate \/ Load
  \/ Select \/ Merge \/ CountDeletes \/ DeleteAbsent \/ DeleteTombstoned \/ Interrupt

Spec == Init /\ [][Next]_vars

-----------------------------------------------------------------------------
TypeOK ==
  /\ silver \in [Orders -> Row \cup {NoRow}]
  /\ lsn \in 0 .. MaxChanges
  /\ rate \in 0 .. MaxRates
  /\ source \in [orders : [Orders -> Row \cup {NoRow}], rate : 0 .. MaxRates]
  /\ fact \in [Orders -> FactRow \cup {NoRow}]
  /\ staged \in [Orders -> FactRow \cup {NoRow}]
  /\ pc \in {"idle", "merge", "delete"}
  /\ quiet \in BOOLEAN

(* After a run that read Silver as it still is, every live order is in     *)
(* Gold, in its current version and at the current rate, with the one      *)
(* exception business-first ordering makes: an order whose Silver row has  *)
(* an older updated_at than the row Gold already has (fct_orders.sql:43).  *)
RunIsCurrent ==
  quiet /\ pc = "idle" =>
    \A o \in Live(silver) :
      /\ fact[o] # NoRow
      /\ \/ fact[o] = [lsn |-> silver[o].lsn, updated |-> silver[o].updated, rate |-> rate]
         \/ fact[o].updated > silver[o].updated

(* A row of the fact only gives way to one of a later business time, or of *)
(* the same business time and a later LSN; and no order is ever converted  *)
(* at an older version of its rate than before, although versions of the   *)
(* rate are compared only for equal ones of the order (decisions/0002:33). *)
FactsAdvance ==
  [][ \A o \in Orders : fact[o] # NoRow /\ fact'[o] # NoRow =>
        /\ fact'[o].rate >= fact[o].rate
        /\ \/ fact'[o].updated > fact[o].updated
           \/ fact'[o].updated = fact[o].updated /\ fact'[o].lsn >= fact[o].lsn ]_vars

(* Whatever changes between the count of an operation and its delete, an   *)
(* order leaves the fact only while the source says it is gone, never for  *)
(* having been gone when it was counted (apply_verified_order_deletes.sql, *)
(* apply_verified_order_tombstones.sql), and never by an ordinary run.     *)
OnlyGoneOrdersLeave ==
  [][ \A o \in Orders : fact[o] # NoRow /\ fact'[o] = NoRow => o \notin Live(source.orders) ]_vars
================================================================================

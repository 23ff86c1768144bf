---------------------------- MODULE CdcStateStore ----------------------------
(***************************************************************************)
(* What a current-state ledger of the change stream promises, as the       *)
(* SQLite reference writer (aws-native/mdep_cdc/state_store.py) does it on *)
(* one connection: each delivered event is decided and recorded in one     *)
(* transaction, of which the caller may not learn that it committed.       *)
(* ADR-0003 calls that store the executable oracle of the Iceberg writer,  *)
(* so this module is the abstract specification CdcLedger implements.  The *)
(* row is the winning event; delivery is at-least-once and in any order.   *)
(***************************************************************************)
EXTENDS CdcOrdering

CONSTANTS
  Events,   \* a subset of Event: the source log's events that may be delivered
  NoRow     \* not an event: a key without a row

VARIABLES
  state,      \* cdc_state: the event whose upsert holds the key's row
  quarantine, \* cdc_quarantine: its primary keys
  handled     \* history: the events apply has returned for

vars == <<state, quarantine, handled>>

(* quarantine_id is a hash of entity, primary key, event_hash and reason. *)
QuarantineId(e, decision) == [hash |-> EventHash(e), reason |-> Reason(decision)]

DecisionFor(e) ==
  IF state[e.key] = NoRow
  THEN DecideWithoutRow(e)
  ELSE Decide(e, state[e.key].pos, EventHash(state[e.key]))

Init ==
  /\ state = [k \in Keys |-> NoRow]
  /\ quarantine = {}
  /\ handled = {}

(* What apply commits: the upsert, the INSERT OR IGNORE, or neither. *)
Effect(e) ==
  LET d == DecisionFor(e)
  IN \/ /\ d \in Applied
        /\ state' = [state EXCEPT ![e.key] = e]
        /\ UNCHANGED quarantine
     \/ /\ d \in Rejected
        /\ quarantine' = quarantine \cup {QuarantineId(e, d)}
        /\ UNCHANGED state
     \/ /\ d = "duplicate"
        /\ UNCHANGED <<state, quarantine>>

(* apply(event) commits and returns. *)
Apply(e) == handled' = handled \cup {e} /\ Effect(e)

(* The process dies when the transaction has committed, before the caller  *)
(* has the result.                                                         *)
ApplyUnanswered(e) == UNCHANGED handled /\ Effect(e)

Next == \E e \in Events : Apply(e) \/ ApplyUnanswered(e)

Spec == Init /\ [][Next]_vars
=============================================================================

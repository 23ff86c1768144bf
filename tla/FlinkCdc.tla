------------------------------- MODULE FlinkCdc -------------------------------
(***************************************************************************)
(* The V1 change-data job (processing/flink/flink_cdc_job.py with the      *)
(* ordering rule of cdc_model.py).  Messages of four topics are archived   *)
(* in Bronze, parsed or quarantined, and applied to keyed state whose      *)
(* changes go to Silver.  The job takes checkpoints of offsets and state   *)
(* (EXACTLY_ONCE), its sinks commit what a checkpoint covers, and it is    *)
(* restarted from the last one a fixed number of times.                    *)
(***************************************************************************)
EXTENDS Integers, Sequences

CONSTANTS
  Topics,           \* one per entity
  Keys,             \* primary keys; two entities may use the same one
  Logs,             \* the contents the topics may have: [Topics -> Seq(Message)]
  NoTx,             \* an event without a Debezium transaction id
  None,             \* no event: empty keyed state, no Silver row
  NoChange,         \* a Silver cell that a batch of changes does not touch
  RestartAttempts,  \* fixed_delay_restart(3, ...)
  MaxCrashes        \* bound: failures of the infrastructure

(* Parsed events; order 0 stands for an absent total_order. *)
Event ==
  [kind : {"event"}, key : Keys, op : {"r", "c", "u", "d"},
   lsn : Nat, tx : {"tx1", "tx2", NoTx}, order : Nat]

(* What else a value can be: a null; a value parse_debezium rejects with a *)
(* ValueError; one it fails on otherwise (JSON that is not an object); an  *)
(* event whose ts_ms the timestamp assigner cannot read.                   *)
Raising == {"unreadable", "untimed"}

Other == [kind : {"tombstone", "invalid"} \cup Raising]

ASSUME LogsAssumption == Logs \subseteq [Topics -> Seq(Event \cup Other)]
ASSUME NoneAssumption == None \notin Event /\ NoChange \notin Event \cup {None}
ASSUME BoundsAssumption == RestartAttempts \in Nat /\ MaxCrashes \in Nat

VARIABLES
  log,       \* the topics: everything the job will ever be sent
  live,      \* offsets consumed and keyed state of the running job
  saved,     \* the same in the last completed checkpoint
  pending,   \* written by the sinks since that checkpoint
  staged,    \* covered by the checkpoint, not yet committed
  committed, \* what readers of the sinks can see
  status,    \* the job's
  restarts,
  crashes

vars == <<log, live, saved, pending, staged, committed, status, restarts, crashes>>

-----------------------------------------------------------------------------
Cells == Topics \X Keys

(* Mutant: keyed by the bare primary key. *)
KeyIdentityWithoutEntity(t, e) == <<CHOOSE u \in Topics : TRUE, e.key>>

KeyIdentity(t, e) == <<t, e.key>>

(* version_decision(e, last) = NEWER.  What else it may answer only names  *)
(* the reason in a side output that no sink reads.                         *)
Newer(e, last) ==
  last # None =>
    \/ e.lsn > last.lsn
    \/ /\ e.lsn = last.lsn
       /\ e.tx # NoTx /\ e.tx = last.tx
       /\ e.order # 0 /\ last.order # 0
       /\ e.order > last.order

(* Mutant: only an older event is turned away. *)
AcceptsUnlessOlder(e, last) == ~ (last # None /\ Newer(last, e))

(* The guard before every update of keyed state. *)
Accepts(e, last) == Newer(e, last)

(* One place in Bronze and in quarantine for every message of the topics. *)
Messages == UNION {{t} \X (1 .. Len(log[t])) : t \in Topics}

MessageAt(id) == log[id[1]][id[2]]

Sinks == {"bronze", "quarantine", "silver"}

Empty ==
  [bronze     |-> [id \in Messages |-> 0],
   quarantine |-> [id \in Messages |-> 0],
   silver     |-> [c \in Cells |-> NoChange]]

(* Files add up; an upsert table takes the later change of a key. *)
Plus(sink, f, g) ==
  IF sink = "silver" THEN [c \in Cells |-> IF g[c] = NoChange THEN f[c] ELSE g[c]]
  ELSE [id \in Messages |-> f[id] + g[id]]

Init ==
  /\ log \in Logs
  /\ live = [offset  |-> [t \in Topics |-> 0],
             version |-> [c \in Cells |-> None],
             current |-> [c \in Cells |-> None]]
  /\ saved = live
  /\ pending = Empty /\ staged = Empty
  /\ committed = [Empty EXCEPT !.silver = [c \in Cells |-> None]]
  /\ status = "running" /\ restarts = 0 /\ crashes = 0

-----------------------------------------------------------------------------
Unread(t) == live.offset[t] < Len(log[t])

NextMessage(t) == log[t][live.offset[t] + 1]

(* Mutant: the raw branch keeps only what parses. *)
ArchiveParsedOnly(t, sinks) ==
  [sinks EXCEPT !.bronze[<<t, live.offset[t] + 1>>] =
     @ + (IF NextMessage(t).kind = "invalid" THEN 0 ELSE 1)]

(* _bronze_values: every value is archived, before it is parsed. *)
Archive(t, sinks) == [sinks EXCEPT !.bronze[<<t, live.offset[t] + 1>>] = @ + 1]

(* A tombstone is only archived; the parser sends it to the side output. *)
Tombstone(t) ==
  /\ NextMessage(t).kind = "tombstone"
  /\ pending' = Archive(t, pending)
  /\ live' = [live EXCEPT !.offset[t] = @ + 1]

Quarantine(t) ==
  /\ NextMessage(t).kind = "invalid"
  /\ pending' = [Archive(t, pending) EXCEPT !.quarantine[<<t, live.offset[t] + 1>>] = @ + 1]
  /\ live' = [live EXCEPT !.offset[t] = @ + 1]

(* Mutant: a delete leaves current_row as it was. *)
AfterDeleteKeepsCurrent(row) == row

AfterDelete(row) == None

(* CdcStateApplier: a delete retracts the row if there is one. *)
Apply(t) ==
  LET e == NextMessage(t)
      c == KeyIdentity(t, e)
      previous == live.current[c]
      row == IF e.op = "d" THEN AfterDelete(previous) ELSE e
      change == IF e.op = "d" /\ previous = None THEN NoChange
                ELSE IF e.op = "d" THEN None ELSE e
  IN /\ e.kind = "event"
     /\ \/ /\ ~ Accepts(e, live.version[c])
           /\ pending' = Archive(t, pending)
           /\ live' = [live EXCEPT !.offset[t] = @ + 1]
        \/ /\ Accepts(e, live.version[c])
           /\ pending' = [Archive(t, pending) EXCEPT
                            !.silver[c] = IF change = NoChange THEN @ ELSE change]
           /\ live' = [offset  |-> [live.offset EXCEPT ![t] = @ + 1],
                       version |-> [live.version EXCEPT ![c] = e],
                       current |-> [live.current EXCEPT ![c] = row]]

Process(t) ==
  /\ status = "running"
  /\ Unread(t)
  /\ Tombstone(t) \/ Quarantine(t) \/ Apply(t)
  /\ UNCHANGED <<log, saved, staged, committed, status, restarts, crashes>>

(* A checkpoint completes: state and offsets are saved, and what the sinks *)
(* wrote up to the barrier may be committed.                               *)
Checkpoint ==
  /\ status = "running"
  /\ saved' = live
  /\ staged' = [s \in Sinks |-> Plus(s, staged[s], pending[s])]
  /\ pending' = Empty
  /\ UNCHANGED <<log, live, committed, status, restarts, crashes>>

(* A sink commits on the notification, or after a restore. *)
Commit(s) ==
  /\ status = "running"
  /\ staged[s] # Empty[s]
  /\ committed' = [committed EXCEPT ![s] = Plus(s, @, staged[s])]
  /\ staged' = [staged EXCEPT ![s] = Empty[s]]
  /\ UNCHANGED <<log, live, saved, pending, status, restarts, crashes>>

(* Mutant: versions in a field of the operator, not in managed state. *)
RestoreKeepsVersions(state) == [saved EXCEPT !.version = state.version]

Restore(state) == saved

(* Mutant: one restart more than fixed_delay_restart allows. *)
RestartAllowedOnceMore == restarts <= RestartAttempts

RestartAllowed == restarts < RestartAttempts

(* The job fails: it is restored from its checkpoint, or is over. *)
Fail ==
  /\ \/ /\ RestartAllowed
        /\ restarts' = restarts + 1
        /\ live' = Restore(live)
        /\ pending' = Empty
        /\ UNCHANGED status
     \/ /\ ~ RestartAllowed
        /\ status' = "failed"
        /\ UNCHANGED <<restarts, live, pending>>
  /\ UNCHANGED <<log, saved, staged, committed>>

Raises(kind) == kind \in Raising

(* An exception no operator catches fails the job. *)
Raise(t) ==
  /\ status = "running"
  /\ Unread(t)
  /\ Raises(NextMessage(t).kind)
  /\ Fail
  /\ UNCHANGED crashes

Crash ==
  /\ status = "running"
  /\ crashes < MaxCrashes
  /\ crashes' = crashes + 1
  /\ Fail

Next ==
  \/ \E t \in Topics : Process(t) \/ Raise(t)
  \/ Checkpoint
  \/ \E s \in Sinks : Commit(s)
  \/ Crash

Spec == Init /\ [][Next]_vars

(* A job that runs reads on, completes checkpoints and commits them; no    *)
(* fairness makes it crash.                                                *)
Fairness ==
  /\ \A t \in Topics : WF_vars(Process(t) \/ Raise(t))
  /\ WF_vars(Checkpoint)
  /\ \A s \in Sinks : WF_vars(Commit(s))

FairSpec == Spec /\ Fairness

-----------------------------------------------------------------------------
Events == {MessageAt(id) : id \in {i \in Messages : MessageAt(i).kind = "event"}}

Progress ==
  [offset  : [Topics -> Nat],
   version : [Cells -> Events \cup {None}],
   current : [Cells -> Events \cup {None}]]

Output ==
  [bronze     : [Messages -> Nat],
   quarantine : [Messages -> Nat],
   silver     : [Cells -> Events \cup {None, NoChange}]]

TypeOK ==
  /\ log \in Logs
  /\ live \in Progress /\ saved \in Progress
  /\ \A t \in Topics : saved.offset[t] <= live.offset[t] /\ live.offset[t] <= Len(log[t])
  /\ pending \in Output /\ staged \in Output /\ committed \in Output
  /\ \A c \in Cells : committed.silver[c] # NoChange
  /\ status \in {"running", "failed"}
  /\ restarts \in 0 .. RestartAttempts
  /\ crashes \in 0 .. MaxCrashes

(* Every message a checkpoint covers is in Bronze exactly once, and in     *)
(* quarantine exactly once if the parser rejected it, counting what the    *)
(* sinks still have to commit; no other message is (flink-cdc-job.md 8).   *)
EvidenceExactlyOnce ==
  \A id \in Messages :
    LET covered == IF id[2] <= saved.offset[id[1]] THEN 1 ELSE 0
        rejected == IF MessageAt(id).kind = "invalid" THEN covered ELSE 0
    IN /\ committed.bronze[id] + staged.bronze[id] = covered
       /\ committed.quarantine[id] + staged.quarantine[id] = rejected

(* Silver with what is staged is the keyed state of the checkpoint: the    *)
(* retractions of CdcStateApplier and its state never part, over restarts. *)
SilverIsState ==
  Plus("silver", committed.silver, staged.silver) = saved.current

(* The events of a cell among the first messages of its topic. *)
Seen(c, offset) ==
  {log[c[1]][n] : n \in {i \in 1 .. offset[c[1]] :
     log[c[1]][i].kind = "event" /\ log[c[1]][i].key = c[2]}}

(* The version of a cell is one of the events read for it, no other one is *)
(* newer, and the row is that event's, or no row after a delete; in the    *)
(* running job and in the checkpoint it would go back to.                  *)
StateIsNewest ==
  \A p \in {live, saved}, c \in Cells :
    /\ p.version[c] \in Seen(c, p.offset) \cup {None}
    /\ \A e \in Seen(c, p.offset) : ~ Newer(e, p.version[c])
    /\ p.current[c] =
         IF p.version[c] = None THEN None
         ELSE IF p.version[c].op = "d" THEN None ELSE p.version[c]

(* A row readers see is only ever replaced by a newer one, although after  *)
(* a restart the job reads the same messages again.                        *)
CommittedAdvances ==
  [][\A c \in Cells :
       committed.silver[c] # None /\ committed'.silver[c] \notin {None, committed.silver[c]}
         => Newer(committed'.silver[c], committed.silver[c])]_vars

(* Every message ends up in Bronze, rejected or not                        *)
(* (flink-cdc-job.md:96: archived even when parsing fails).                *)
AllArchived == <>[](\A id \in Messages : committed.bronze[id] = 1)

Readable == \A id \in Messages : MessageAt(id).kind \notin Raising

(* On topics on which no operator raises, if the infrastructure fails no   *)
(* more often than the restart strategy allows, everything is archived and *)
(* the newest change of a cell, if there is one, ends up in Silver,        *)
(* whatever was read twice on the way.                                     *)
Converges ==
  Readable =>
    <>[](/\ \A id \in Messages : committed.bronze[id] = 1
         /\ \A c \in Cells :
           LET all == Seen(c, [t \in Topics |-> Len(log[t])])
           IN \A e \in all :
                (\A f \in all \ {e} : Newer(e, f))
                  => committed.silver[c] = IF e.op = "d" THEN None ELSE e)
===============================================================================

---------------------------- MODULE FlinkCdcProofs ----------------------------
(***************************************************************************)
(* Safety of the V1 change-data job for all topics, keys and numbers of    *)
(* crashes and restarts.                                                   *)
(***************************************************************************)
EXTENDS FlinkCdc, TLAPS

-----------------------------------------------------------------------------
(* The ordering rule *)

(* What was not newer than a version is not newer than a newer version. *)
LEMMA OldStaysOld ==
  ASSUME NEW e \in Event, NEW new \in Event, NEW old \in Event \cup {None},
         Newer(new, old), ~ Newer(e, old)
  PROVE  ~ Newer(e, new)
  BY NoneAssumption DEF Newer, Event

(* Newer is transitive, so versions that advance twice have advanced. *)
LEMMA NewerTransitive ==
  ASSUME NEW a \in Event, NEW b \in Event, NEW c \in Event, Newer(a, b), Newer(b, c)
  PROVE  Newer(a, c)
  BY NoneAssumption DEF Newer, Event

(* A replayed event is not newer than itself. *)
LEMMA NotNewerThanItself == ASSUME NEW e \in Event PROVE ~ Newer(e, e)
  BY NoneAssumption DEF Newer, Event

-----------------------------------------------------------------------------
(* What a message and its processing look like *)

Next1(t) == live.offset[t] + 1

NextId(t) == <<t, Next1(t)>>

(* The events of the topics are well-formed. *)
LEMMA EventsAreEvents == ASSUME TypeOK PROVE Events \subseteq Event
<1>1. SUFFICES ASSUME NEW id \in Messages, MessageAt(id).kind = "event"
               PROVE  MessageAt(id) \in Event
  BY DEF Events
<1>2. PICK t \in Topics : \E n \in 1 .. Len(log[t]) : id = <<t, n>>
  BY <1>1 DEF Messages
<1>3. log[t] \in Seq(Event \cup Other)
  BY LogsAssumption DEF TypeOK
<1>4. MessageAt(id) \in Event \cup Other
  BY <1>2, <1>3 DEF MessageAt
<1> QED
  BY <1>1, <1>4 DEF Other, Raising

(* The message a topic gives next, its place and its cell. *)
LEMMA NextFacts ==
  ASSUME TypeOK, NEW t \in Topics, Unread(t)
  PROVE  /\ Next1(t) \in 1 .. Len(log[t])
         /\ NextId(t) \in Messages
         /\ MessageAt(NextId(t)) = NextMessage(t)
         /\ NextMessage(t).kind = "event" =>
              /\ NextMessage(t) \in Event \cap Events
              /\ KeyIdentity(t, NextMessage(t)) \in Cells
<1>1. live.offset[t] \in Nat /\ log[t] \in Seq(Event \cup Other)
  BY LogsAssumption DEF TypeOK, Progress
<1>2. Next1(t) \in 1 .. Len(log[t])
  BY <1>1 DEF Unread, Next1
<1>3. NextId(t) \in Messages
  BY <1>2 DEF NextId, Messages
<1>4. MessageAt(NextId(t)) = NextMessage(t)
  BY DEF MessageAt, NextId, Next1, NextMessage
<1>5. NextMessage(t).kind = "event" => NextMessage(t) \in Event \cap Events
  BY <1>3, <1>4, EventsAreEvents DEF Events
<1>6. NextMessage(t) \in Event => KeyIdentity(t, NextMessage(t)) \in Cells
  BY DEF KeyIdentity, Cells, Event
<1> QED
  BY <1>2, <1>3, <1>4, <1>5, <1>6

(* The row of a cell whose version is e. *)
RowOf(e) == IF e = None THEN None ELSE IF e.op = "d" THEN None ELSE e

(* One accepted event, and one message of any other kind. *)
Applied(t) ==
  LET e == NextMessage(t)
      c == KeyIdentity(t, e)
  IN /\ e.kind = "event" /\ Newer(e, live.version[c])
     /\ live'.version = [live.version EXCEPT ![c] = e]
     /\ live'.current = [live.current EXCEPT ![c] = RowOf(e)]
     /\ pending'.silver =
          [pending.silver EXCEPT ![c] =
             IF e.op = "d" /\ live.current[c] = None THEN @ ELSE RowOf(e)]

PassedOver(t) ==
  LET e == NextMessage(t)
  IN /\ e.kind = "event" => ~ Newer(e, live.version[KeyIdentity(t, e)])
     /\ live'.version = live.version
     /\ live'.current = live.current
     /\ pending'.silver = pending.silver

(* What one message does to the live state and the pending output. *)
LEMMA ProcessEffect ==
  ASSUME TypeOK, NEW t \in Topics, Process(t)
  PROVE  /\ live' = [offset |-> live'.offset, version |-> live'.version, current |-> live'.current]
         /\ live'.offset = [live.offset EXCEPT ![t] = Next1(t)]
         /\ pending' = [bronze |-> pending'.bronze, quarantine |-> pending'.quarantine,
                        silver |-> pending'.silver]
         /\ pending'.bronze = [pending.bronze EXCEPT ![NextId(t)] = @ + 1]
         /\ pending'.quarantine =
              IF NextMessage(t).kind = "invalid"
              THEN [pending.quarantine EXCEPT ![NextId(t)] = @ + 1]
              ELSE pending.quarantine
         /\ Applied(t) \/ PassedOver(t)
<1>1. live \in Progress /\ pending \in Output /\ Unread(t)
  BY DEF TypeOK, Process
<1> USE DEF Progress, Output, Archive, Next1, NextId
<1>2. CASE Tombstone(t)
  BY <1>1, <1>2 DEF Tombstone, PassedOver
<1>3. CASE Quarantine(t)
  BY <1>1, <1>3 DEF Quarantine, PassedOver
<1>4. CASE Apply(t)
  <2> DEFINE e == NextMessage(t)
             c == KeyIdentity(t, e)
  <2>1. e.kind = "event" /\ e \in Event /\ e # None /\ c \in Cells
    BY <1>1, <1>4, NextFacts, NoneAssumption DEF Apply
  <2>2. CASE ~ Newer(e, live.version[c])
    BY <1>1, <1>4, <2>1, <2>2 DEF Apply, Accepts, PassedOver
  <2>3. CASE Newer(e, live.version[c])
    <3> DEFINE old == live.current[c]
               nothing == e.op = "d" /\ old = None
               before == Archive(t, pending)
    <3>1. RowOf(e) = IF e.op = "d" THEN AfterDelete(old) ELSE e
      BY <2>1 DEF RowOf, AfterDelete
    <3>2. RowOf(e) # NoChange /\ None # NoChange /\ (e.op = "d" => RowOf(e) = None)
      BY <2>1, NoneAssumption DEF RowOf
    <3>3. live' = [offset  |-> [live.offset EXCEPT ![t] = @ + 1],
                   version |-> [live.version EXCEPT ![c] = e],
                   current |-> [live.current EXCEPT ![c] = RowOf(e)]]
      BY <1>4, <2>3, <3>1 DEF Apply, Accepts
    <3>4. pending' = [before EXCEPT !.silver[c] = IF nothing THEN @ ELSE RowOf(e)]
      BY <1>4, <2>1, <2>3, <3>1, <3>2 DEF Apply, Accepts, AfterDelete
    <3>5. /\ before = [bronze     |-> [pending.bronze EXCEPT ![NextId(t)] = @ + 1],
                       quarantine |-> pending.quarantine,
                       silver     |-> pending.silver]
      BY <1>1
    <3>6. /\ pending' = [bronze     |-> [pending.bronze EXCEPT ![NextId(t)] = @ + 1],
                         quarantine |-> pending.quarantine,
                         silver     |-> [pending.silver EXCEPT ![c] = IF nothing THEN @ ELSE RowOf(e)]]
      BY <3>4, <3>5
    <3> HIDE DEF e, c
    <3>7. Applied(t)
      BY <2>1, <2>3, <3>3, <3>6 DEF Applied, e, c
    <3> QED
      BY <2>1, <3>3, <3>6, <3>7 DEF e
  <2> QED
    BY <2>2, <2>3
<1> QED
  BY <1>2, <1>3, <1>4 DEF Process
-----------------------------------------------------------------------------
(* Outputs and how they add up *)

Counts == [Messages -> Nat]

Changes == [Cells -> Events \cup {None, NoChange}]

(* Counts of file sinks add up message by message. *)
LEMMA PlusCounts ==
  ASSUME NEW s \in {"bronze", "quarantine"}, NEW f \in Counts, NEW g \in Counts
  PROVE  Plus(s, f, g) \in Counts /\ \A id \in Messages : Plus(s, f, g)[id] = f[id] + g[id]
  BY DEF Plus, Counts

(* A later change of a cell replaces an earlier one. *)
LEMMA PlusChanges ==
  ASSUME NEW f \in Changes, NEW g \in Changes
  PROVE  /\ Plus("silver", f, g) \in Changes
         /\ \A c \in Cells :
              Plus("silver", f, g)[c] = IF g[c] = NoChange THEN f[c] ELSE g[c]
  BY DEF Plus, Changes

(* The three parts of an output. *)
LEMMA OutputParts ==
  ASSUME NEW x \in Output
  PROVE  /\ x = [bronze |-> x.bronze, quarantine |-> x.quarantine, silver |-> x.silver]
         /\ x.bronze \in Counts /\ x.quarantine \in Counts /\ x.silver \in Changes
  BY DEF Output, Counts, Changes

(* An output is made of its parts. *)
LEMMA OutputWhole ==
  ASSUME NEW b \in Counts, NEW q \in Counts, NEW v \in Changes
  PROVE  [bronze |-> b, quarantine |-> q, silver |-> v] \in Output
  BY DEF Output, Counts, Changes

(* An output with one part replaced. *)
LEMMA OutputExcept ==
  ASSUME NEW x \in Output, NEW v
  PROVE  /\ [x EXCEPT !["bronze"] = v]
              = [bronze |-> v, quarantine |-> x.quarantine, silver |-> x.silver]
         /\ [x EXCEPT !["quarantine"] = v]
              = [bronze |-> x.bronze, quarantine |-> v, silver |-> x.silver]
         /\ [x EXCEPT !["silver"] = v]
              = [bronze |-> x.bronze, quarantine |-> x.quarantine, silver |-> v]
<1>1. /\ [x EXCEPT !["bronze"] = v] = [x EXCEPT !.bronze = v]
      /\ [x EXCEPT !["quarantine"] = v] = [x EXCEPT !.quarantine = v]
      /\ [x EXCEPT !["silver"] = v] = [x EXCEPT !.silver = v]
  BY DEF Output
<1>2. [x EXCEPT !.bronze = v]
        = [bronze |-> v, quarantine |-> x.quarantine, silver |-> x.silver]
  BY DEF Output
<1>3. [x EXCEPT !.quarantine = v]
        = [bronze |-> x.bronze, quarantine |-> v, silver |-> x.silver]
  BY DEF Output
<1>4. [x EXCEPT !.silver = v]
        = [bronze |-> x.bronze, quarantine |-> x.quarantine, silver |-> v]
  BY DEF Output
<1> QED
  BY <1>1, <1>2, <1>3, <1>4

(* The output of nothing. *)
LEMMA EmptyParts ==
  /\ Empty \in Output
  /\ \A id \in Messages : Empty.bronze[id] = 0 /\ Empty.quarantine[id] = 0
  /\ \A c \in Cells : Empty.silver[c] = NoChange
  BY DEF Empty, Output

(* What depends on the topics alone stays while they do. *)
LEMMA SameLog ==
  ASSUME log' = log
  PROVE  /\ Messages' = Messages /\ Events' = Events /\ Empty' = Empty
         /\ Progress' = Progress /\ Output' = Output
<1>1. Messages' = Messages
  BY DEF Messages
<1>2. Events' = Events
  BY <1>1 DEF Events, MessageAt
<1> QED
  BY <1>1, <1>2 DEF Empty, Progress, Output

(* A checkpoint stages what is pending for each sink. *)
LEMMA CheckpointEffect ==
  ASSUME TypeOK, Checkpoint
  PROVE  staged' = [bronze     |-> Plus("bronze", staged.bronze, pending.bronze),
                    quarantine |-> Plus("quarantine", staged.quarantine, pending.quarantine),
                    silver     |-> Plus("silver", staged.silver, pending.silver)]
  BY DEF Checkpoint, Sinks

(* A sink moves what is staged for it to what is committed. *)
LEMMA CommitEffect ==
  ASSUME TypeOK, NEW s \in Sinks, Commit(s)
  PROVE  /\ committed' =
              [bronze     |-> IF s = "bronze" THEN Plus(s, committed.bronze, staged.bronze)
                              ELSE committed.bronze,
               quarantine |-> IF s = "quarantine"
                              THEN Plus(s, committed.quarantine, staged.quarantine)
                              ELSE committed.quarantine,
               silver     |-> IF s = "silver" THEN Plus(s, committed.silver, staged.silver)
                              ELSE committed.silver]
         /\ staged' =
              [bronze     |-> IF s = "bronze" THEN Empty.bronze ELSE staged.bronze,
               quarantine |-> IF s = "quarantine" THEN Empty.quarantine ELSE staged.quarantine,
               silver     |-> IF s = "silver" THEN Empty.silver ELSE staged.silver]
<1>1. committed \in Output /\ staged \in Output
  BY DEF TypeOK
<1>2. CASE s = "bronze"
  <2>1. /\ committed' = [committed EXCEPT !["bronze"] = Plus(s, committed.bronze, staged.bronze)]
        /\ staged' = [staged EXCEPT !["bronze"] = Empty.bronze]
    BY <1>1, <1>2, EmptyParts DEF Commit, Output
  <2> QED
    BY <1>1, <1>2, <2>1, OutputExcept
<1>3. CASE s = "quarantine"
  <2>1. /\ committed' = [committed EXCEPT !["quarantine"] = Plus(s, committed.quarantine, staged.quarantine)]
        /\ staged' = [staged EXCEPT !["quarantine"] = Empty.quarantine]
    BY <1>1, <1>3, EmptyParts DEF Commit, Output
  <2> QED
    BY <1>1, <1>3, <2>1, OutputExcept
<1>4. CASE s = "silver"
  <2>1. /\ committed' = [committed EXCEPT !["silver"] = Plus(s, committed.silver, staged.silver)]
        /\ staged' = [staged EXCEPT !["silver"] = Empty.silver]
    BY <1>1, <1>4, EmptyParts DEF Commit, Output
  <2> QED
    BY <1>1, <1>4, <2>1, OutputExcept
<1> QED
  BY <1>2, <1>3, <1>4 DEF Sinks

-----------------------------------------------------------------------------
(* Types *)

(* The parts of the keyed state and its offsets. *)
LEMMA ProgressParts ==
  ASSUME NEW p \in Progress
  PROVE  /\ p.offset \in [Topics -> Nat]
         /\ p.version \in [Cells -> Events \cup {None}]
         /\ p.current \in [Cells -> Events \cup {None}]
  BY DEF Progress

(* A function updated at one place stays in its set. *)
LEMMA UpdateIn ==
  ASSUME NEW S, NEW T, NEW f \in [S -> T], NEW x \in S, NEW v \in T
  PROVE  [f EXCEPT ![x] = v] \in [S -> T]
  OBVIOUS

(* The initial state is typed. *)
LEMMA InitType == Init => TypeOK
<1>1. SUFFICES ASSUME Init PROVE TypeOK
  OBVIOUS
<1>2. live \in Progress /\ saved \in Progress
  BY <1>1 DEF Init, Progress
<1>3. [c \in Cells |-> None] \in Changes
  BY DEF Changes
<1>4. committed = [bronze |-> Empty.bronze, quarantine |-> Empty.quarantine,
                   silver |-> [c \in Cells |-> None]]
  BY <1>1, EmptyParts DEF Init, Output
<1>5. committed \in Output
  BY <1>3, <1>4, EmptyParts, OutputParts, OutputWhole
<1>6. \A c \in Cells : committed.silver[c] # NoChange
  BY <1>4, NoneAssumption
<1>7. \A t \in Topics : saved.offset[t] <= live.offset[t] /\ live.offset[t] <= Len(log[t])
  <2>1. TAKE t \in Topics
  <2>2. log[t] \in Seq(Event \cup Other)
    BY <1>1, LogsAssumption DEF Init
  <2> QED
    BY <1>1, <2>2 DEF Init
<1>8. pending \in Output /\ staged \in Output /\ log \in Logs
  BY <1>1, EmptyParts DEF Init
<1>9. /\ status \in {"running", "failed"} /\ restarts \in 0 .. RestartAttempts
      /\ crashes \in 0 .. MaxCrashes
  BY <1>1, BoundsAssumption DEF Init
<1> QED
  BY <1>2, <1>5, <1>6, <1>7, <1>8, <1>9 DEF TypeOK

(* Processing a message keeps the types. *)
LEMMA ProcessType == ASSUME TypeOK, NEW t \in Topics, Process(t) PROVE TypeOK'
<1> DEFINE e == NextMessage(t)
           c == KeyIdentity(t, e)
<1>1. /\ live \in Progress /\ saved \in Progress /\ log \in Logs
      /\ pending \in Output /\ staged \in Output /\ committed \in Output
      /\ Unread(t)
  BY DEF TypeOK, Process
<1>2. /\ Messages' = Messages /\ Events' = Events /\ Progress' = Progress
      /\ Output' = Output /\ log' = log /\ saved' = saved /\ staged' = staged
      /\ committed' = committed /\ status' = status /\ restarts' = restarts
      /\ crashes' = crashes
  BY SameLog DEF Process
<1>3. Next1(t) \in 1 .. Len(log[t]) /\ NextId(t) \in Messages
  BY <1>1, NextFacts
<1>4. live'.offset \in [Topics -> Nat]
  <2>1. live.offset \in [Topics -> Nat] /\ Next1(t) \in Nat
    BY <1>1, <1>3, ProgressParts
  <2>2. live'.offset = [live.offset EXCEPT ![t] = Next1(t)]
    BY ProcessEffect
  <2> QED
    BY <2>1, <2>2, UpdateIn
<1>5. live'.version \in [Cells -> Events \cup {None}]
  <2>1. CASE Applied(t)
    BY <1>1, <2>1, ProgressParts, NextFacts DEF Applied
  <2>2. CASE PassedOver(t)
    BY <1>1, <2>2, ProgressParts DEF PassedOver
  <2> QED
    BY <2>1, <2>2, ProcessEffect
<1>6. live'.current \in [Cells -> Events \cup {None}]
  <2>1. CASE Applied(t)
    <3>1. RowOf(e) \in Events \cup {None} /\ c \in Cells
      BY <1>1, <2>1, NextFacts DEF Applied, RowOf
    <3>2. live'.current = [live.current EXCEPT ![c] = RowOf(e)]
      BY <2>1 DEF Applied
    <3> HIDE DEF e, c
    <3> QED
      BY <1>1, <3>1, <3>2, ProgressParts, UpdateIn
  <2>2. CASE PassedOver(t)
    BY <1>1, <2>2, ProgressParts DEF PassedOver
  <2> QED
    BY <2>1, <2>2, ProcessEffect
<1>7. pending'.silver \in Changes
  <2>1. CASE Applied(t)
    <3>1. RowOf(e) \in Events \cup {None} /\ c \in Cells
      BY <1>1, <2>1, NextFacts DEF Applied, RowOf
    <3> DEFINE change == IF e.op = "d" /\ live.current[c] = None THEN pending.silver[c]
                         ELSE RowOf(e)
    <3>2. pending'.silver = [pending.silver EXCEPT ![c] = change]
      BY <2>1 DEF Applied
    <3>3. pending.silver \in [Cells -> Events \cup {None, NoChange}]
      BY <1>1, OutputParts DEF Changes
    <3>4. change \in Events \cup {None, NoChange}
      BY <3>1, <3>3
    <3> HIDE DEF e, c, change
    <3> QED
      BY <3>1, <3>2, <3>3, <3>4, UpdateIn DEF Changes
  <2>2. CASE PassedOver(t)
    BY <1>1, <2>2, OutputParts DEF PassedOver
  <2> QED
    BY <2>1, <2>2, ProcessEffect
<1>8. pending'.bronze \in Counts /\ pending'.quarantine \in Counts
  <2>1. pending.bronze \in [Messages -> Nat] /\ pending.quarantine \in [Messages -> Nat]
    BY <1>1, OutputParts DEF Counts
  <2>2. /\ pending.bronze[NextId(t)] + 1 \in Nat
        /\ pending.quarantine[NextId(t)] + 1 \in Nat
    BY <1>3, <2>1
  <2>3. /\ pending'.bronze = [pending.bronze EXCEPT ![NextId(t)] = @ + 1]
        /\ \/ pending'.quarantine = [pending.quarantine EXCEPT ![NextId(t)] = @ + 1]
           \/ pending'.quarantine = pending.quarantine
    BY ProcessEffect
  <2>4. pending'.bronze \in [Messages -> Nat]
    BY <1>3, <2>1, <2>2, <2>3, UpdateIn
  <2>5. pending'.quarantine \in [Messages -> Nat]
    BY <1>3, <2>1, <2>2, <2>3, UpdateIn
  <2> QED
    BY <2>4, <2>5 DEF Counts
<1>9. live' \in Progress /\ pending' \in Output
  <2>1. /\ live' = [offset  |-> live'.offset, version |-> live'.version,
                   current |-> live'.current]
        /\ pending' = [bronze |-> pending'.bronze, quarantine |-> pending'.quarantine,
                       silver |-> pending'.silver]
    BY ProcessEffect
  <2>2. [bronze |-> pending'.bronze, quarantine |-> pending'.quarantine,
         silver |-> pending'.silver] \in Output
    BY <1>7, <1>8, OutputWhole
  <2>3. [offset |-> live'.offset, version |-> live'.version, current |-> live'.current]
          \in Progress
    BY <1>4, <1>5, <1>6 DEF Progress
  <2> QED
    BY <2>1, <2>2, <2>3
<1>10. ASSUME NEW u \in Topics
       PROVE  saved.offset[u] <= live'.offset[u] /\ live'.offset[u] <= Len(log[u])
  <2>1. /\ saved.offset[u] \in Nat /\ live.offset[u] \in Nat
        /\ saved.offset[u] <= live.offset[u] /\ live.offset[u] <= Len(log[u])
    BY <1>1, ProgressParts DEF TypeOK
  <2>2. live'.offset[u] = IF u = t THEN Next1(t) ELSE live.offset[u]
    BY <1>1, ProcessEffect, ProgressParts
  <2>3. log[t] \in Seq(Event \cup Other)
    BY <1>1, LogsAssumption
  <2> QED
    BY <1>3, <2>1, <2>2, <2>3 DEF Next1
<1> QED
  BY <1>1, <1>2, <1>9, <1>10 DEF TypeOK

(* Two outputs add up to an output. *)
LEMMA PlusOutput ==
  ASSUME NEW x \in Output, NEW y \in Output
  PROVE  [bronze     |-> Plus("bronze", x.bronze, y.bronze),
          quarantine |-> Plus("quarantine", x.quarantine, y.quarantine),
          silver     |-> Plus("silver", x.silver, y.silver)] \in Output
<1>1. Plus("bronze", x.bronze, y.bronze) \in Counts
  BY OutputParts, PlusCounts
<1>2. Plus("quarantine", x.quarantine, y.quarantine) \in Counts
  BY OutputParts, PlusCounts
<1>3. Plus("silver", x.silver, y.silver) \in Changes
  BY OutputParts, PlusChanges
<1> QED
  BY <1>1, <1>2, <1>3, OutputWhole

(* A checkpoint keeps the types. *)
LEMMA CheckpointType == ASSUME TypeOK, Checkpoint PROVE TypeOK'
<1>1. /\ log' = log /\ live' = live /\ saved' = live /\ pending' = Empty
      /\ committed' = committed /\ status' = status /\ restarts' = restarts
      /\ crashes' = crashes
  BY DEF Checkpoint
<1>2. staged' \in Output
  BY CheckpointEffect, PlusOutput DEF TypeOK
<1>3. \A t \in Topics : live.offset[t] <= live.offset[t]
  <2>1. live.offset \in [Topics -> Nat]
    BY ProgressParts DEF TypeOK
  <2> QED
    BY <2>1
<1> QED
  BY <1>1, <1>2, <1>3, SameLog, EmptyParts DEF TypeOK

(* A sink's commit keeps the types. *)
LEMMA CommitType == ASSUME TypeOK, NEW s \in Sinks, Commit(s) PROVE TypeOK'
<1>1. committed \in Output /\ staged \in Output
  BY DEF TypeOK
<1>2. committed' \in Output
  BY <1>1, CommitEffect, OutputParts, OutputWhole, PlusCounts, PlusChanges
<1>3. staged' \in Output
  BY <1>1, CommitEffect, OutputParts, OutputWhole, EmptyParts
<1>4. \A c \in Cells : committed'.silver[c] # NoChange
  <2>1. CASE s = "silver"
    BY <1>1, <2>1, CommitEffect, OutputParts, PlusChanges DEF TypeOK
  <2>2. CASE s # "silver"
    BY <2>2, CommitEffect DEF TypeOK
  <2> QED
    BY <2>1, <2>2
<1> QED
  BY <1>2, <1>3, <1>4, SameLog DEF TypeOK, Commit

(* A failure within its budget keeps the types. *)
LEMMA FailType ==
  ASSUME TypeOK, Fail, crashes' \in 0 .. MaxCrashes
  PROVE  TypeOK'
<1>1. /\ log' = log /\ saved' = saved /\ staged' = staged /\ committed' = committed
      /\ status' \in {"running", "failed"}
      /\ \/ live' = saved /\ pending' = Empty
         \/ live' = live /\ pending' = pending
  BY DEF Fail, Restore, TypeOK
<1>2. restarts' \in 0 .. RestartAttempts
  BY BoundsAssumption DEF Fail, RestartAllowed, TypeOK
<1>3. \A t \in Topics : saved.offset[t] <= saved.offset[t] /\ saved.offset[t] <= Len(log[t])
  <2>1. TAKE t \in Topics
  <2>2. log[t] \in Seq(Event \cup Other)
    BY LogsAssumption DEF TypeOK
  <2> QED
    BY <2>2, ProgressParts DEF TypeOK
<1> QED
  BY <1>1, <1>2, <1>3, SameLog, EmptyParts DEF TypeOK

(* A failure of either kind. *)
LEMMA FailureType == ASSUME TypeOK, Crash \/ \E t \in Topics : Raise(t) PROVE TypeOK'
  BY FailType, BoundsAssumption DEF Crash, Raise, TypeOK

(* A step that changes nothing keeps the types. *)
LEMMA StutterType == TypeOK /\ UNCHANGED vars => TypeOK'
  BY SameLog DEF vars, TypeOK

(* Every step keeps the types. *)
LEMMA TypeStep == TypeOK /\ [Next]_vars => TypeOK'
  BY ProcessType, CheckpointType, CommitType, FailureType, StutterType DEF Next

(* Type correctness of the job, for all topics and bounds. *)
THEOREM TypeCorrect == Spec => []TypeOK
  BY InitType, TypeStep, PTL DEF Spec

-----------------------------------------------------------------------------
(* The invariant *)

(* Whether the offsets of p are past a message. *)
Covered(p, id) == IF id[2] <= p.offset[id[1]] THEN 1 ELSE 0

(* A count per message: one for what is new since the checkpoint. *)
Rejected(id, n) == IF MessageAt(id).kind = "invalid" THEN n ELSE 0

EvidenceInv ==
  \A id \in Messages :
    LET new == Covered(live, id) - Covered(saved, id)
    IN /\ committed.bronze[id] + staged.bronze[id] = Covered(saved, id)
       /\ pending.bronze[id] = new
       /\ committed.quarantine[id] + staged.quarantine[id] = Rejected(id, Covered(saved, id))
       /\ pending.quarantine[id] = Rejected(id, new)

Over(row, change) == IF change = NoChange THEN row ELSE change

SilverInv ==
  \A c \in Cells :
    /\ Over(committed.silver[c], staged.silver[c]) = saved.current[c]
    /\ Over(saved.current[c], pending.silver[c]) = live.current[c]

(* Seen and StateIsNewest for given topics l. *)
SeenIn(l, c, offset) ==
  {l[c[1]][n] : n \in {i \in 1 .. offset[c[1]] :
     l[c[1]][i].kind = "event" /\ l[c[1]][i].key = c[2]}}

NewestIn(l, p, c) ==
  /\ p.version[c] \in SeenIn(l, c, p.offset) \cup {None}
  /\ \A e \in SeenIn(l, c, p.offset) : ~ Newer(e, p.version[c])
  /\ p.current[c] = RowOf(p.version[c])

NewestInv == \A c \in Cells : NewestIn(log, live, c) /\ NewestIn(log, saved, c)

(* What replaces a version is newer. *)
Advanced(old, new) == old # None => new # None /\ (new = old \/ Newer(new, old))

AdvanceInv ==
  \A c \in Cells :
    /\ Advanced(committed.silver[c], saved.version[c])
    /\ Advanced(saved.version[c], live.version[c])

IInv == TypeOK /\ EvidenceInv /\ SilverInv /\ NewestInv /\ AdvanceInv

-----------------------------------------------------------------------------
(* Evidence *)

(* A message, its topic and the counts of it. *)
LEMMA MessageFacts ==
  ASSUME TypeOK, NEW id \in Messages
  PROVE  /\ id[1] \in Topics /\ id[2] \in Nat /\ id[2] \in 1 .. Len(log[id[1]])
         /\ id = <<id[1], id[2]>>
         /\ live.offset[id[1]] \in Nat /\ saved.offset[id[1]] \in Nat
         /\ saved.offset[id[1]] <= live.offset[id[1]]
         /\ \A x \in {pending, staged, committed} :
              x.bronze[id] \in Nat /\ x.quarantine[id] \in Nat
<1>1. PICK t \in Topics : \E n \in 1 .. Len(log[t]) : id = <<t, n>>
  BY DEF Messages
<1>2. log[t] \in Seq(Event \cup Other)
  BY <1>1, LogsAssumption DEF TypeOK
<1>3. live.offset \in [Topics -> Nat] /\ saved.offset \in [Topics -> Nat]
  BY ProgressParts DEF TypeOK
<1>4. /\ pending.bronze \in Counts /\ pending.quarantine \in Counts
      /\ staged.bronze \in Counts /\ staged.quarantine \in Counts
      /\ committed.bronze \in Counts /\ committed.quarantine \in Counts
  BY OutputParts DEF TypeOK
<1>5. id[1] = t /\ id[2] \in 1 .. Len(log[t]) /\ id = <<id[1], id[2]>>
  BY <1>1
<1>6. Len(log[t]) \in Nat
  BY <1>2
<1>7. saved.offset[t] <= live.offset[t]
  BY <1>1 DEF TypeOK
<1> QED
  BY <1>1, <1>3, <1>4, <1>5, <1>6, <1>7 DEF Counts

(* Nothing is read and nothing is written at first. *)
LEMMA InitEvidence == ASSUME Init PROVE EvidenceInv
<1>1. TypeOK
  BY InitType
<1>2. SUFFICES ASSUME NEW id \in Messages
               PROVE  /\ Covered(live, id) = 0 /\ Covered(saved, id) = 0
                      /\ committed.bronze[id] = 0 /\ staged.bronze[id] = 0
                      /\ pending.bronze[id] = 0
                      /\ committed.quarantine[id] = 0 /\ staged.quarantine[id] = 0
                      /\ pending.quarantine[id] = 0
  BY DEF EvidenceInv, Rejected
<1>3. id[1] \in Topics /\ id[2] \in 1 .. Len(log[id[1]]) /\ id[2] \in Nat
  BY <1>1, MessageFacts
<1>4. Covered(live, id) = 0 /\ Covered(saved, id) = 0
  BY <1>3 DEF Init, Covered
<1>5. /\ committed.bronze = Empty.bronze /\ committed.quarantine = Empty.quarantine
      /\ pending = Empty /\ staged = Empty
  BY DEF Init, Empty
<1> QED
  BY <1>4, <1>5, EmptyParts

(* A message that is processed becomes pending evidence once. *)
LEMMA ProcessEvidence ==
  ASSUME TypeOK, EvidenceInv, NEW t \in Topics, Process(t)
  PROVE  EvidenceInv'
<1>1. /\ Messages' = Messages /\ log' = log /\ saved' = saved /\ staged' = staged
      /\ committed' = committed
  BY SameLog DEF Process
<1>2. SUFFICES ASSUME NEW id \in Messages
               PROVE  /\ pending'.bronze[id] = Covered(live', id) - Covered(saved, id)
                      /\ pending'.quarantine[id]
                           = Rejected(id, Covered(live', id) - Covered(saved, id))
  BY <1>1 DEF EvidenceInv, Rejected, MessageAt, Covered
<1>3. /\ pending.bronze[id] = Covered(live, id) - Covered(saved, id)
      /\ pending.quarantine[id] = Rejected(id, Covered(live, id) - Covered(saved, id))
  BY DEF EvidenceInv
<1>4. /\ live.offset \in [Topics -> Nat]
      /\ pending.bronze \in [Messages -> Nat] /\ pending.quarantine \in [Messages -> Nat]
  BY ProgressParts, OutputParts DEF TypeOK, Counts
<1>5. NextId(t) \in Messages /\ MessageAt(NextId(t)) = NextMessage(t)
  BY NextFacts DEF Process
<1>6. /\ live'.offset = [live.offset EXCEPT ![t] = Next1(t)]
      /\ pending'.bronze = [pending.bronze EXCEPT ![NextId(t)] = @ + 1]
      /\ pending'.quarantine =
           IF NextMessage(t).kind = "invalid"
           THEN [pending.quarantine EXCEPT ![NextId(t)] = @ + 1]
           ELSE pending.quarantine
  BY ProcessEffect
<1>7. id[1] \in Topics /\ id[2] \in Nat /\ id = <<id[1], id[2]>>
      /\ saved.offset[id[1]] \in Nat /\ saved.offset[id[1]] <= live.offset[id[1]]
      /\ pending.bronze[id] \in Nat /\ pending.quarantine[id] \in Nat
  BY MessageFacts
<1>8. CASE id = NextId(t)
  <2>1. id[1] = t /\ id[2] = live.offset[t] + 1
    BY <1>8 DEF NextId, Next1
  <2>2. Covered(live', id) = 1 /\ Covered(live, id) = 0 /\ Covered(saved, id) = 0
    BY <1>4, <1>6, <1>7, <2>1 DEF Covered, Next1
  <2>3. pending'.bronze[id] = 1
    BY <1>3, <1>4, <1>5, <1>6, <1>8, <2>2
  <2>4. pending'.quarantine[id] = IF MessageAt(id).kind = "invalid" THEN 1 ELSE 0
    BY <1>3, <1>4, <1>5, <1>6, <1>8, <2>2 DEF Rejected
  <2> QED
    BY <2>2, <2>3, <2>4 DEF Rejected
<1>9. CASE id # NextId(t)
  <2>1. Covered(live', id) = Covered(live, id)
    BY <1>4, <1>6, <1>7, <1>9 DEF Covered, Next1, NextId
  <2>2. pending'.bronze[id] = pending.bronze[id]
    BY <1>4, <1>5, <1>6, <1>9
  <2>3. pending'.quarantine[id] = pending.quarantine[id]
    BY <1>4, <1>5, <1>6, <1>9
  <2> QED
    BY <1>3, <2>1, <2>2, <2>3
<1> QED
  BY <1>8, <1>9

(* A checkpoint moves the pending evidence under its cover. *)
LEMMA CheckpointEvidence ==
  ASSUME TypeOK, EvidenceInv, Checkpoint
  PROVE  EvidenceInv'
<1>1. /\ Messages' = Messages /\ log' = log /\ saved' = live /\ live' = live
      /\ pending' = Empty /\ committed' = committed
  BY SameLog DEF Checkpoint
<1>2. SUFFICES ASSUME NEW id \in Messages
               PROVE  /\ committed.bronze[id] + staged'.bronze[id] = Covered(live, id)
                      /\ committed.quarantine[id] + staged'.quarantine[id]
                           = Rejected(id, Covered(live, id))
                      /\ pending'.bronze[id] = 0 /\ pending'.quarantine[id] = 0
                      /\ Covered(live, id) \in Nat
  BY <1>1 DEF EvidenceInv, Rejected, MessageAt, Covered
<1>3. /\ committed.bronze[id] + staged.bronze[id] = Covered(saved, id)
      /\ pending.bronze[id] = Covered(live, id) - Covered(saved, id)
      /\ committed.quarantine[id] + staged.quarantine[id] = Rejected(id, Covered(saved, id))
      /\ pending.quarantine[id] = Rejected(id, Covered(live, id) - Covered(saved, id))
  BY DEF EvidenceInv
<1>4. /\ staged'.bronze = Plus("bronze", staged.bronze, pending.bronze)
      /\ staged'.quarantine = Plus("quarantine", staged.quarantine, pending.quarantine)
  BY CheckpointEffect
<1>5. /\ staged'.bronze[id] = staged.bronze[id] + pending.bronze[id]
      /\ staged'.quarantine[id] = staged.quarantine[id] + pending.quarantine[id]
  <2>1. /\ staged.bronze \in Counts /\ staged.quarantine \in Counts
        /\ pending.bronze \in Counts /\ pending.quarantine \in Counts
    BY OutputParts DEF TypeOK
  <2> QED
    BY <1>4, <2>1, PlusCounts
<1>6. \A x \in {pending, staged, committed} :
        x.bronze[id] \in Nat /\ x.quarantine[id] \in Nat
  BY MessageFacts
<1>7. Covered(live, id) \in 0 .. 1 /\ Covered(saved, id) \in 0 .. 1
  BY DEF Covered
<1>8. pending'.bronze[id] = 0 /\ pending'.quarantine[id] = 0
  BY <1>1, EmptyParts
<1>9. /\ pending.bronze[id] \in Nat /\ staged.bronze[id] \in Nat
      /\ committed.bronze[id] \in Nat /\ pending.quarantine[id] \in Nat
      /\ staged.quarantine[id] \in Nat /\ committed.quarantine[id] \in Nat
  BY <1>6
<1>10. committed.bronze[id] + staged'.bronze[id] = Covered(live, id)
  BY <1>3, <1>5, <1>7, <1>9
<1>11. committed.quarantine[id] + staged'.quarantine[id] = Rejected(id, Covered(live, id))
  <2>1. CASE MessageAt(id).kind = "invalid"
    BY <1>3, <1>5, <1>7, <1>9, <2>1 DEF Rejected
  <2>2. CASE MessageAt(id).kind # "invalid"
    BY <1>3, <1>5, <1>9, <2>2 DEF Rejected
  <2> QED
    BY <2>1, <2>2
<1> QED
  BY <1>7, <1>8, <1>10, <1>11

(* A commit moves staged evidence to what readers see. *)
LEMMA CommitEvidence ==
  ASSUME TypeOK, EvidenceInv, NEW s \in Sinks, Commit(s)
  PROVE  EvidenceInv'
<1>1. /\ Messages' = Messages /\ log' = log /\ saved' = saved /\ live' = live
      /\ pending' = pending
  BY SameLog DEF Commit
<1>2. SUFFICES ASSUME NEW id \in Messages
               PROVE  /\ committed'.bronze[id] + staged'.bronze[id]
                           = committed.bronze[id] + staged.bronze[id]
                      /\ committed'.quarantine[id] + staged'.quarantine[id]
                           = committed.quarantine[id] + staged.quarantine[id]
  BY <1>1 DEF EvidenceInv, Rejected, MessageAt, Covered
<1>3. /\ staged.bronze \in Counts /\ staged.quarantine \in Counts
      /\ committed.bronze \in Counts /\ committed.quarantine \in Counts
  BY OutputParts DEF TypeOK
<1>4. \A x \in {pending, staged, committed} :
        x.bronze[id] \in Nat /\ x.quarantine[id] \in Nat
  BY MessageFacts
<1>5. CASE s = "bronze"
  <2>1. /\ committed'.bronze = Plus("bronze", committed.bronze, staged.bronze)
        /\ staged'.bronze = Empty.bronze
        /\ committed'.quarantine = committed.quarantine
        /\ staged'.quarantine = staged.quarantine
    BY <1>5, CommitEffect
  <2> QED
    BY <1>3, <1>4, <2>1, PlusCounts, EmptyParts
<1>6. CASE s = "quarantine"
  <2>1. /\ committed'.quarantine = Plus("quarantine", committed.quarantine, staged.quarantine)
        /\ staged'.quarantine = Empty.quarantine
        /\ committed'.bronze = committed.bronze
        /\ staged'.bronze = staged.bronze
    BY <1>6, CommitEffect
  <2> QED
    BY <1>3, <1>4, <2>1, PlusCounts, EmptyParts
<1>7. CASE s = "silver"
  BY <1>7, CommitEffect
<1> QED
  BY <1>5, <1>6, <1>7 DEF Sinks

(* A failure goes back to the checkpoint or leaves all as it was. *)
LEMMA FailEffect ==
  ASSUME Fail
  PROVE  /\ log' = log /\ saved' = saved /\ staged' = staged /\ committed' = committed
         /\ \/ live' = saved /\ pending' = Empty
            \/ live' = live /\ pending' = pending
  BY DEF Fail, Restore

(* What a failure forgets is what it will read again. *)
LEMMA FailEvidence == ASSUME TypeOK, EvidenceInv, Fail PROVE EvidenceInv'
<1>1. CASE live' = live /\ pending' = pending
  BY <1>1, FailEffect, SameLog DEF EvidenceInv, Rejected, MessageAt, Covered
<1>2. CASE live' = saved /\ pending' = Empty
  <2>1. SUFFICES ASSUME NEW id \in Messages
                 PROVE  /\ pending'.bronze[id] = 0 /\ pending'.quarantine[id] = 0
                        /\ Covered(saved, id) \in Nat
    BY <1>2, FailEffect, SameLog DEF EvidenceInv, Rejected, MessageAt, Covered
  <2> QED
    BY <1>2, EmptyParts DEF Covered
<1> QED
  BY <1>1, <1>2, FailEffect

-----------------------------------------------------------------------------
(* Silver *)

(* The rows and versions of a cell are events or nothing. *)
LEMMA CellFacts ==
  ASSUME TypeOK, NEW c \in Cells
  PROVE  /\ None # NoChange /\ None \notin Events /\ NoChange \notin Events
         /\ live.version[c] \in Events \cup {None} /\ live.current[c] \in Events \cup {None}
         /\ saved.version[c] \in Events \cup {None} /\ saved.current[c] \in Events \cup {None}
         /\ committed.silver[c] \in Events \cup {None}
<1>1. /\ live.version \in [Cells -> Events \cup {None}]
      /\ live.current \in [Cells -> Events \cup {None}]
      /\ saved.version \in [Cells -> Events \cup {None}]
      /\ saved.current \in [Cells -> Events \cup {None}]
  BY ProgressParts DEF TypeOK
<1>2. committed.silver \in [Cells -> Events \cup {None, NoChange}]
      /\ committed.silver[c] # NoChange
  BY OutputParts DEF TypeOK, Changes
<1> QED
  BY <1>1, <1>2, NoneAssumption, EventsAreEvents

(* Silver is empty at first, as the state is. *)
LEMMA InitSilver == ASSUME Init PROVE SilverInv
<1>1. SUFFICES ASSUME NEW c \in Cells
               PROVE  /\ committed.silver[c] = None /\ staged.silver[c] = NoChange
                      /\ pending.silver[c] = NoChange
                      /\ saved.current[c] = None /\ live.current[c] = None
  BY DEF SilverInv, Over
<1>2. committed.silver = [d \in Cells |-> None] /\ pending = Empty /\ staged = Empty
  BY DEF Init, Empty
<1>3. saved.current[c] = None /\ live.current[c] = None
  BY DEF Init
<1> QED
  BY <1>2, <1>3, EmptyParts

(* The pending change of a cell follows its live row. *)
LEMMA ProcessSilver ==
  ASSUME TypeOK, SilverInv, NEW t \in Topics, Process(t)
  PROVE  SilverInv'
<1>1. saved' = saved /\ staged' = staged /\ committed' = committed
  BY DEF Process
<1>2. SUFFICES ASSUME NEW c \in Cells
               PROVE  Over(saved.current[c], pending'.silver[c]) = live'.current[c]
  BY <1>1 DEF SilverInv
<1>3. Over(saved.current[c], pending.silver[c]) = live.current[c]
  BY DEF SilverInv
<1>4. CASE PassedOver(t)
  BY <1>3, <1>4 DEF PassedOver
<1>5. CASE Applied(t)
  <2> DEFINE e == NextMessage(t)
             d == KeyIdentity(t, e)
             row == RowOf(e)
  <2>1. d \in Cells /\ e \in Events
    BY <1>5, NextFacts DEF Applied, Process
  <2>2. row # NoChange /\ (e.op = "d" => row = None)
    BY <2>1, CellFacts DEF RowOf
  <2>3. /\ live'.current = [live.current EXCEPT ![d] = row]
        /\ pending'.silver = [pending.silver EXCEPT ![d] =
                                IF e.op = "d" /\ live.current[d] = None THEN @ ELSE row]
    BY <1>5 DEF Applied
  <2>4. /\ live.current \in [Cells -> Events \cup {None}]
        /\ pending.silver \in [Cells -> Events \cup {None, NoChange}]
    BY ProgressParts, OutputParts DEF TypeOK, Changes
  <2> HIDE DEF e, d, row
  <2>5. CASE c # d
    BY <1>3, <2>3, <2>4, <2>5
  <2>6. CASE c = d /\ e.op = "d" /\ live.current[d] = None
    BY <1>3, <2>1, <2>2, <2>3, <2>4, <2>6
  <2>7. CASE c = d /\ ~ (e.op = "d" /\ live.current[d] = None)
    <3>1. pending'.silver[c] = row /\ live'.current[c] = row
      BY <2>1, <2>3, <2>4, <2>7
    <3> QED
      BY <2>2, <3>1 DEF Over
  <2> QED
    BY <2>5, <2>6, <2>7
<1> QED
  BY <1>4, <1>5, ProcessEffect

(* A checkpoint stages the changes that lead to its rows. *)
LEMMA CheckpointSilver ==
  ASSUME TypeOK, SilverInv, Checkpoint
  PROVE  SilverInv'
<1>1. saved' = live /\ live' = live /\ pending' = Empty /\ committed' = committed
  BY DEF Checkpoint
<1>2. SUFFICES ASSUME NEW c \in Cells
               PROVE  /\ Over(committed.silver[c], staged'.silver[c]) = live.current[c]
                      /\ pending'.silver[c] = NoChange
  BY <1>1 DEF SilverInv, Over
<1>3. /\ Over(committed.silver[c], staged.silver[c]) = saved.current[c]
      /\ Over(saved.current[c], pending.silver[c]) = live.current[c]
  BY DEF SilverInv
<1>4. staged'.silver = Plus("silver", staged.silver, pending.silver)
  BY CheckpointEffect
<1>5. staged.silver \in Changes /\ pending.silver \in Changes
  BY OutputParts DEF TypeOK
<1>6. staged'.silver[c] = IF pending.silver[c] = NoChange THEN staged.silver[c]
                          ELSE pending.silver[c]
  BY <1>4, <1>5, PlusChanges
<1> QED
  BY <1>1, <1>3, <1>6, EmptyParts DEF Over

(* A commit brings Silver to the checkpoint's rows, or leaves it. *)
LEMMA CommitSilver ==
  ASSUME TypeOK, SilverInv, NEW s \in Sinks, Commit(s)
  PROVE  SilverInv' /\ \A c \in Cells :
           committed'.silver[c] \in {committed.silver[c], saved.current[c]}
<1>1. saved' = saved /\ live' = live /\ pending' = pending
  BY DEF Commit
<1>2. SUFFICES ASSUME NEW c \in Cells
               PROVE  /\ Over(committed'.silver[c], staged'.silver[c])
                           = Over(committed.silver[c], staged.silver[c])
                      /\ committed'.silver[c] \in {committed.silver[c], saved.current[c]}
  BY <1>1 DEF SilverInv
<1>3. CASE s = "silver"
  <2>1. /\ committed'.silver = Plus("silver", committed.silver, staged.silver)
        /\ staged'.silver = Empty.silver
    BY <1>3, CommitEffect
  <2>2. staged.silver \in Changes /\ committed.silver \in Changes
    BY OutputParts DEF TypeOK
  <2>3. committed'.silver[c] = Over(committed.silver[c], staged.silver[c])
    BY <2>1, <2>2, PlusChanges DEF Over
  <2>4. staged'.silver[c] = NoChange
    BY <2>1, EmptyParts
  <2> QED
    BY <2>3, <2>4 DEF Over, SilverInv
<1>4. CASE s # "silver"
  BY <1>4, CommitEffect
<1> QED
  BY <1>3, <1>4

(* A failure goes back to the rows that Silver will reach. *)
LEMMA FailSilver == ASSUME TypeOK, SilverInv, Fail PROVE SilverInv'
<1>1. CASE live' = live /\ pending' = pending
  BY <1>1, FailEffect DEF SilverInv
<1>2. CASE live' = saved /\ pending' = Empty
  BY <1>2, FailEffect, EmptyParts DEF SilverInv, Over
<1> QED
  BY <1>1, <1>2, FailEffect

-----------------------------------------------------------------------------
(* Keyed state *)

(* What it means that a cell has seen an event. *)
LEMMA SeenMember ==
  ASSUME NEW l, NEW c, NEW o, NEW x
  PROVE  x \in SeenIn(l, c, o) <=>
           \E n \in 1 .. o[c[1]] :
             x = l[c[1]][n] /\ l[c[1]][n].kind = "event" /\ l[c[1]][n].key = c[2]
  BY DEF SeenIn

(* What one message adds to the events of a cell. *)
LEMMA SeenGrows ==
  ASSUME TypeOK, NEW t \in Topics, Process(t), NEW c \in Cells
  PROVE  LET e == NextMessage(t)
         IN SeenIn(log, c, live'.offset) =
              IF c[1] = t /\ e.kind = "event" /\ e.key = c[2]
              THEN SeenIn(log, c, live.offset) \cup {e} ELSE SeenIn(log, c, live.offset)
<1> DEFINE o == live.offset
           o1 == live'.offset
           e == NextMessage(t)
           Has(n, x) == x = log[c[1]][n] /\ log[c[1]][n].kind = "event" /\ log[c[1]][n].key = c[2]
<1>1. o \in [Topics -> Nat] /\ c[1] \in Topics
  BY ProgressParts DEF TypeOK, Cells
<1>2. o1 = [o EXCEPT ![t] = o[t] + 1] /\ e = log[t][o[t] + 1]
  BY ProcessEffect DEF Next1, NextMessage
<1>3. \A x : x \in SeenIn(log, c, o) <=> \E n \in 1 .. o[c[1]] : Has(n, x)
  BY DEF SeenIn
<1>4. \A x : x \in SeenIn(log, c, o1) <=> \E n \in 1 .. o1[c[1]] : Has(n, x)
  BY DEF SeenIn
<1> HIDE DEF o, o1, e, Has
<1>5. o1[c[1]] = IF c[1] = t THEN o[t] + 1 ELSE o[c[1]]
  BY <1>1, <1>2
<1>6. CASE c[1] # t
  <2>1. o1[c[1]] = o[c[1]]
    BY <1>5, <1>6
  <2>2. \A x : x \in SeenIn(log, c, o1) <=> x \in SeenIn(log, c, o)
    BY <1>3, <1>4, <2>1
  <2> QED
    BY <1>6, <2>2 DEF o, o1, e
<1>7. CASE c[1] = t
  <2>1. o1[c[1]] = o[c[1]] + 1 /\ o[c[1]] \in Nat
    BY <1>1, <1>5, <1>7
  <2>2. \A n : n \in 1 .. o1[c[1]] <=> n \in 1 .. o[c[1]] \/ n = o[c[1]] + 1
    BY <2>1
  <2>3. \A x : Has(o[c[1]] + 1, x) <=> x = e /\ e.kind = "event" /\ e.key = c[2]
    BY <1>2, <1>7 DEF Has
  <2>4. \A x : x \in SeenIn(log, c, o1) <=>
                 \/ x \in SeenIn(log, c, o)
                 \/ x = e /\ e.kind = "event" /\ e.key = c[2]
    BY <1>3, <1>4, <2>2, <2>3
  <2>5. SeenIn(log, c, o1) = IF e.kind = "event" /\ e.key = c[2]
                             THEN SeenIn(log, c, o) \cup {e} ELSE SeenIn(log, c, o)
    BY <2>4
  <2> QED
    BY <1>7, <2>5 DEF o, o1, e
<1> QED
  BY <1>6, <1>7

(* What a cell has seen are events. *)
LEMMA SeenAreEvents ==
  ASSUME TypeOK, NEW c \in Cells
  PROVE  SeenIn(log, c, live.offset) \subseteq Event
<1>1. c[1] \in Topics
  BY DEF Cells
<1>2. log[c[1]] \in Seq(Event \cup Other) /\ live.offset[c[1]] <= Len(log[c[1]])
  BY <1>1, LogsAssumption DEF TypeOK
<1>3. live.offset[c[1]] \in Nat
  BY <1>1, ProgressParts DEF TypeOK
<1>4. SUFFICES ASSUME NEW x \in SeenIn(log, c, live.offset) PROVE x \in Event
  OBVIOUS
<1>5. PICK n \in 1 .. live.offset[c[1]] : x = log[c[1]][n] /\ log[c[1]][n].kind = "event"
  BY SeenMember
<1>6. n \in 1 .. Len(log[c[1]])
  BY <1>2, <1>3
<1>7. x \in Event \cup Other
  BY <1>2, <1>5, <1>6
<1> QED
  BY <1>5, <1>7 DEF Other, Raising

(* Nothing seen, no version. *)
LEMMA InitNewest == ASSUME Init PROVE NewestInv
<1>1. SUFFICES ASSUME NEW c \in Cells
               PROVE  /\ SeenIn(log, c, live.offset) = {}
                      /\ live.version[c] = None /\ live.current[c] = None /\ saved = live
  BY DEF NewestInv, NewestIn, RowOf
<1>2. live.version[c] = None /\ live.current[c] = None /\ saved = live
  BY DEF Init
<1>3. live.offset[c[1]] = 0
  BY DEF Init, Cells
<1> QED
  BY <1>2, <1>3, SeenMember

(* The version of a cell stays the newest event it has seen. *)
LEMMA ProcessNewest ==
  ASSUME TypeOK, NewestInv, NEW t \in Topics, Process(t)
  PROVE  NewestInv'
<1> DEFINE e == NextMessage(t)
           d == KeyIdentity(t, e)
<1>1. log' = log /\ saved' = saved
  BY DEF Process
<1>2. SUFFICES ASSUME NEW c \in Cells PROVE NewestIn(log, live', c)
  BY <1>1 DEF NewestInv
<1>3. NewestIn(log, live, c)
  BY DEF NewestInv
<1>4. /\ live.offset \in [Topics -> Nat]
      /\ live.version \in [Cells -> Events \cup {None}]
      /\ live.current \in [Cells -> Events \cup {None}]
  BY ProgressParts DEF TypeOK
<1>5. live'.offset = [live.offset EXCEPT ![t] = live.offset[t] + 1]
  BY ProcessEffect DEF Next1
<1>6. e.kind = "event" => e \in Event /\ e \in Events /\ d \in Cells
  BY NextFacts DEF Process
<1>7. SeenIn(log, c, live'.offset) =
        IF c[1] = t /\ e.kind = "event" /\ e.key = c[2]
        THEN SeenIn(log, c, live.offset) \cup {e} ELSE SeenIn(log, c, live.offset)
  BY SeenGrows
<1>8. c[1] = t /\ e.key = c[2] <=> c = d
  BY DEF Cells, KeyIdentity
<1> HIDE DEF e, d
<1>9. CASE PassedOver(t)
  <2>1. live'.version = live.version /\ live'.current = live.current
    BY <1>9 DEF PassedOver
  <2>2. e.kind = "event" => ~ Newer(e, live.version[d])
    BY <1>9 DEF PassedOver, e, d
  <2> QED
    BY <1>3, <1>7, <1>8, <2>1, <2>2 DEF NewestIn
<1>10. CASE Applied(t)
  <2>1. /\ e.kind = "event" /\ Newer(e, live.version[d])
        /\ live'.version = [live.version EXCEPT ![d] = e]
        /\ live'.current = [live.current EXCEPT ![d] = RowOf(e)]
    BY <1>10 DEF Applied, e, d
  <2>2. CASE c # d
    <3>1. live'.version[c] = live.version[c] /\ live'.current[c] = live.current[c]
      BY <1>4, <2>1, <2>2
    <3> QED
      BY <1>3, <1>7, <1>8, <2>2, <3>1 DEF NewestIn
  <2>3. CASE c = d
    <3>1. live'.version[c] = e /\ live'.current[c] = RowOf(e)
      BY <1>4, <1>6, <2>1, <2>3
    <3>2. SeenIn(log, c, live'.offset) = SeenIn(log, c, live.offset) \cup {e}
      BY <1>7, <1>8, <2>1, <2>3
    <3>3. live.version[c] \in Event \cup {None}
      BY CellFacts, EventsAreEvents
    <3>4. ASSUME NEW x \in SeenIn(log, c, live.offset) PROVE ~ Newer(x, e)
      <4>1. ~ Newer(x, live.version[c]) /\ x \in Event
        BY <1>3, SeenAreEvents DEF NewestIn
      <4> QED
        BY <1>6, <2>1, <2>3, <3>3, <4>1, OldStaysOld
    <3>5. ~ Newer(e, e)
      BY <1>6, <2>1, NotNewerThanItself
    <3> QED
      BY <3>1, <3>2, <3>4, <3>5 DEF NewestIn
  <2> QED
    BY <2>2, <2>3
<1> QED
  BY <1>9, <1>10, ProcessEffect

(* Checkpoints and failures copy states of which that is true. *)
LEMMA OtherNewest ==
  ASSUME NewestInv, log' = log, live' \in {live, saved}, saved' \in {live, saved}
  PROVE  NewestInv'
  BY DEF NewestInv

-----------------------------------------------------------------------------
(* Versions only advance *)

(* Advancing twice is advancing. *)
LEMMA AdvancedTransitive ==
  ASSUME TypeOK, NEW a \in Events \cup {None}, NEW b \in Events \cup {None},
         NEW c \in Events \cup {None}, Advanced(a, b), Advanced(b, c)
  PROVE  Advanced(a, c)
<1>1. CASE a = None \/ a = b \/ b = c
  BY <1>1 DEF Advanced
<1>2. CASE a # None /\ a # b /\ b # c
  <2>1. /\ b # None /\ c # None /\ Newer(b, a) /\ Newer(c, b)
    BY <1>2 DEF Advanced
  <2>2. a \in Event /\ b \in Event /\ c \in Event
    BY <1>2, <2>1, EventsAreEvents
  <2> QED
    BY <2>1, <2>2, NewerTransitive DEF Advanced
<1> QED
  BY <1>1, <1>2

(* Nothing is ahead of anything at first. *)
LEMMA InitAdvance == ASSUME Init PROVE AdvanceInv
  BY DEF Init, AdvanceInv, Advanced

(* A live version advances beyond the checkpoint. *)
LEMMA ProcessAdvance ==
  ASSUME TypeOK, AdvanceInv, NEW t \in Topics, Process(t)
  PROVE  AdvanceInv'
<1>1. saved' = saved /\ committed' = committed
  BY DEF Process
<1>2. SUFFICES ASSUME NEW c \in Cells PROVE Advanced(saved.version[c], live'.version[c])
  BY <1>1 DEF AdvanceInv
<1>3. Advanced(saved.version[c], live.version[c])
  BY DEF AdvanceInv
<1>4. CASE PassedOver(t)
  BY <1>3, <1>4 DEF PassedOver
<1>5. CASE Applied(t)
  <2> DEFINE e == NextMessage(t)
             d == KeyIdentity(t, e)
  <2>1. /\ e.kind = "event" /\ Newer(e, live.version[d])
        /\ live'.version = [live.version EXCEPT ![d] = e]
    BY <1>5 DEF Applied
  <2>2. d \in Cells /\ e \in Events
    BY <2>1, NextFacts DEF Process
  <2>3. live.version \in [Cells -> Events \cup {None}]
    BY ProgressParts DEF TypeOK
  <2> HIDE DEF e, d
  <2>4. CASE c # d
    BY <1>3, <2>1, <2>3, <2>4
  <2>5. CASE c = d
    <3>1. live'.version[c] = e
      BY <2>1, <2>2, <2>3, <2>5
    <3>2. Advanced(live.version[c], e)
      BY <2>1, <2>2, <2>5, CellFacts DEF Advanced
    <3> QED
      BY <1>3, <2>2, <3>1, <3>2, AdvancedTransitive, CellFacts
  <2> QED
    BY <2>4, <2>5
<1> QED
  BY <1>4, <1>5, ProcessEffect

(* A checkpoint takes over the advanced versions. *)
LEMMA CheckpointAdvance ==
  ASSUME TypeOK, AdvanceInv, Checkpoint
  PROVE  AdvanceInv'
<1>1. saved' = live /\ live' = live /\ committed' = committed
  BY DEF Checkpoint
<1>2. SUFFICES ASSUME NEW c \in Cells
               PROVE  /\ Advanced(committed.silver[c], live.version[c])
                      /\ Advanced(live.version[c], live.version[c])
  BY <1>1 DEF AdvanceInv
<1>3. /\ Advanced(committed.silver[c], saved.version[c])
      /\ Advanced(saved.version[c], live.version[c])
  BY DEF AdvanceInv
<1> QED
  BY <1>3, AdvancedTransitive, CellFacts DEF Advanced

(* A commit shows nothing but the row of the checkpoint's version. *)
LEMMA CommitAdvance ==
  ASSUME TypeOK, NewestInv, SilverInv, AdvanceInv, NEW s \in Sinks, Commit(s)
  PROVE  /\ AdvanceInv'
         /\ \A c \in Cells :
              committed.silver[c] # None /\ committed'.silver[c] \notin {None, committed.silver[c]}
                => Newer(committed'.silver[c], committed.silver[c])
<1>1. saved' = saved /\ live' = live
  BY DEF Commit
<1>2. SUFFICES ASSUME NEW c \in Cells
               PROVE  /\ Advanced(committed'.silver[c], saved.version[c])
                      /\ committed.silver[c] # None
                         /\ committed'.silver[c] \notin {None, committed.silver[c]}
                         => Newer(committed'.silver[c], committed.silver[c])
  BY <1>1 DEF AdvanceInv
<1>3. Advanced(committed.silver[c], saved.version[c])
  BY DEF AdvanceInv
<1>4. saved.current[c] \in {None, saved.version[c]}
  BY DEF NewestInv, NewestIn, RowOf
<1>5. committed'.silver[c] \in {committed.silver[c], saved.current[c]}
  BY CommitSilver
<1> QED
  BY <1>3, <1>4, <1>5 DEF Advanced

(* A failure goes back to the checkpoint, not behind it. *)
LEMMA FailAdvance == ASSUME AdvanceInv, Fail PROVE AdvanceInv'
  BY FailEffect DEF AdvanceInv, Advanced

-----------------------------------------------------------------------------
(* The invariant is inductive *)

(* The inductive invariant holds initially. *)
LEMMA InitInvariant == Init => IInv
  BY InitType, InitEvidence, InitSilver, InitNewest, InitAdvance DEF IInv

(* Every step keeps the inductive invariant. *)
LEMMA StepInvariant == IInv /\ [Next]_vars => IInv'
<1>1. SUFFICES ASSUME IInv, [Next]_vars PROVE IInv'
  OBVIOUS
<1>2. TypeOK'
  BY <1>1, TypeStep DEF IInv
<1>3. ASSUME NEW t \in Topics, Process(t)
      PROVE  EvidenceInv' /\ SilverInv' /\ NewestInv' /\ AdvanceInv'
  BY <1>1, <1>3, ProcessEvidence, ProcessSilver, ProcessNewest, ProcessAdvance DEF IInv
<1>4. ASSUME Checkpoint
      PROVE  EvidenceInv' /\ SilverInv' /\ NewestInv' /\ AdvanceInv'
  <2>1. log' = log /\ live' = live /\ saved' = live
    BY <1>4 DEF Checkpoint
  <2> QED
    BY <1>1, <1>4, <2>1, CheckpointEvidence, CheckpointSilver, OtherNewest,
       CheckpointAdvance DEF IInv
<1>5. ASSUME NEW s \in Sinks, Commit(s)
      PROVE  EvidenceInv' /\ SilverInv' /\ NewestInv' /\ AdvanceInv'
  <2>1. log' = log /\ live' = live /\ saved' = saved
    BY <1>5 DEF Commit
  <2> QED
    BY <1>1, <1>5, <2>1, CommitEvidence, CommitSilver, OtherNewest, CommitAdvance DEF IInv
<1>6. ASSUME Fail
      PROVE  EvidenceInv' /\ SilverInv' /\ NewestInv' /\ AdvanceInv'
  <2>1. log' = log /\ live' \in {live, saved} /\ saved' = saved
    BY <1>6, FailEffect
  <2> QED
    BY <1>1, <1>6, <2>1, FailEvidence, FailSilver, OtherNewest, FailAdvance DEF IInv
<1>7. ASSUME UNCHANGED vars
      PROVE  EvidenceInv' /\ SilverInv' /\ NewestInv' /\ AdvanceInv'
  <2>1. /\ log' = log /\ live' = live /\ saved' = saved /\ pending' = pending
        /\ staged' = staged /\ committed' = committed
    BY <1>7 DEF vars
  <2>2. EvidenceInv'
    BY <1>1, <2>1, SameLog DEF IInv, EvidenceInv, Rejected, MessageAt, Covered
  <2> QED
    BY <1>1, <2>1, <2>2 DEF IInv, SilverInv, NewestInv, AdvanceInv
<1> QED
  BY <1>1, <1>2, <1>3, <1>4, <1>5, <1>6, <1>7 DEF Next, Crash, Raise, IInv

(* The inductive invariant holds in every reachable state. *)
LEMMA InvariantHolds == Spec => []IInv
  BY InitInvariant, StepInvariant, PTL DEF Spec

-----------------------------------------------------------------------------
(* Evidence of every message covered by a checkpoint is in Bronze, and in  *)
(* quarantine if it was rejected, exactly once, over any failures.         *)
THEOREM EvidenceIsExactlyOnce == Spec => []EvidenceExactlyOnce
<1>1. IInv => EvidenceExactlyOnce
  BY DEF IInv, EvidenceInv, EvidenceExactlyOnce, Covered, Rejected
<1> QED
  BY <1>1, InvariantHolds, PTL

(* Silver with what is staged for it is the state of the last checkpoint. *)
THEOREM SilverFollowsState == Spec => []SilverIsState
<1>1. ASSUME IInv PROVE SilverIsState
  <2>1. /\ committed.silver \in Changes /\ staged.silver \in Changes
        /\ saved.current \in [Cells -> Events \cup {None}]
    BY <1>1, OutputParts, ProgressParts DEF IInv, TypeOK
  <2>2. ASSUME NEW c \in Cells
        PROVE  (IF staged.silver[c] = NoChange THEN committed.silver[c] ELSE staged.silver[c])
                 = saved.current[c]
    BY <1>1 DEF IInv, SilverInv, Over
  <2>3. Plus("silver", committed.silver, staged.silver) = [c \in Cells |-> saved.current[c]]
    BY <2>2 DEF Plus
  <2> QED
    BY <2>1, <2>3 DEF SilverIsState
<1> QED
  BY <1>1, InvariantHolds, PTL

(* No event read for a cell is newer than its version, in the running job  *)
(* and in its checkpoint.                                                  *)
THEOREM NewestVersionWins == Spec => []StateIsNewest
<1>1. IInv => StateIsNewest
  BY DEF IInv, NewestInv, NewestIn, SeenIn, StateIsNewest, Seen, RowOf
<1> QED
  BY <1>1, InvariantHolds, PTL

(* A row readers of Silver see is only replaced by a newer one, although   *)
(* messages are read again after every restart.                            *)
THEOREM SilverAdvances == Spec => CommittedAdvances
<1> DEFINE Advances ==
      \A c \in Cells :
        committed.silver[c] # None /\ committed'.silver[c] \notin {None, committed.silver[c]}
          => Newer(committed'.silver[c], committed.silver[c])
<1>1. IInv /\ [Next]_vars => [Advances]_vars
  <2>1. SUFFICES ASSUME IInv, Next PROVE Advances
    OBVIOUS
  <2>2. CASE committed' = committed
    BY <2>2
  <2>3. ASSUME NEW s \in Sinks, Commit(s) PROVE Advances
    BY <2>1, <2>3, CommitAdvance DEF IInv
  <2> QED
    BY <2>1, <2>2, <2>3 DEF Next, Process, Raise, Crash, Fail, Checkpoint
<1> QED
  BY <1>1, InvariantHolds, PTL DEF Spec, CommittedAdvances
===============================================================================

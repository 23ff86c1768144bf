------------------------------ MODULE CommitOnce ------------------------------
(***************************************************************************)
(* What manifest-last publication promises for one logical run identity:   *)
(* a write-once register.  At most one payload is ever committed, at most  *)
(* one call is told that it published, and every call that is told of      *)
(* success offered the committed source content and is given the committed *)
(* checksum.  A commit may happen without its caller learning of it.       *)
(***************************************************************************)
CONSTANTS
  Contents,  \* source contents: every row field except ingested_at
  Stamps,    \* ingested_at values, the part of the bytes that is not content
  Calls,     \* calls of publish
  Absent     \* nothing committed

VARIABLES
  committed, \* the payload the committed manifest describes, or Absent
  acks       \* history: the successful results that were returned

vars == <<committed, acks>>

Payloads == [content : Contents, stamp : Stamps]

(* A successful result: who called, what it was told, the content it had   *)
(* offered and the payload the result speaks of.                           *)
Ack(call, status, content, payload) ==
  [call |-> call, status |-> status, content |-> content, payload |-> payload]

Init == committed = Absent /\ acks = {}

Publish(call, x) ==
  /\ committed = Absent
  /\ committed' = x
  /\ acks' = acks \cup {Ack(call, "published", x.content, x)}

CommitUnnoticed(x) ==
  /\ committed = Absent
  /\ committed' = x
  /\ UNCHANGED acks

Confirm(call) ==
  /\ committed # Absent
  /\ acks' = acks \cup {Ack(call, "already_published", committed.content, committed)}
  /\ UNCHANGED committed

Next ==
  \/ \E call \in Calls, x \in Payloads : Publish(call, x)
  \/ \E x \in Payloads : CommitUnnoticed(x)
  \/ \E call \in Calls : Confirm(call)

Spec == Init /\ [][Next]_vars
===============================================================================

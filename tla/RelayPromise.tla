---------------------------- MODULE RelayPromise ----------------------------
(***************************************************************************)
(* What the outbox promises whoever enqueues an event: once committed it   *)
(* may be sent any number of times, only until it is marked, and it is     *)
(* marked only after it was sent.  OrderPipeline relays its events this    *)
(* way, and OutboxRelay, with its batches, locks and nudges: both          *)
(* implement it.                                                           *)
(***************************************************************************)
EXTENDS Naturals

CONSTANT Row

VARIABLES
  row,   \* [Row -> "absent", "pending" or "published"]
  sent   \* [Row -> how often the row was sent to the broker]

vars == <<row, sent>>

Init ==
  /\ row = [r \in Row |-> "absent"]
  /\ sent = [r \in Row |-> 0]

Enqueue(r) ==
  /\ row[r] = "absent"
  /\ row' = [row EXCEPT ![r] = "pending"]
  /\ sent' = sent

Send(r) ==
  /\ row[r] = "pending"
  /\ sent' = [sent EXCEPT ![r] = @ + 1]
  /\ row' = row

Mark(rows) ==
  /\ \A r \in rows : row[r] = "pending" /\ sent[r] > 0
  /\ row' = [r \in Row |-> IF r \in rows THEN "published" ELSE row[r]]
  /\ sent' = sent

Next ==
  \/ \E r \in Row : Enqueue(r) \/ Send(r)
  \/ \E rows \in SUBSET Row : Mark(rows)

Spec == Init /\ [][Next]_vars

=============================================================================

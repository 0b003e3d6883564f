---------------------------- MODULE OutboxRelay ----------------------------
(***************************************************************************)
(* The outbox relay of several app instances over one outbox table: the    *)
(* nudge after a commit, the poll, the draining and drainAgain flags, the  *)
(* batch locked with SKIP LOCKED, its publishes one by one and its commit. *)
(*                                                                         *)
(* A row is its place in the order of createdAt, which is when its         *)
(* transaction inserted it: rows may commit in any order.                  *)
(***************************************************************************)
EXTENDS Naturals, FiniteSets

CONSTANTS
  App,             \* app instances, one relay each
  MaxRows,         \* rows that may be written: 1..MaxRows
  BatchSize,       \* RELAY_BATCH_SIZE
  MaxRelayFaults   \* bound on the failures and crashes of a behaviour

OutboxRow == 1..MaxRows

ASSUME RelayAssumption ==
  /\ MaxRows \in Nat /\ BatchSize \in Nat \ {0} /\ MaxRelayFaults \in Nat

VARIABLES
  row,         \* [OutboxRow -> "absent", "pending" (publishedAt null),
               \* "published"]
  sent,        \* [OutboxRow -> how often the row was sent to the broker]
  owed,        \* [App -> commits whose subscriber has not run yet]
  woken,       \* [App -> relay calls handed to setImmediate]
  drainAgain,  \* instances whose flag of that name is set
  drain,       \* [App -> where its relay is]
  locks,       \* [App -> rows its transaction has locked]
  tried,       \* [App -> rows of the batch whose publish has returned]
  done,        \* [App -> those whose publish succeeded]
  relayFaults,
  left         \* history: rows a failure has left to the next poll

batchVars == <<locks, tried, done>>
wakeVars == <<owed, woken, drainAgain>>
relayVars == <<row, sent, wakeVars, drain, batchVars, relayFaults, left>>

Draining(i) == drain[i] # "idle"

RelayInit ==
  /\ row = [r \in OutboxRow |-> "absent"]
  /\ sent = [r \in OutboxRow |-> 0]
  /\ owed = [i \in App |-> 0]
  /\ woken = [i \in App |-> 0]
  /\ drainAgain = {}
  /\ drain = [i \in App |-> "idle"]
  /\ locks = [i \in App |-> {}]
  /\ tried = [i \in App |-> {}]
  /\ done = [i \in App |-> {}]
  /\ relayFaults = 0
  /\ left = {}

(***************************************************************************)
(* Waking up                                                               *)
(***************************************************************************)

\* A transaction of instance i that enqueued row r commits.
Commit(i, r) ==
  /\ row[r] = "absent"
  /\ row' = [row EXCEPT ![r] = "pending"]
  /\ owed' = [owed EXCEPT ![i] = @ + 1]
  /\ UNCHANGED <<sent, woken, drainAgain, drain, batchVars, relayFaults, left>>

\* Seeded fault: a nudge during a drain is dropped.
NudgeUnlessDraining(i) ==
  /\ owed[i] > 0
  /\ owed' = [owed EXCEPT ![i] = @ - 1]
  /\ woken' = IF Draining(i) THEN woken ELSE [woken EXCEPT ![i] = @ + 1]
  /\ UNCHANGED <<row, sent, drainAgain, drain, batchVars, relayFaults, left>>

\* afterTransactionCommit: nudge.
Nudge(i) ==
  /\ owed[i] > 0
  /\ owed' = [owed EXCEPT ![i] = @ - 1]
  /\ \/ /\ Draining(i)
        /\ drainAgain' = drainAgain \cup {i}
        /\ woken' = woken
     \/ /\ ~Draining(i)
        /\ woken' = [woken EXCEPT ![i] = @ + 1]
        /\ drainAgain' = drainAgain
  /\ UNCHANGED <<row, sent, drain, batchVars, relayFaults, left>>

\* relay: nothing if a drain is running.
Start(i) ==
  drain' = IF Draining(i) THEN drain ELSE [drain EXCEPT ![i] = "selecting"]

\* The immediate runs.
Wake(i) ==
  /\ woken[i] > 0
  /\ woken' = [woken EXCEPT ![i] = @ - 1]
  /\ Start(i)
  /\ UNCHANGED <<row, sent, owed, drainAgain, batchVars, relayFaults, left>>

\* The interval timer fires.
Poll(i) ==
  /\ ~Draining(i)
  /\ Start(i)
  /\ UNCHANGED <<row, sent, wakeVars, batchVars, relayFaults, left>>

(***************************************************************************)
(* Draining                                                                *)
(***************************************************************************)

Pending == {r \in OutboxRow : row[r] = "pending"}

\* Seeded fault: no SKIP LOCKED, and no waiting for the lock either.
FreeOrLocked == Pending

\* What FOR UPDATE SKIP LOCKED leaves to choose from.
Free == {r \in Pending : \A j \in App : r \notin locks[j]}

\* ORDER BY createdAt LIMIT RELAY_BATCH_SIZE: all of them, or the oldest.
OldestOf(rows) ==
  {b \in SUBSET rows :
     /\ b = rows \/ Cardinality(b) = BatchSize
     /\ Cardinality(b) <= BatchSize
     /\ \A r \in b, s \in rows \ b : r < s}

\* drainOnce opens its transaction and locks a batch.
Select(i) ==
  /\ drain[i] = "selecting"
  /\ drain' = [drain EXCEPT ![i] = "publishing"]
  /\ \E b \in OldestOf(Free) : locks' = [locks EXCEPT ![i] = b]
  /\ tried' = [tried EXCEPT ![i] = {}]
  /\ done' = [done EXCEPT ![i] = {}]
  /\ UNCHANGED <<row, sent, wakeVars, relayFaults, left>>

\* The oldest row of the batch that is still to be published.
IsNext(i, r) ==
  /\ drain[i] = "publishing"
  /\ r \in locks[i] \ tried[i]
  /\ \A s \in locks[i] \ tried[i] : r <= s

Publish(i, r) ==
  /\ IsNext(i, r)
  /\ sent' = [sent EXCEPT ![r] = @ + 1]
  /\ tried' = [tried EXCEPT ![i] = @ \cup {r}]
  /\ done' = [done EXCEPT ![i] = @ \cup {r}]
  /\ UNCHANGED <<row, wakeVars, drain, locks, relayFaults, left>>

\* The publish rejects and is logged; the broker may have the message.
PublishFails(i, r) ==
  /\ IsNext(i, r)
  /\ relayFaults < MaxRelayFaults
  /\ relayFaults' = relayFaults + 1
  /\ sent' \in {sent, [sent EXCEPT ![r] = @ + 1]}
  /\ tried' = [tried EXCEPT ![i] = @ \cup {r}]
  /\ left' = left \cup {r}
  /\ UNCHANGED <<row, wakeVars, drain, locks, done>>

\* The end of the transaction, committed or not.
ReleaseBatch(i) ==
  /\ locks' = [locks EXCEPT ![i] = {}]
  /\ tried' = [tried EXCEPT ![i] = {}]
  /\ done' = [done EXCEPT ![i] = {}]

\* relay's finally block and what follows it.
EndDrain(i) ==
  /\ drain' = [drain EXCEPT ![i] = "idle"]
  /\ woken' = IF i \in drainAgain THEN [woken EXCEPT ![i] = @ + 1] ELSE woken
  /\ drainAgain' = drainAgain \ {i}

BatchFull(i) == Cardinality(locks[i]) = BatchSize

\* Seeded fault: the whole batch is marked.
MarkedBatch(i) == locks[i]

\* The rows manager.update sets publishedAt of.
Marked(i) == done[i]

\* drainOnce commits; a full batch is followed by another.
CommitBatch(i) ==
  /\ drain[i] = "publishing"
  /\ tried[i] = locks[i]
  /\ row' =
       [r \in OutboxRow |-> IF r \in Marked(i) THEN "published" ELSE row[r]]
  /\ ReleaseBatch(i)
  /\ \/ /\ BatchFull(i)
        /\ drain' = [drain EXCEPT ![i] = "selecting"]
        /\ UNCHANGED <<woken, drainAgain>>
     \/ ~BatchFull(i) /\ EndDrain(i)
  /\ UNCHANGED <<sent, owed, relayFaults, left>>

(***************************************************************************)
(* Failures                                                                *)
(***************************************************************************)

\* Seeded fault: draining is only cleared after success.
DrainFailsForGood(i) ==
  /\ Draining(i)
  /\ relayFaults < MaxRelayFaults
  /\ relayFaults' = relayFaults + 1
  /\ ReleaseBatch(i)
  /\ drain' = [drain EXCEPT ![i] = "failed"]
  /\ left' = left \cup Pending
  /\ UNCHANGED <<row, sent, wakeVars>>

\* A statement or the commit of drainOnce fails: rollback, catch, finally.
DrainFails(i) ==
  /\ Draining(i)
  /\ relayFaults < MaxRelayFaults
  /\ relayFaults' = relayFaults + 1
  /\ ReleaseBatch(i)
  /\ EndDrain(i)
  /\ left' = IF i \in drainAgain THEN left ELSE left \cup Pending
  /\ UNCHANGED <<row, sent, owed>>

\* The process dies and is started again.
RelayCrash(i) ==
  /\ relayFaults < MaxRelayFaults
  /\ relayFaults' = relayFaults + 1
  /\ ReleaseBatch(i)
  /\ drain' = [drain EXCEPT ![i] = "idle"]
  /\ owed' = [owed EXCEPT ![i] = 0]
  /\ woken' = [woken EXCEPT ![i] = 0]
  /\ drainAgain' = drainAgain \ {i}
  /\ left' = left \cup Pending
  /\ UNCHANGED <<row, sent>>

RelayStep(i) ==
  \/ Nudge(i) \/ Wake(i) \/ Select(i) \/ CommitBatch(i)
  \/ \E r \in OutboxRow : Publish(i, r)

RelayNext ==
  \E i \in App :
    \/ RelayStep(i) \/ Poll(i)
    \/ \E r \in OutboxRow : Commit(i, r) \/ PublishFails(i, r)
    \/ DrainFails(i) \/ RelayCrash(i)

RelaySpec == RelayInit /\ [][RelayNext]_relayVars

\* The event loop runs its callbacks and awaited calls return; the timer
\* fires again and again.
RelayFairness ==
  \A i \in App : WF_relayVars(RelayStep(i)) /\ WF_relayVars(Poll(i))

RelayFairSpec == RelaySpec /\ RelayFairness

(***************************************************************************)
(* Properties                                                              *)
(***************************************************************************)

\* drainAgain is set only while draining; a batch is there only inside the
\* transaction.
FlagsMatchPhase ==
  \A i \in App :
    /\ i \in drainAgain => Draining(i)
    /\ done[i] \subseteq tried[i] /\ tried[i] \subseteq locks[i]
    /\ locks[i] # {} => drain[i] = "publishing"

TableTypes ==
  /\ row \in [OutboxRow -> {"absent", "pending", "published"}]
  /\ sent \in [OutboxRow -> Nat]
  /\ relayFaults \in 0..MaxRelayFaults
  /\ left \in SUBSET OutboxRow

RelayTypes ==
  /\ owed \in [App -> Nat] /\ woken \in [App -> Nat]
  /\ drainAgain \in SUBSET App
  /\ drain \in [App -> {"idle", "selecting", "publishing"}]

BatchTypes ==
  /\ locks \in [App -> SUBSET OutboxRow]
  /\ tried \in [App -> SUBSET OutboxRow]
  /\ done \in [App -> SUBSET OutboxRow]

\* Types, and flags that mean what their names say (relay, nudge).
RelayTypeOK == TableTypes /\ RelayTypes /\ BatchTypes /\ FlagsMatchPhase

\* Without a failure every row is sent once, whichever instances drain at the
\* same time; each failure costs one more copy at most (SKIP LOCKED).
SentOncePerFault == \A r \in OutboxRow : sent[r] <= 1 + relayFaults

\* Some relay will yet select the row, or holds it.
Awaited(r) ==
  \E i \in App :
    \/ owed[i] > 0 \/ i \in drainAgain \/ drain[i] = "selecting"
    \/ drain[i] = "idle" /\ woken[i] > 0
    \/ r \in locks[i] \/ BatchFull(i)

\* No committed row is left for the poll unless something failed, wherever
\* its commit falls in a running drain (nudge, relay).
NudgeNotLost == \A r \in Pending : r \in left \/ Awaited(r)

Promised == INSTANCE RelayPromise WITH Row <- OutboxRow

\* The relay sends what was committed, marks only what it sent, and sends
\* nothing it has marked (drainOnce).
RelayPromiseSpec == Promised!Spec

\* Every committed row is published in the end.
EventuallyPublished ==
  \A r \in OutboxRow : row[r] = "pending" ~> row[r] = "published"

(***************************************************************************)
(* The inductive invariant                                                 *)
(***************************************************************************)

\* A batch is pending and locked by one transaction only.
Batches ==
  \A i \in App :
    /\ locks[i] \subseteq Pending
    /\ \A j \in App \ {i} : locks[i] \cap locks[j] = {}

\* A publish that returned either reached the broker or is left to the poll.
Outcomes ==
  \A i \in App :
    /\ tried[i] \subseteq done[i] \cup left
    /\ \A r \in done[i] : sent[r] > 0

\* A row that is neither published nor about to be has been sent only where
\* something failed.
Copies ==
  \A r \in OutboxRow :
    row[r] # "published" /\ (\A i \in App : r \notin done[i])
      => sent[r] <= relayFaults

RelayInv ==
  /\ RelayTypeOK /\ Batches /\ Outcomes /\ Copies
  /\ SentOncePerFault /\ NudgeNotLost

=============================================================================

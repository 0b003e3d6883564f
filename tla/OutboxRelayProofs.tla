------------------------- MODULE OutboxRelayProofs -------------------------
(***************************************************************************)
(* What is proved of OutboxRelay, for any number of instances, rows and    *)
(* faults and any batch size.                                              *)
(***************************************************************************)
EXTENDS OutboxRelay, TLAPS

LEMMA RelayInvInit == RelayInit => RelayInv
  BY RelayAssumption DEF RelayInit, RelayInv, RelayTypeOK, TableTypes,
                         RelayTypes, BatchTypes, FlagsMatchPhase, Draining,
                         Batches, Outcomes, Copies, SentOncePerFault,
                         NudgeNotLost, Pending, OutboxRow

\* A step is one instance's action, or changes nothing.
LEMMA RelayStepCases ==
  ASSUME [RelayNext]_relayVars
  PROVE  \/ \E i \in App :
              \/ Nudge(i) \/ Wake(i) \/ Poll(i)
              \/ Select(i) \/ CommitBatch(i) \/ DrainFails(i) \/ RelayCrash(i)
              \/ \E r \in OutboxRow :
                   Commit(i, r) \/ Publish(i, r) \/ PublishFails(i, r)
         \/ UNCHANGED relayVars
  BY DEF RelayNext, RelayStep

(***************************************************************************)
(* Types and flags                                                         *)
(***************************************************************************)

LEMMA TableStep ==
  ASSUME TableTypes, [RelayNext]_relayVars
  PROVE  TableTypes'
<1> USE RelayAssumption DEF TableTypes, batchVars, wakeVars
<1>1. ASSUME NEW i \in App, NEW r \in OutboxRow,
             Commit(i, r) \/ Publish(i, r) \/ PublishFails(i, r)
      PROVE  TableTypes'
  BY <1>1 DEF Commit, Publish, PublishFails
<1>2. ASSUME NEW i \in App, Nudge(i) \/ Wake(i) \/ Poll(i) \/ Select(i)
      PROVE  TableTypes'
  BY <1>2 DEF Nudge, Wake, Poll, Select
<1>3. ASSUME NEW i \in App, CommitBatch(i) PROVE TableTypes'
  BY <1>3 DEF CommitBatch
<1>4. ASSUME NEW i \in App, DrainFails(i) \/ RelayCrash(i) PROVE TableTypes'
  BY <1>4 DEF DrainFails, RelayCrash, Pending
<1>5. CASE UNCHANGED relayVars
  BY <1>5 DEF relayVars
<1>6. QED
  BY <1>1, <1>2, <1>3, <1>4, <1>5, RelayStepCases

LEMMA RelayTypesStep ==
  ASSUME RelayTypes, [RelayNext]_relayVars
  PROVE  RelayTypes'
<1> USE DEF RelayTypes, wakeVars
<1>1. ASSUME NEW i \in App, NEW r \in OutboxRow,
             Commit(i, r) \/ Publish(i, r) \/ PublishFails(i, r)
      PROVE  RelayTypes'
  BY <1>1 DEF Commit, Publish, PublishFails
<1>2. ASSUME NEW i \in App, Nudge(i) PROVE RelayTypes'
  BY <1>2 DEF Nudge
<1>3. ASSUME NEW i \in App, Wake(i) \/ Poll(i) \/ Select(i) PROVE RelayTypes'
  BY <1>3 DEF Wake, Poll, Start, Select
<1>4. ASSUME NEW i \in App, CommitBatch(i) \/ DrainFails(i)
      PROVE  RelayTypes'
  BY <1>4 DEF CommitBatch, DrainFails, EndDrain
<1>5. ASSUME NEW i \in App, RelayCrash(i) PROVE RelayTypes'
  BY <1>5 DEF RelayCrash
<1>6. CASE UNCHANGED relayVars
  BY <1>6 DEF relayVars
<1>7. QED
  BY <1>1, <1>2, <1>3, <1>4, <1>5, <1>6, RelayStepCases

LEMMA BatchTypesStep ==
  ASSUME BatchTypes, [RelayNext]_relayVars
  PROVE  BatchTypes'
<1> USE DEF BatchTypes, batchVars
<1>1. ASSUME NEW i \in App, NEW r \in OutboxRow,
             Commit(i, r) \/ Publish(i, r) \/ PublishFails(i, r)
      PROVE  BatchTypes'
  BY <1>1 DEF Commit, Publish, PublishFails
<1>2. ASSUME NEW i \in App, Nudge(i) \/ Wake(i) \/ Poll(i) PROVE BatchTypes'
  BY <1>2 DEF Nudge, Wake, Poll
<1>3. ASSUME NEW i \in App, Select(i) PROVE BatchTypes'
  BY <1>3 DEF Select, OldestOf, Free, Pending
<1>4. ASSUME NEW i \in App, CommitBatch(i) \/ DrainFails(i) \/ RelayCrash(i)
      PROVE  BatchTypes'
  BY <1>4 DEF CommitBatch, DrainFails, RelayCrash, ReleaseBatch
<1>5. CASE UNCHANGED relayVars
  BY <1>5 DEF relayVars
<1>6. QED
  BY <1>1, <1>2, <1>3, <1>4, <1>5, RelayStepCases

LEMMA FlagsStep ==
  ASSUME RelayTypeOK, [RelayNext]_relayVars
  PROVE  FlagsMatchPhase'
<1> USE DEF RelayTypeOK, RelayTypes, BatchTypes, FlagsMatchPhase, Draining,
            batchVars, wakeVars
<1>1. ASSUME NEW i \in App, NEW r \in OutboxRow,
             Commit(i, r) \/ Publish(i, r) \/ PublishFails(i, r)
      PROVE  FlagsMatchPhase'
  BY <1>1 DEF Commit, Publish, PublishFails, IsNext
<1>2. ASSUME NEW i \in App, Nudge(i) \/ Wake(i) \/ Poll(i)
      PROVE  FlagsMatchPhase'
  BY <1>2 DEF Nudge, Wake, Poll, Start
<1>3. ASSUME NEW i \in App, Select(i) PROVE FlagsMatchPhase'
  BY <1>3 DEF Select
<1>4. ASSUME NEW i \in App, CommitBatch(i) PROVE FlagsMatchPhase'
  BY <1>4 DEF CommitBatch, ReleaseBatch, EndDrain
<1>5. ASSUME NEW i \in App, DrainFails(i) \/ RelayCrash(i)
      PROVE  FlagsMatchPhase'
  BY <1>5 DEF DrainFails, RelayCrash, ReleaseBatch, EndDrain
<1>6. CASE UNCHANGED relayVars
  BY <1>6 DEF relayVars
<1>7. QED
  BY <1>1, <1>2, <1>3, <1>4, <1>5, <1>6, RelayStepCases

(***************************************************************************)
(* Batches and what was sent                                               *)
(***************************************************************************)

LEMMA BatchesStep ==
  ASSUME RelayTypeOK, Batches, [RelayNext]_relayVars
  PROVE  Batches'
<1> USE DEF RelayTypeOK, TableTypes, BatchTypes, FlagsMatchPhase, Batches,
            Pending, batchVars
<1>1. ASSUME NEW i \in App, NEW r \in OutboxRow, Commit(i, r) PROVE Batches'
  BY <1>1 DEF Commit
<1>2. ASSUME NEW i \in App, NEW r \in OutboxRow,
             Publish(i, r) \/ PublishFails(i, r)
      PROVE  Batches'
  BY <1>2 DEF Publish, PublishFails
<1>3. ASSUME NEW i \in App, Nudge(i) \/ Wake(i) \/ Poll(i) PROVE Batches'
  BY <1>3 DEF Nudge, Wake, Poll
<1>4. ASSUME NEW i \in App, Select(i) PROVE Batches'
  <2>1. PICK b \in SUBSET Free : locks' = [locks EXCEPT ![i] = b]
    BY <1>4 DEF Select, OldestOf
  <2>2. QED
    BY <1>4, <2>1 DEF Select, Free
<1>5. ASSUME NEW i \in App, CommitBatch(i) PROVE Batches'
  BY <1>5 DEF CommitBatch, ReleaseBatch, Marked
<1>6. ASSUME NEW i \in App, DrainFails(i) \/ RelayCrash(i) PROVE Batches'
  BY <1>6 DEF DrainFails, RelayCrash, ReleaseBatch
<1>7. CASE UNCHANGED relayVars
  BY <1>7 DEF relayVars
<1>8. QED
  BY <1>1, <1>2, <1>3, <1>4, <1>5, <1>6, <1>7, RelayStepCases

LEMMA OutcomesStep ==
  ASSUME RelayTypeOK, Outcomes, [RelayNext]_relayVars
  PROVE  Outcomes'
<1> USE DEF RelayTypeOK, TableTypes, BatchTypes, Outcomes, batchVars
<1>1. ASSUME NEW i \in App, NEW r \in OutboxRow,
             Commit(i, r) \/ Publish(i, r) \/ PublishFails(i, r)
      PROVE  Outcomes'
  BY <1>1 DEF Commit, Publish, PublishFails
<1>2. ASSUME NEW i \in App, Nudge(i) \/ Wake(i) \/ Poll(i) PROVE Outcomes'
  BY <1>2 DEF Nudge, Wake, Poll
<1>3. ASSUME NEW i \in App, Select(i) PROVE Outcomes'
  BY <1>3 DEF Select
<1>4. ASSUME NEW i \in App, CommitBatch(i) PROVE Outcomes'
  BY <1>4 DEF CommitBatch, ReleaseBatch
<1>5. ASSUME NEW i \in App, DrainFails(i) \/ RelayCrash(i) PROVE Outcomes'
  BY <1>5 DEF DrainFails, RelayCrash, ReleaseBatch
<1>6. CASE UNCHANGED relayVars
  BY <1>6 DEF relayVars
<1>7. QED
  BY <1>1, <1>2, <1>3, <1>4, <1>5, <1>6, RelayStepCases

\* A row is sent once per transaction, and a transaction that does not mark
\* it counts as a fault.
LEMMA CopiesStep ==
  ASSUME RelayTypeOK, Batches, Copies, SentOncePerFault, [RelayNext]_relayVars
  PROVE  Copies' /\ SentOncePerFault'
<1> USE DEF RelayTypeOK, TableTypes, BatchTypes, FlagsMatchPhase, Copies,
            SentOncePerFault, batchVars
<1>1. ASSUME NEW i \in App, NEW r \in OutboxRow, Commit(i, r)
      PROVE  Copies' /\ SentOncePerFault'
  BY <1>1 DEF Commit
<1>2. ASSUME NEW i \in App, NEW r \in OutboxRow, Publish(i, r)
      PROVE  Copies' /\ SentOncePerFault'
  <2>1. row[r] # "published" /\ \A j \in App : r \notin done[j]
    BY <1>2 DEF Publish, IsNext, Batches, Pending
  <2>2. QED
    BY <1>2, <2>1 DEF Publish
<1>3. ASSUME NEW i \in App, NEW r \in OutboxRow, PublishFails(i, r)
      PROVE  Copies' /\ SentOncePerFault'
  <2>1. row[r] # "published" /\ \A j \in App : r \notin done[j]
    BY <1>3 DEF PublishFails, IsNext, Batches, Pending
  <2>2. QED
    BY <1>3, <2>1 DEF PublishFails
<1>4. ASSUME NEW i \in App, Nudge(i) \/ Wake(i) \/ Poll(i)
      PROVE  Copies' /\ SentOncePerFault'
  BY <1>4 DEF Nudge, Wake, Poll
<1>5. ASSUME NEW i \in App, Select(i) PROVE Copies' /\ SentOncePerFault'
  BY <1>5 DEF Select
<1>6. ASSUME NEW i \in App, CommitBatch(i)
      PROVE  Copies' /\ SentOncePerFault'
  BY <1>6 DEF CommitBatch, ReleaseBatch, Marked
<1>7. ASSUME NEW i \in App, DrainFails(i) \/ RelayCrash(i)
      PROVE  Copies' /\ SentOncePerFault'
  BY <1>7 DEF DrainFails, RelayCrash, ReleaseBatch
<1>8. CASE UNCHANGED relayVars
  BY <1>8 DEF relayVars
<1>9. QED
  BY <1>1, <1>2, <1>3, <1>4, <1>5, <1>6, <1>7, <1>8, RelayStepCases

(***************************************************************************)
(* No nudge is lost                                                        *)
(***************************************************************************)

\* What makes instance i the one that row r is waiting for.
LEMMA AwaitedBy ==
  ASSUME NEW i \in App, NEW r \in OutboxRow,
         \/ owed'[i] > 0 \/ i \in drainAgain' \/ drain'[i] = "selecting"
         \/ drain'[i] = "idle" /\ woken'[i] > 0
         \/ r \in locks'[i] \/ BatchFull(i)'
  PROVE  Awaited(r)'
  BY DEF Awaited

LEMMA NudgeStep ==
  ASSUME RelayTypeOK, Outcomes, NudgeNotLost, [RelayNext]_relayVars,
         NEW r \in OutboxRow, row'[r] = "pending", r \notin left'
  PROVE  Awaited(r)'
<1> USE DEF RelayTypeOK, TableTypes, RelayTypes, BatchTypes, batchVars, wakeVars
<1>1. ASSUME NEW i \in App, NEW s \in OutboxRow, Commit(i, s) PROVE Awaited(r)'
  <2>1. owed'[i] > 0
    BY <1>1 DEF Commit
  <2>2. QED
    BY <2>1, AwaitedBy
<1>2. ASSUME NEW i \in App, Nudge(i) PROVE Awaited(r)'
  <2>1. i \in drainAgain' \/ (drain'[i] = "idle" /\ woken'[i] > 0)
    BY <1>2 DEF Nudge, Draining
  <2>2. QED
    BY <2>1, AwaitedBy
<1>3. ASSUME NEW i \in App, Wake(i) PROVE Awaited(r)'
  <2>1. CASE drain[i] = "idle"
    <3>1. drain'[i] = "selecting"
      BY <1>3, <2>1 DEF Wake, Start, Draining
    <3>2. QED
      BY <3>1, AwaitedBy
  <2>2. CASE drain[i] # "idle"
    <3>1. Awaited(r)
      BY <1>3 DEF Wake, NudgeNotLost, Pending
    <3>2. QED
      BY <1>3, <2>2, <3>1 DEF Wake, Start, Draining, Awaited, BatchFull
  <2>3. QED
    BY <2>1, <2>2
<1>4. ASSUME NEW i \in App, Poll(i) PROVE Awaited(r)'
  <2>1. drain'[i] = "selecting"
    BY <1>4 DEF Poll, Start, Draining
  <2>2. QED
    BY <2>1, AwaitedBy
<1>5. ASSUME NEW i \in App, Select(i) PROVE Awaited(r)'
  <2>1. PICK b \in OldestOf(Free) : locks' = [locks EXCEPT ![i] = b]
    BY <1>5 DEF Select
  <2>2. CASE r \in Free
    <3>1. r \in locks'[i] \/ BatchFull(i)'
      BY <2>1, <2>2 DEF OldestOf, BatchFull
    <3>2. QED
      BY <3>1, AwaitedBy
  <2>3. CASE r \notin Free
    <3>1. PICK j \in App : r \in locks[j]
      BY <1>5, <2>3 DEF Select, Free, Pending
    <3>2. j # i
      BY <1>5, <3>1 DEF Select, FlagsMatchPhase
    <3>3. r \in locks'[j]
      BY <2>1, <3>1, <3>2
    <3>4. QED
      BY <3>3, AwaitedBy
  <2>4. QED
    BY <2>2, <2>3
<1>6. ASSUME NEW i \in App, NEW s \in OutboxRow,
             Publish(i, s) \/ PublishFails(i, s)
      PROVE  Awaited(r)'
  <2>1. Awaited(r)
    BY <1>6 DEF Publish, PublishFails, NudgeNotLost, Pending
  <2>2. QED
    BY <1>6, <2>1 DEF Publish, PublishFails, Awaited, BatchFull
<1>7. ASSUME NEW i \in App, CommitBatch(i) PROVE Awaited(r)'
  <2>1. CASE BatchFull(i)
    <3>1. drain'[i] = "selecting"
      BY <1>7, <2>1 DEF CommitBatch
    <3>2. QED
      BY <3>1, AwaitedBy
  <2>2. CASE ~BatchFull(i) /\ i \in drainAgain
    <3>1. drain'[i] = "idle" /\ woken'[i] > 0
      BY <1>7, <2>2 DEF CommitBatch, EndDrain
    <3>2. QED
      BY <3>1, AwaitedBy
  <2>3. CASE ~BatchFull(i) /\ i \notin drainAgain
    <3>1. row[r] = "pending" /\ r \notin done[i]
      BY <1>7 DEF CommitBatch, Marked
    <3>2. r \notin locks[i] /\ r \notin left
      BY <1>7, <3>1 DEF CommitBatch, Outcomes
    <3>3. PICK j \in App :
            \/ owed[j] > 0 \/ j \in drainAgain \/ drain[j] = "selecting"
            \/ drain[j] = "idle" /\ woken[j] > 0
            \/ r \in locks[j] \/ BatchFull(j)
      BY <3>1, <3>2 DEF NudgeNotLost, Pending, Awaited
    <3>4. CASE j = i
      BY <1>7, <2>3, <3>2, <3>3, <3>4, AwaitedBy DEF CommitBatch, EndDrain
    <3>5. CASE j # i
      <4>1. /\ owed'[j] = owed[j] /\ woken'[j] = woken[j]
            /\ drain'[j] = drain[j] /\ locks'[j] = locks[j]
            /\ j \in drainAgain => j \in drainAgain'
        BY <1>7, <2>3, <3>5 DEF CommitBatch, EndDrain, ReleaseBatch
      <4>2. QED
        BY <3>3, <4>1, AwaitedBy DEF BatchFull
    <3>6. QED
      BY <3>4, <3>5
  <2>4. QED
    BY <2>1, <2>2, <2>3
<1>8. ASSUME NEW i \in App, DrainFails(i) PROVE Awaited(r)'
  <2>1. i \in drainAgain
    BY <1>8 DEF DrainFails, Pending
  <2>2. drain'[i] = "idle" /\ woken'[i] > 0
    BY <1>8, <2>1 DEF DrainFails, EndDrain
  <2>3. QED
    BY <2>2, AwaitedBy
<1>9. ASSUME NEW i \in App, RelayCrash(i) PROVE Awaited(r)'
  BY <1>9 DEF RelayCrash, Pending
<1>10. CASE UNCHANGED relayVars
  BY <1>10 DEF relayVars, NudgeNotLost, Pending, Awaited, BatchFull
<1>11. QED
  BY <1>1, <1>2, <1>3, <1>4, <1>5, <1>6, <1>7, <1>8, <1>9, <1>10, RelayStepCases

(***************************************************************************)
(* The theorems                                                            *)
(***************************************************************************)

LEMMA RelayInvStep ==
  ASSUME RelayInv, [RelayNext]_relayVars
  PROVE  RelayInv'
<1>1. RelayTypeOK'
  BY TableStep, RelayTypesStep, BatchTypesStep, FlagsStep
     DEF RelayInv, RelayTypeOK
<1>2. Batches' /\ Outcomes' /\ Copies' /\ SentOncePerFault'
  BY BatchesStep, OutcomesStep, CopiesStep DEF RelayInv
<1>3. NudgeNotLost'
  BY NudgeStep DEF RelayInv, NudgeNotLost, Pending
<1>4. QED
  BY <1>1, <1>2, <1>3 DEF RelayInv

\* Every commit, nudge, drain, failure and crash of the relays preserves
\* RelayInv.
THEOREM RelayInvariance == RelaySpec => []RelayInv
  BY RelayInvInit, RelayInvStep, PTL DEF RelaySpec

\* relay and nudge keep draining and drainAgain what their names say.
THEOREM RelayTypesCorrect == RelaySpec => []RelayTypeOK
<1>1. RelayInv => RelayTypeOK
  BY DEF RelayInv
<1>2. QED
  BY <1>1, RelayInvariance, PTL

\* Any number of instances that drain at the same time send a row once, plus
\* one copy for each failure (drainOnce, SKIP LOCKED).
THEOREM SentOnce == RelaySpec => []SentOncePerFault
<1>1. RelayInv => SentOncePerFault
  BY DEF RelayInv
<1>2. QED
  BY <1>1, RelayInvariance, PTL

\* A row committed while a drain runs is never left for the poll (nudge).
THEOREM NudgeKept == RelaySpec => []NudgeNotLost
<1>1. RelayInv => NudgeNotLost
  BY DEF RelayInv
<1>2. QED
  BY <1>1, RelayInvariance, PTL

(***************************************************************************)
(* Refinement                                                              *)
(***************************************************************************)

LEMMA RelayPromiseInit == RelayInit => Promised!Init
  BY DEF RelayInit, Promised!Init

LEMMA RelayPromiseStep ==
  ASSUME RelayInv, [RelayNext]_relayVars
  PROVE  [Promised!Next]_(Promised!vars)
<1> USE DEF RelayInv, RelayTypeOK, TableTypes, BatchTypes, FlagsMatchPhase
<1>1. ASSUME NEW i \in App, NEW r \in OutboxRow, Commit(i, r)
      PROVE  Promised!Enqueue(r)
  BY <1>1 DEF Commit, Promised!Enqueue
<1>2. ASSUME NEW i \in App, NEW r \in OutboxRow, Publish(i, r)
      PROVE  Promised!Send(r)
  BY <1>2 DEF Publish, IsNext, Batches, Pending, Promised!Send
<1>3. ASSUME NEW i \in App, NEW r \in OutboxRow, PublishFails(i, r)
      PROVE  Promised!Send(r) \/ UNCHANGED <<row, sent>>
  BY <1>3 DEF PublishFails, IsNext, Batches, Pending, Promised!Send
<1>4. ASSUME NEW i \in App, CommitBatch(i)
      PROVE  Promised!Mark(done[i])
  BY <1>4 DEF CommitBatch, Marked, Batches, Pending, Outcomes, Promised!Mark
<1>5. ASSUME NEW i \in App,
             \/ Nudge(i) \/ Wake(i) \/ Poll(i) \/ Select(i)
             \/ DrainFails(i) \/ RelayCrash(i)
      PROVE  UNCHANGED <<row, sent>>
  BY <1>5 DEF Nudge, Wake, Poll, Select, DrainFails, RelayCrash
<1>6. CASE UNCHANGED relayVars
  BY <1>6 DEF relayVars, Promised!vars
<1>7. QED
  BY <1>1, <1>2, <1>3, <1>4, <1>5, <1>6, RelayStepCases
     DEF Promised!Next, Promised!vars

\* The relays implement the outbox that OrderPipeline is built on: sent only
\* while pending, marked only when sent.
THEOREM RelayKeepsPromise == RelaySpec => RelayPromiseSpec
  BY RelayPromiseInit, RelayPromiseStep, RelayInvariance, PTL
     DEF RelaySpec, RelayPromiseSpec, Promised!Spec

=============================================================================

------------------------ MODULE SharedServicesProofs ------------------------
(***************************************************************************)
(* What is proved of StockReservation, which implements StockLedger, of    *)
(* MetricsBuffer and of MetricsHistory, for any number of orders, products *)
(* and samples and any sizes of batch, buffer and answer; and of all the   *)
(* components of MCSharedServices together.                                *)
(***************************************************************************)
EXTENDS
  MCSharedServices, PaymentGatewayProofs, OrderCacheProofs, OutboxRelayProofs,
  FiniteSetTheorems, SequenceTheorems, WellFoundedInduction

(***************************************************************************)
(* The inductive invariant of StockReservation                             *)
(***************************************************************************)

\* A row is locked by one transaction at most, and what a transaction has
\* taken is locked and was there.
Held ==
  /\ \A t \in Reservation : taken[t] \subseteq locked[t]
  /\ \A t \in Reservation : taken[t] \subseteq LinesIn(t)
  /\ \A t, u \in Reservation : t # u => locked[t] \cap locked[u] = {}
  /\ \A t \in Reservation : \A p \in taken[t] : Enough(t, p)

\* A statement is under way only while lines are taken, for a line that is not
\* taken yet; a message that is not parked has attempts left; locks are those
\* of open transactions.
Running ==
  \A t \in Reservation :
    /\ awaits[t] # NoRow => phase[t] = "taking" /\ awaits[t] \in LinesIn(t) \ taken[t]
    /\ phase[t] # "parked" => attempts[t] < MaxAttempts
    /\ locked[t] # {} => phase[t] \in {"taking", "restoring"}

StockInv == StockTypeOK /\ Held /\ Running

LEMMA StockInvInit == StockInit => StockInv
<1> SUFFICES ASSUME StockInit PROVE StockInv
  OBVIOUS
<1> USE StockAssumption DEF StockInit
<1>1. StockTypeOK
  BY DEF StockTypeOK
<1>2. Held /\ Running
  BY DEF Held, Running
<1>3. QED
  BY <1>1, <1>2 DEF StockInv

LEMMA StockStepCases ==
  ASSUME [StockNext]_stockVars
  PROVE  \/ \E t \in Reservation :
              \/ Deliver(t) \/ Take(t) \/ Short(t) \/ CommitReserved(t)
              \/ CommitFailed(t) \/ AbortDeadlocked(t) \/ HandlerFails(t)
         \/ \E t \in Reservation, p \in Row : Send(t, p) \/ PutBack(t, p)
         \/ \E p \in Row, n \in 1..MaxNeed : AddStock(p, n)
         \/ UNCHANGED stockVars
  BY DEF StockNext, ReservationStep

\* A handler that is aborted or fails is one that has begun.
LEMMA Throws ==
  ASSUME StockInv, NEW t \in Reservation, AbortDeadlocked(t) \/ HandlerFails(t)
  PROVE  Throw(t) /\ phase[t] \in {"taking", "restoring"}
  BY DEF AbortDeadlocked, Deadlocked, WaitsFor, HandlerFails, StockInv, Running

\* A transaction that commits takes what its lines need, and nothing else.
LEMMA CommitTakes ==
  ASSUME StockInv, NEW t \in Reservation, NEW to, CommitAs(t, to)
  PROVE  /\ stock' \in [Row -> Nat]
         /\ \A p \in Row :
              stock'[p] = IF p \in taken[t] THEN stock[p] - need[t][p] ELSE stock[p]
<1>1. \A p \in taken[t] : p \in Row /\ stock[p] >= need[t][p]
  BY DEF StockInv, StockTypeOK, Held, Enough
<1>2. \A p \in Row : stock[p] \in Nat /\ need[t][p] \in Nat
  BY DEF StockInv, StockTypeOK
<1>3. QED
  BY <1>1, <1>2 DEF CommitAs

\* A handler that throws leaves no trace but the failed attempt.
LEMMA ThrowLeaves ==
  ASSUME StockInv, NEW t \in Reservation, AbortDeadlocked(t) \/ HandlerFails(t)
  PROVE  /\ attempts' \in [Reservation -> 0..MaxAttempts]
         /\ \A u \in Reservation \ {t} :
              attempts'[u] = attempts[u] /\ phase'[u] = phase[u]
         /\ phase'[t] \in {"queued", "parked"}
         /\ phase'[t] = "queued" => attempts'[t] < MaxAttempts
         /\ phase' \in [Reservation -> {"queued", "taking", "restoring",
                                        "reserved", "failed", "parked"}]
<1>1. attempts \in [Reservation -> 0..MaxAttempts] /\ MaxAttempts \in Nat
  BY StockAssumption DEF StockInv, StockTypeOK
<1>2. phase \in [Reservation -> {"queued", "taking", "restoring",
                                 "reserved", "failed", "parked"}]
  BY DEF StockInv, StockTypeOK
<1>3. Throw(t) /\ attempts[t] < MaxAttempts
  BY Throws DEF StockInv, Running
<1>4. attempts[t] + 1 \in 0..MaxAttempts
  BY <1>1, <1>3
<1>5. attempts' = [attempts EXCEPT ![t] = attempts[t] + 1]
  BY <1>1, <1>3 DEF Throw
<1>6. attempts' \in [Reservation -> 0..MaxAttempts] /\ attempts'[t] = attempts[t] + 1
  BY <1>1, <1>4, <1>5
<1>7. CASE attempts[t] + 1 = MaxAttempts
  <2>1. phase' = [phase EXCEPT ![t] = "parked"]
    BY <1>3, <1>7 DEF Throw
  <2>2. QED
    BY <1>1, <1>2, <1>5, <1>6, <2>1
<1>8. CASE attempts[t] + 1 # MaxAttempts
  <2>1. phase' = [phase EXCEPT ![t] = "queued"]
    BY <1>3, <1>8 DEF Throw
  <2>2. attempts'[t] < MaxAttempts
    BY <1>1, <1>4, <1>6, <1>8
  <2>3. QED
    BY <1>1, <1>2, <1>5, <1>6, <2>1, <2>2
<1>9. QED
  BY <1>7, <1>8

LEMMA StockTypeStep ==
  ASSUME StockInv, [StockNext]_stockVars
  PROVE  StockTypeOK'
<1> USE StockAssumption DEF StockInv, StockTypeOK, inTx
<1>1. ASSUME NEW t \in Reservation, Deliver(t) PROVE StockTypeOK'
  BY <1>1 DEF Deliver
<1>2. ASSUME NEW t \in Reservation, Take(t) PROVE StockTypeOK'
  BY <1>2 DEF Take
<1>3. ASSUME NEW t \in Reservation, Short(t) PROVE StockTypeOK'
  BY <1>3 DEF Short
<1>4. ASSUME NEW t \in Reservation, CommitReserved(t) \/ CommitFailed(t)
      PROVE  StockTypeOK'
  BY <1>4, CommitTakes DEF CommitReserved, CommitFailed, CommitAs
<1>5. ASSUME NEW t \in Reservation, AbortDeadlocked(t) \/ HandlerFails(t)
      PROVE  StockTypeOK'
  BY <1>5, Throws, ThrowLeaves DEF Throw, Rollback
<1>6. ASSUME NEW t \in Reservation, NEW p \in Row, Send(t, p) PROVE StockTypeOK'
  BY <1>6 DEF Send
<1>7. ASSUME NEW t \in Reservation, NEW p \in Row, PutBack(t, p)
      PROVE  StockTypeOK'
  <2>1. taken' \in [Reservation -> SUBSET Row]
    BY <1>7 DEF PutBack
  <2>2. QED
    BY <1>7, <2>1 DEF PutBack
<1>8. ASSUME NEW p \in Row, NEW n \in 1..MaxNeed, AddStock(p, n)
      PROVE  StockTypeOK'
  BY <1>8 DEF AddStock
<1>9. CASE UNCHANGED stockVars
  BY <1>9 DEF stockVars
<1>10. QED
  BY <1>1, <1>2, <1>3, <1>4, <1>5, <1>6, <1>7, <1>8, <1>9, StockStepCases

\* Locks and lines only given back leave the rest as it was.
LEMMA HeldShrinks ==
  ASSUME StockInv, UNCHANGED <<stock, need>>,
         \A u \in Reservation : /\ taken'[u] \subseteq taken[u]
                                /\ locked'[u] \subseteq locked[u]
                                /\ taken'[u] \subseteq locked'[u]
  PROVE  Held'
<1>2. \A u \in Reservation : taken[u] \subseteq LinesIn(u) /\ LinesIn(u)' = LinesIn(u)
  BY DEF LinesIn, StockInv, Held
<1>3. \A u \in Reservation : taken'[u] \subseteq LinesIn(u)'
  BY <1>2
<1>4. \A u, v \in Reservation : u # v => locked'[u] \cap locked'[v] = {}
  BY DEF StockInv, Held
<1>5. \A u \in Reservation : \A p \in taken'[u] : Enough(u, p)'
  BY DEF StockInv, Held, Enough
<1>6. QED
  BY <1>3, <1>4, <1>5 DEF Held

LEMMA HeldStep ==
  ASSUME StockInv, [StockNext]_stockVars
  PROVE  Held'
<1> USE StockAssumption DEF StockInv, StockTypeOK, Held, LinesIn, Enough, inTx
<1>1. ASSUME NEW t \in Reservation, Deliver(t) \/ Short(t) PROVE Held'
  BY <1>1 DEF Deliver, Short
<1>2. ASSUME NEW t \in Reservation, Take(t) PROVE Held'
  BY <1>2 DEF Take, RowFree, Running
<1>3. ASSUME NEW t \in Reservation, CommitReserved(t) \/ CommitFailed(t)
      PROVE  Held'
  <2>1. PICK to \in {"reserved", "failed"} : CommitAs(t, to)
    BY <1>3 DEF CommitReserved, CommitFailed
  <2>2. \A u \in Reservation \ {t} : \A p \in taken[u] : stock'[p] = stock[p]
    BY <2>1, CommitTakes
  <2>3. /\ taken' = [taken EXCEPT ![t] = {}] /\ locked' = [locked EXCEPT ![t] = {}]
        /\ need' = need
    BY <2>1 DEF CommitAs
  <2>4. \A u \in Reservation : \A p \in taken'[u] : Enough(u, p)'
    BY <2>2, <2>3
  <2>5. /\ \A u \in Reservation : taken'[u] \subseteq locked'[u]
        /\ \A u \in Reservation : taken'[u] \subseteq LinesIn(u)'
        /\ \A u, v \in Reservation : u # v => locked'[u] \cap locked'[v] = {}
    BY <2>3
  <2>6. QED
    BY <2>4, <2>5
<1>4. ASSUME NEW t \in Reservation, AbortDeadlocked(t) \/ HandlerFails(t)
      PROVE  Held'
  <2>1. /\ taken' = [taken EXCEPT ![t] = {}] /\ locked' = [locked EXCEPT ![t] = {}]
        /\ UNCHANGED <<stock, need>>
    BY <1>4, Throws DEF Throw, Rollback
  <2>2. QED
    BY <2>1, HeldShrinks
<1>5. ASSUME NEW t \in Reservation, NEW p \in Row, Send(t, p) PROVE Held'
  BY <1>5, HeldShrinks DEF Send
<1>6. ASSUME NEW t \in Reservation, NEW p \in Row, PutBack(t, p) PROVE Held'
  BY <1>6, HeldShrinks DEF PutBack
<1>7. ASSUME NEW p \in Row, NEW n \in 1..MaxNeed, AddStock(p, n) PROVE Held'
  BY <1>7 DEF AddStock
<1>8. CASE UNCHANGED stockVars
  BY <1>8 DEF stockVars
<1>9. QED
  BY <1>1, <1>2, <1>3, <1>4, <1>5, <1>6, <1>7, <1>8, StockStepCases

LEMMA RunningStep ==
  ASSUME StockInv, [StockNext]_stockVars
  PROVE  Running'
<1> USE StockAssumption DEF StockInv, StockTypeOK, Running, LinesIn, inTx
<1>1. ASSUME NEW t \in Reservation, Deliver(t) PROVE Running'
  BY <1>1 DEF Deliver
<1>2. ASSUME NEW t \in Reservation, Take(t) \/ Short(t) PROVE Running'
  BY <1>2 DEF Take, Short
<1>3. ASSUME NEW t \in Reservation, CommitReserved(t) \/ CommitFailed(t)
      PROVE  Running'
  <2>1. PICK to \in {"reserved", "failed"} : CommitAs(t, to)
    BY <1>3 DEF CommitReserved, CommitFailed
  <2>2. awaits[t] = NoRow
    BY <1>3 DEF CommitReserved, CommitFailed
  <2>3. phase[t] # "parked"
    BY <1>3 DEF CommitReserved, CommitFailed
  <2>4. QED
    BY <2>1, <2>2, <2>3 DEF CommitAs
<1>4. ASSUME NEW t \in Reservation, AbortDeadlocked(t) \/ HandlerFails(t)
      PROVE  Running'
  <2>1. /\ awaits' = [awaits EXCEPT ![t] = NoRow] /\ need' = need
        /\ taken' = [taken EXCEPT ![t] = {}] /\ locked' = [locked EXCEPT ![t] = {}]
    BY <1>4, Throws DEF Throw, Rollback
  <2>2. QED
    BY <1>4, <2>1, ThrowLeaves
<1>5. ASSUME NEW t \in Reservation, NEW p \in Row, Send(t, p) PROVE Running'
  BY <1>5 DEF Send
<1>6. ASSUME NEW t \in Reservation, NEW p \in Row, PutBack(t, p) PROVE Running'
  BY <1>6 DEF PutBack
<1>7. ASSUME NEW p \in Row, NEW n \in 1..MaxNeed, AddStock(p, n) PROVE Running'
  BY <1>7 DEF AddStock
<1>8. CASE UNCHANGED stockVars
  BY <1>8 DEF stockVars
<1>9. QED
  BY <1>1, <1>2, <1>3, <1>4, <1>5, <1>6, <1>7, <1>8, StockStepCases

LEMMA StockInvStep ==
  ASSUME StockInv, [StockNext]_stockVars
  PROVE  StockInv'
  BY StockTypeStep, HeldStep, RunningStep DEF StockInv

(***************************************************************************)
(* StockReservation implements StockLedger                                 *)
(***************************************************************************)

\* What the ledger sees of a phase.
OutcomeOf == [t \in Reservation |->
                IF phase[t] \in {"reserved", "failed"} THEN phase[t] ELSE "open"]

LEMMA LedgerInit == StockInit => Ledger!Init
  BY StockAssumption DEF StockInit, Ledger!Init

\* A phase that is no outcome, before or after, is no step of the ledger.
LEMMA LedgerStutters ==
  ASSUME StockInv, NEW t \in Reservation, NEW to,
         to \notin {"reserved", "failed"},
         phase[t] \notin {"reserved", "failed"},
         phase' = [phase EXCEPT ![t] = to]
  PROVE  OutcomeOf' = OutcomeOf
  BY DEF OutcomeOf, StockInv, StockTypeOK

\* One that becomes an outcome is that of an open order.
LEMMA LedgerDecides ==
  ASSUME StockInv, NEW t \in Reservation, NEW to \in {"reserved", "failed"},
         phase[t] \notin {"reserved", "failed"},
         phase' = [phase EXCEPT ![t] = to]
  PROVE  OutcomeOf[t] = "open" /\ OutcomeOf' = [OutcomeOf EXCEPT ![t] = to]
  BY DEF OutcomeOf, StockInv, StockTypeOK

LEMMA LedgerStep ==
  ASSUME StockInv, [StockNext]_stockVars
  PROVE  [Ledger!Next]_(Ledger!ledgerVars)
<1> USE StockAssumption DEF StockInv, StockTypeOK, Ledger!ledgerVars, inTx
<1>1. ASSUME NEW t \in Reservation, Deliver(t) \/ Short(t)
      PROVE  UNCHANGED Ledger!ledgerVars
  BY <1>1, LedgerStutters DEF Deliver, Short, Running, OutcomeOf
<1>2. ASSUME NEW t \in Reservation, Take(t) PROVE UNCHANGED Ledger!ledgerVars
  BY <1>2 DEF Take
<1>3. ASSUME NEW t \in Reservation, CommitReserved(t) PROVE Ledger!Next
  <2>1. \A p \in Row :
          stock[p] >= need[t][p] /\ stock'[p] = stock[p] - need[t][p]
    BY <1>3, CommitTakes DEF CommitReserved, LinesIn, Held, Enough
  <2>2. stock' = [p \in Row |-> stock[p] - need[t][p]]
    BY <1>3, <2>1, CommitTakes DEF CommitReserved
  <2>3. OutcomeOf[t] = "open" /\ OutcomeOf' = [OutcomeOf EXCEPT ![t] = "reserved"]
    BY <1>3, LedgerDecides DEF CommitReserved, CommitAs
  <2>4. need' = need
    BY <1>3 DEF CommitReserved, CommitAs
  <2>5. Ledger!Reserve(t)
    BY <2>1, <2>2, <2>3, <2>4 DEF Ledger!Reserve, OutcomeOf
  <2>6. QED
    BY <2>5 DEF Ledger!Next
<1>4. ASSUME NEW t \in Reservation, CommitFailed(t) PROVE Ledger!Next
  <2>1. stock' = stock
    BY <1>4, CommitTakes DEF CommitFailed, Restored
  <2>2. OutcomeOf[t] = "open" /\ OutcomeOf' = [OutcomeOf EXCEPT ![t] = "failed"]
    BY <1>4, LedgerDecides DEF CommitFailed, CommitAs
  <2>3. need' = need
    BY <1>4 DEF CommitFailed, CommitAs
  <2>4. Ledger!GiveUp(t)
    BY <2>1, <2>2, <2>3 DEF Ledger!GiveUp, OutcomeOf
  <2>5. QED
    BY <2>4 DEF Ledger!Next
<1>5. ASSUME NEW t \in Reservation, AbortDeadlocked(t) \/ HandlerFails(t)
      PROVE  UNCHANGED Ledger!ledgerVars
  BY <1>5, Throws, LedgerStutters DEF Throw, OutcomeOf
<1>6. ASSUME NEW t \in Reservation, NEW p \in Row, Send(t, p) \/ PutBack(t, p)
      PROVE  UNCHANGED Ledger!ledgerVars
  BY <1>6 DEF Send, PutBack
<1>7. ASSUME NEW p \in Row, NEW n \in 1..MaxNeed, AddStock(p, n)
      PROVE  Ledger!Next
  <2>1. stock'[p] >= stock[p] /\ stock' = [stock EXCEPT ![p] = stock'[p]]
    BY <1>7 DEF AddStock
  <2>2. OutcomeOf' = OutcomeOf /\ need' = need
    BY <1>7 DEF AddStock, OutcomeOf
  <2>3. Ledger!Add(p)
    BY <2>1, <2>2 DEF Ledger!Add, OutcomeOf
  <2>4. QED
    BY <2>3 DEF Ledger!Next
<1>8. CASE UNCHANGED stockVars
  BY <1>8 DEF stockVars
<1>9. QED
  BY <1>1, <1>2, <1>3, <1>4, <1>5, <1>6, <1>7, <1>8, StockStepCases

\* Every reachable state keeps the invariant (reserveStock, restoreStock).
THEOREM StockInvariance == StockSpec => []StockInv
  BY StockInvInit, StockInvStep, PTL DEF StockSpec

\* Every reachable state is well typed; no stock is ever negative
\* (reserveStock).
THEOREM StockTypesCorrect == StockSpec => []StockTypeOK
<1>1. StockInv => StockTypeOK
  BY DEF StockInv
<1>2. QED
  BY <1>1, StockInvariance, PTL

\* Line by line, with locks, compensation and aborts, a reservation takes all
\* of its lines at once or takes nothing (reserveStock).
THEOREM LedgerCorrect == StockSpec => LedgerSpec
  BY LedgerInit, LedgerStep, StockInvariance, PTL
     DEF StockSpec, LedgerSpec, Ledger!Spec

(***************************************************************************)
(* No lock outlives its transaction                                        *)
(***************************************************************************)

\* Where finitely many all wait for one another, some of them are a cycle: the
\* fewest that all wait for one another are.
LEMMA SomeCycle ==
  ASSUME NEW S \in SUBSET Reservation, S # {},
         \A u \in S : \E v \in S : WaitsFor(u, v)
  PROVE  \E u \in S : Deadlocked(u)
<1> DEFINE Stuck(M) == M # {} /\ \A u \in M : \E v \in M : WaitsFor(u, v)
           F == {M \in SUBSET S : Stuck(M)}
           Smaller == StrictSubsetOrdering(Reservation)
<1>1. IsWellFoundedOn(Smaller, SUBSET Reservation)
  BY StockAssumption, FS_StrictSubsetOrderingWellFounded, FS_FiniteSubsetsOfFinite
<1>2. F \subseteq SUBSET Reservation /\ S \in F
  OBVIOUS
<1>3. PICK M \in F : \A N \in F : <<N, M>> \notin Smaller
  <2> HIDE DEF F, Smaller
  <2> QED BY <1>1, <1>2, WFMin
<1>4. ASSUME NEW w \in M
      PROVE  \E u \in M : WaitsFor(u, w)
  <2>1. SUFFICES ASSUME \A u \in M : ~WaitsFor(u, w)
                 PROVE  FALSE
    OBVIOUS
  <2>2. PICK v \in M : WaitsFor(w, v)
    BY <1>4
  <2>3. v # w
    BY <2>2 DEF WaitsFor
  <2>4. M \ {w} \in F
    BY <2>1, <2>3
  <2>5. <<M \ {w}, M>> \in Smaller
    BY <1>4 DEF StrictSubsetOrdering
  <2>6. QED
    BY <1>3, <2>4, <2>5
<1>5. QED
  BY <1>4 DEF Deadlocked

\* Whatever order the lines come in, a reservation waits for a transaction at
\* work, which releases its rows, or for a cycle, which the database breaks
\* (reserveStock, InventoryConsumer.reserve).
THEOREM WaitsEndCorrect == StockSpec => []WaitsEnd
<1>1. ASSUME StockInv
      PROVE  WaitsEnd
  <2> SUFFICES ASSUME NEW t \in Reservation, Waits(t),
                      NEW S \in SUBSET Reservation, WaitsWithin(t, S),
                      \A u \in S : phase[u] \in {"taking", "restoring"} => Waits(u)
               PROVE  \E u \in S : Deadlocked(u)
    BY DEF WaitsEnd
  <2> DEFINE T == {u \in S : Waits(u)}
  <2>1. \A u, v \in Reservation : WaitsFor(u, v) => phase[v] \in {"taking", "restoring"}
    BY <1>1 DEF WaitsFor, StockInv, Running
  <2>2. ASSUME NEW u \in T
        PROVE  \E v \in T : WaitsFor(u, v)
    BY <2>1 DEF Waits, WaitsWithin
  <2>3. T # {} /\ T \in SUBSET Reservation
    BY DEF WaitsWithin
  <2> HIDE DEF T
  <2>4. \E u \in T : Deadlocked(u)
    BY <2>2, <2>3, SomeCycle
  <2>5. QED
    BY <2>4 DEF T
<1>2. QED
  BY <1>1, StockInvariance, PTL

(***************************************************************************)
(* MetricsBuffer                                                           *)
(***************************************************************************)

Counts ==
  /\ buffer \in 0..MaxBuffered
  /\ batch \in 0..FlushAt /\ drained \in 0..FlushAt
  /\ state \in {"up", "awaiting", "draining", "closed"}

Flags ==
  /\ timer \in BOOLEAN /\ flushing \in BOOLEAN
  /\ awaited \in BOOLEAN /\ refilled \in BOOLEAN

\* What a running service keeps, and what every state does.
OneTaker ==
  /\ state = "up" => (buffer > 0 => timer \/ flushing) /\ ~(timer /\ flushing)
  /\ state = "up" /\ ~flushing => buffer < FlushAt
  /\ ~flushing => batch = 0
  /\ drained > 0 => state = "draining"

\* The drain finds nothing under way and less than a batch, which its first
\* insert takes whole; so a timer that is still set finds nothing to flush.
DrainedAlone ==
  /\ awaited <=> state = "awaiting"
  /\ state = "awaiting" => ~timer
  /\ state \in {"draining", "closed"} /\ ~refilled => buffer = 0 /\ batch = 0

BufferInv == Counts /\ Flags /\ OneTaker /\ DrainedAlone

\* A splice takes a batch out of what waits, and no more than there is.
LEMMA Splice ==
  ASSUME NEW waiting \in 0..MaxBuffered
  PROVE  /\ Taken(waiting) \in 0..FlushAt /\ Left(waiting) \in 0..MaxBuffered
         /\ waiting < FlushAt => Left(waiting) = 0
         /\ waiting = 0 => Taken(waiting) = 0
  BY BufferAssumption DEF Taken, Left, Least

LEMMA BufferInvInit == BufferInit => BufferInv
<1> SUFFICES ASSUME BufferInit PROVE BufferInv
  OBVIOUS
<1>1. Counts
  BY BufferAssumption DEF BufferInit, Counts
<1>2. Flags
  BY DEF BufferInit, Flags
<1>3. OneTaker
  BY BufferAssumption DEF BufferInit, OneTaker
<1>4. DrainedAlone
  BY DEF BufferInit, DrainedAlone
<1>5. QED
  BY <1>1, <1>2, <1>3, <1>4 DEF BufferInv

\* The three ends of record: the sample joins a flush, fills a batch, waits.
LEMMA CollectStep ==
  ASSUME BufferInv, Collect
  PROVE  BufferInv'
<1> USE BufferAssumption DEF BufferInv
<1>1. /\ state = "up" /\ UNCHANGED <<drained, state, awaited, refilled>>
      /\ buffer + 1 \in 0..MaxBuffered
  BY DEF Collect, Record, Room, Counts
<1>2. DrainedAlone'
  BY <1>1 DEF DrainedAlone
<1>3. CASE /\ flushing /\ buffer' = buffer + 1
           /\ UNCHANGED <<timer, flushing, batch>>
  BY <1>1, <1>2, <1>3 DEF Counts, Flags, OneTaker
<1>4. CASE FlushNow(buffer + 1) /\ buffer' = Left(buffer + 1)
  <2>1. /\ batch' \in 0..FlushAt /\ buffer' \in 0..MaxBuffered
        /\ flushing' = TRUE /\ timer' = FALSE
    BY <1>1, <1>4, Splice DEF FlushNow
  <2>2. QED
    BY <1>1, <1>2, <2>1 DEF Counts, Flags, OneTaker
<1>5. CASE /\ ~flushing /\ buffer + 1 < FlushAt /\ buffer' = buffer + 1
           /\ timer' = TRUE /\ UNCHANGED <<flushing, batch>>
  BY <1>1, <1>2, <1>5 DEF Counts, Flags, OneTaker
<1>6. QED
  BY <1>3, <1>4, <1>5 DEF Collect, Record, Wait

LEMMA TimerFiresStep ==
  ASSUME BufferInv, TimerFires
  PROVE  BufferInv'
<1> USE BufferAssumption DEF BufferInv
<1>1. /\ UNCHANGED <<drained, state, awaited, refilled>>
      /\ flushing' = TRUE /\ timer' = FALSE /\ timer
  BY DEF TimerFires, FlushNow
<1>2. /\ batch' \in 0..FlushAt /\ buffer' \in 0..MaxBuffered
      /\ buffer = 0 => batch' = 0 /\ buffer' = 0
  BY Splice DEF Counts, TimerFires, FlushNow
<1>3. Counts' /\ Flags'
  BY <1>1, <1>2 DEF Counts, Flags
<1>4. OneTaker'
  BY <1>1 DEF OneTaker
<1>5. DrainedAlone'
  BY <1>1, <1>2 DEF DrainedAlone
<1>6. QED
  BY <1>3, <1>4, <1>5

\* The drain's loop takes a batch and waits for it, or returns.
LEMMA DrainStep ==
  ASSUME NEW waiting \in 0..MaxBuffered, Drain(waiting)
  PROVE  /\ buffer' \in 0..MaxBuffered /\ drained' \in 0..FlushAt
         /\ state' \in {"draining", "closed"}
         /\ drained' > 0 => state' = "draining"
         /\ waiting < FlushAt => buffer' = 0
<1>1. waiting = 0 \/ waiting > 0
  OBVIOUS
<1>2. QED
  BY <1>1, Splice, BufferAssumption DEF Drain

\* The end of a flush starts another, schedules one, or leaves nothing; then
\* the drain goes on if it awaited the flush.
LEMMA FlushEndsStep ==
  ASSUME BufferInv, FlushEnds
  PROVE  BufferInv'
<1> USE BufferAssumption DEF BufferInv
<1>1. awaited' = FALSE /\ flushing
  BY DEF FlushEnds, GoOn
<1>2. PICK waiting \in 0..MaxBuffered :
        /\ GoOn(waiting)
        /\ \/ /\ buffer >= FlushAt
              /\ flushing' = TRUE /\ timer' = FALSE /\ batch' \in 0..FlushAt
              /\ refilled' = (refilled \/ awaited)
           \/ /\ waiting = buffer /\ buffer < FlushAt
              /\ flushing' = FALSE /\ batch' = 0 /\ timer' = (buffer > 0)
              /\ refilled' = refilled
  <2>1. CASE /\ buffer >= FlushAt
             /\ FlushNow(buffer) /\ GoOn(Left(buffer))
             /\ refilled' = (refilled \/ awaited)
    BY <2>1, Splice DEF Counts, FlushNow
  <2>2. CASE /\ buffer < FlushAt
             /\ flushing' = FALSE /\ batch' = 0 /\ timer' = Rearm(buffer)
             /\ GoOn(buffer) /\ refilled' = refilled
    BY <2>2 DEF Counts, Rearm
  <2>3. QED
    BY <2>1, <2>2 DEF FlushEnds
<1>3. /\ timer' \in BOOLEAN /\ flushing' \in BOOLEAN
      /\ batch' \in 0..FlushAt
  <2>1. 0 \in 0..FlushAt /\ (buffer > 0) \in BOOLEAN
    OBVIOUS
  <2>2. QED
    BY <1>2, <2>1, Zenon
<1>4. refilled' \in BOOLEAN
  BY <1>2 DEF Flags
<1>5. CASE awaited
  <2>1. /\ buffer' \in 0..MaxBuffered /\ drained' \in 0..FlushAt
        /\ state' \in {"draining", "closed"}
        /\ drained' > 0 => state' = "draining"
        /\ waiting < FlushAt => buffer' = 0
    BY <1>2, <1>5, DrainStep DEF GoOn
  <2>2. ~refilled' => buffer' = 0 /\ batch' = 0
    BY <1>2, <1>5, <2>1
  <2>3. ~flushing' => batch' = 0
    BY <1>2
  <2>4. QED
    BY <1>1, <1>3, <1>4, <2>1, <2>2, <2>3
    DEF Counts, Flags, OneTaker, DrainedAlone
<1>6. CASE ~awaited
  <2>1. buffer' = waiting /\ UNCHANGED <<drained, state>>
    BY <1>2, <1>6 DEF GoOn
  <2>2. Counts' /\ Flags'
    BY <1>1, <1>3, <1>4, <2>1 DEF Counts, Flags
  <2>3. OneTaker'
    BY <1>2, <2>1 DEF OneTaker
  <2>4. ASSUME state \in {"draining", "closed"}, ~refilled'
        PROVE  buffer' = 0 /\ batch' = 0
    <3>1. ~refilled /\ buffer = 0 /\ batch = 0
      BY <1>2, <2>4 DEF DrainedAlone, Flags
    <3>2. ~(buffer >= FlushAt)
      BY <3>1
    <3>3. QED
      BY <1>2, <2>1, <3>1, <3>2
  <2>5. DrainedAlone'
    BY <1>1, <1>6, <2>1, <2>4 DEF DrainedAlone
  <2>6. QED
    BY <2>2, <2>3, <2>5
<1>7. QED
  BY <1>5, <1>6 DEF Flags

LEMMA DestroyStep ==
  ASSUME BufferInv, Destroy
  PROVE  BufferInv'
<1> USE BufferAssumption DEF BufferInv
<1>1. /\ state = "up" /\ timer' = FALSE
      /\ UNCHANGED <<flushing, batch, refilled>>
  BY DEF Destroy
<1>2. CASE flushing
  BY <1>1, <1>2 DEF Destroy, MustAwait, Counts, Flags, OneTaker, DrainedAlone
<1>3. CASE ~flushing
  <2>1. awaited' = FALSE /\ Drain(buffer) /\ buffer < FlushAt /\ batch = 0
    BY <1>1, <1>3 DEF Destroy, MustAwait, OneTaker
  <2>2. /\ buffer' = 0 /\ drained' \in 0..FlushAt
        /\ state' \in {"draining", "closed"}
        /\ drained' > 0 => state' = "draining"
    BY <2>1, DrainStep DEF Counts
  <2>3. Counts' /\ OneTaker'
    BY <1>1, <2>1, <2>2 DEF Counts, OneTaker
  <2>4. Flags'
    BY <1>1, <2>1 DEF Flags
  <2>5. DrainedAlone'
    BY <1>1, <2>1, <2>2 DEF DrainedAlone
  <2>6. QED
    BY <2>3, <2>4, <2>5
<1>4. QED
  BY <1>2, <1>3

LEMMA DrainBatchEndsStep ==
  ASSUME BufferInv, DrainBatchEnds
  PROVE  BufferInv'
<1> USE BufferAssumption DEF BufferInv
<1>1. /\ state = "draining"
      /\ UNCHANGED <<timer, flushing, batch, awaited, refilled>>
  BY DEF DrainBatchEnds, OneTaker
<1>2. /\ buffer' \in 0..MaxBuffered /\ drained' \in 0..FlushAt
      /\ state' \in {"draining", "closed"}
      /\ drained' > 0 => state' = "draining"
      /\ buffer = 0 => buffer' = 0
  BY DrainStep DEF DrainBatchEnds, Counts
<1>3. QED
  BY <1>1, <1>2 DEF Counts, Flags, OneTaker, DrainedAlone

LEMMA BufferInvStep ==
  ASSUME BufferInv, [BufferNext]_bufferVars
  PROVE  BufferInv'
<1>1. CASE Collect
  BY <1>1, CollectStep
<1>2. CASE TimerFires
  BY <1>2, TimerFiresStep
<1>3. CASE FlushEnds
  BY <1>3, FlushEndsStep
<1>4. CASE Destroy
  BY <1>4, DestroyStep
<1>5. CASE DrainBatchEnds
  BY <1>5, DrainBatchEndsStep
<1>6. CASE UNCHANGED bufferVars
  BY <1>6
  DEF bufferVars, BufferInv, Counts, Flags, OneTaker, DrainedAlone
<1>7. QED
  BY <1>1, <1>2, <1>3, <1>4, <1>5, <1>6 DEF BufferNext

\* Every reachable state keeps the invariant (MetricsPersistenceService).
THEOREM BufferInvariance == BufferSpec => []BufferInv
  BY BufferInvInit, BufferInvStep, PTL DEF BufferSpec

\* Every reachable state is well typed; the buffer never outgrows its bound
\* (record).
THEOREM BufferTypesCorrect == BufferSpec => []BufferTypeOK
<1>1. BufferInv => BufferTypeOK
  BY DEF BufferInv, Counts, Flags, BufferTypeOK
<1>2. QED
  BY <1>1, BufferInvariance, PTL

\* No sample waits without a timer or a flush, and no two inserts overlap, for
\* any sizes of batch and buffer (record, flushNow).
THEOREM SampleAwaitedCorrect == BufferSpec => []SampleAwaited
<1>1. BufferInv => SampleAwaited
  <2> SUFFICES ASSUME BufferInv, state = "up" PROVE SampleAwaited
    BY DEF SampleAwaited
  <2>1. buffer > 0 \/ buffer = 0
    BY BufferAssumption DEF BufferInv, Counts
  <2>2. QED
    BY <2>1 DEF BufferInv, OneTaker, SampleAwaited
<1>2. QED
  BY <1>1, BufferInvariance, PTL

\* onModuleDestroy returns with no insert under way, for any sizes of batch
\* and buffer, unless a full batch had come in behind the flush it awaited
\* (onModuleDestroy, flushNow).
THEOREM ShutdownCorrect == BufferSpec => []ShutdownAwaitsFlush
<1>1. BufferInv => ShutdownAwaitsFlush
  <2> SUFFICES ASSUME BufferInv, state = "closed", ~refilled
               PROVE  ~(batch > 0)
    BY DEF ShutdownAwaitsFlush, BufferInv, Flags
  <2>1. batch = 0
    BY DEF BufferInv, DrainedAlone
  <2>2. QED
    BY <2>1
<1>2. QED
  BY <1>1, BufferInvariance, PTL

(***************************************************************************)
(* MetricsHistory                                                          *)
(***************************************************************************)

\* An answer is what some query would still get: writes clear it.
Answered ==
  \/ answer = NoAnswer
  \/ \E from, to \in 0..LastTime, width \in Widths :
       \E rows \in Descending(Grouped(InWindow(from, to), width)) :
         answer = [points |-> Newest(rows), from |-> from, to |-> to, width |-> width]

HistoryInv == HistoryTypeOK /\ Answered

LEMMA HistoryInvInit == HistoryInit => HistoryInv
  BY HistoryAssumption DEF HistoryInit, HistoryInv, HistoryTypeOK, Answered, Never

LEMMA HistoryInvStep ==
  ASSUME HistoryInv, [HistoryNext]_historyVars
  PROVE  HistoryInv'
<1> USE HistoryAssumption DEF HistoryInv, HistoryTypeOK
<1>1. ASSUME NEW i \in 1..Samples, NEW time \in 0..LastTime, Write(i, time)
      PROVE  HistoryInv'
  BY <1>1 DEF Write, Answered, Never, NoAnswer
<1>2. ASSUME NEW from \in 0..LastTime, NEW to \in 0..LastTime,
             NEW width \in Widths, AnswerQuery(from, to, width)
      PROVE  HistoryInv'
  <2>1. InWindow(from, to)' = InWindow(from, to)
    BY <1>2 DEF AnswerQuery, InWindow
  <2>2. /\ recordedAt' = recordedAt
        /\ \E rows \in Descending(Grouped(InWindow(from, to), width)) :
             answer' = [points |-> Newest(rows), from |-> from, to |-> to,
                        width |-> width]
    BY <1>2 DEF AnswerQuery
  <2>3. Grouped(InWindow(from, to), width)' = Grouped(InWindow(from, to), width)
    BY <2>1, <2>2 DEF Grouped, Sample, SamplesAt, PointOf
  <2>4. QED
    BY <2>2, <2>3 DEF Answered
<1>3. CASE UNCHANGED historyVars
  <2>1. recordedAt' = recordedAt /\ answer' = answer
    BY <1>3 DEF historyVars
  <2>2. ASSUME NEW from \in 0..LastTime, NEW to \in 0..LastTime, NEW width \in Widths
        PROVE  Grouped(InWindow(from, to), width)' = Grouped(InWindow(from, to), width)
    BY <2>1 DEF Grouped, Sample, SamplesAt, PointOf, InWindow
  <2>3. NoAnswer' = NoAnswer
    BY DEF NoAnswer
  <2>4. QED
    BY <2>1, <2>2, <2>3 DEF Answered
<1>4. QED
  BY <1>1, <1>2, <1>3 DEF HistoryNext

\* The samples behind a row of the answer.
Behind(p, window, width) ==
  IF width = 0 THEN {p.sum} ELSE SamplesAt(p.start, window, width)

LEMMA StartsInOrder ==
  ASSUME HistoryTypeOK, NEW i \in 1..Samples, NEW width \in Widths
  PROVE  PointOf(i, width) \in Nat
<1>1. recordedAt[i] \in Nat /\ width \in Nat
  BY HistoryAssumption DEF HistoryTypeOK, Never
<1>2. CASE width = 0
  BY <1>1, <1>2 DEF PointOf
<1>3. CASE width # 0
  <2>1. recordedAt[i] \div width \in Nat
    BY <1>1, <1>3
  <2>2. \A m, n \in Nat : m * n \in Nat
    OBVIOUS
  <2>3. QED
    BY <1>1, <1>3, <2>1, <2>2 DEF PointOf
<1>4. QED
  BY <1>2, <1>3

\* The rows before ORDER BY divide the window: each stands for the samples of
\* one time, no two for the same one, and together for all.
LEMMA RowsDivideWindow ==
  ASSUME HistoryTypeOK, NEW width \in Widths, NEW window \in SUBSET (1..Samples)
  PROVE  LET G == Grouped(window, width)
             of(p) == Behind(p, window, width)
         IN /\ \A p \in G :
                 /\ p.start \in Nat
                 /\ of(p) # {} /\ of(p) \subseteq SamplesAt(p.start, window, width)
                 /\ p = IF width = 0 THEN Sample(p.sum) ELSE Bucket(p.start, of(p))
            /\ \A p, q \in G : p # q => of(p) \cap of(q) = {}
            /\ \A i \in window : \E p \in G : i \in of(p) /\ p.start = PointOf(i, width)
<1> USE DEF Behind
<1>1. CASE width = 0
  <2>1. \A i \in window : /\ Sample(i).start = PointOf(i, width)
                          /\ Sample(i).sum = i
    BY <1>1 DEF Sample, PointOf
  <2>2. \A i \in window : PointOf(i, width) \in Nat
    BY StartsInOrder
  <2>3. \A p \in Grouped(window, width) :
          p = Sample(p.sum) /\ p.sum \in window /\ p.start = PointOf(p.sum, width)
    BY <1>1, <2>1 DEF Grouped
  <2>4. \A i \in window : Sample(i) \in Grouped(window, width)
    BY <1>1 DEF Grouped
  <2>5. QED
    BY <1>1, <2>1, <2>2, <2>3, <2>4 DEF SamplesAt
<1>2. CASE width # 0
  <2>1. \A start : \A of : Bucket(start, of).start = start
    BY DEF Bucket
  <2>2. \A i \in window : PointOf(i, width) \in Nat
    BY StartsInOrder
  <2>3. ASSUME NEW p \in Grouped(window, width)
        PROVE  /\ p = Bucket(p.start, SamplesAt(p.start, window, width))
               /\ \E i \in window : p.start = PointOf(i, width)
    BY <1>2, <2>1 DEF Grouped
  <2>4. ASSUME NEW i \in window
        PROVE  \E p \in Grouped(window, width) : p.start = PointOf(i, width)
    BY <1>2, <2>1 DEF Grouped
  <2>5. ASSUME NEW p \in Grouped(window, width)
        PROVE  p.start \in Nat /\ SamplesAt(p.start, window, width) # {}
    BY <2>2, <2>3 DEF SamplesAt
  <2>6. ASSUME NEW p \in Grouped(window, width), NEW q \in Grouped(window, width),
               p # q
        PROVE  /\ p.start # q.start
               /\ SamplesAt(p.start, window, width) \cap SamplesAt(q.start, window, width) = {}
    <3>1. p.start # q.start
      BY <2>3, <2>6
    <3>2. QED
      BY <3>1 DEF SamplesAt
  <2>7. ASSUME NEW i \in window
        PROVE  \E p \in Grouped(window, width) :
                 i \in SamplesAt(p.start, window, width) /\ p.start = PointOf(i, width)
    BY <2>4 DEF SamplesAt
  <2>8. QED
    BY <1>2, <2>3, <2>5, <2>6, <2>7
<1>3. QED
  BY <1>1, <1>2

\* There are as many rows as a number says.
LEMMA RowsFinite ==
  ASSUME HistoryTypeOK, NEW width \in Widths, NEW window \in SUBSET (1..Samples)
  PROVE  Cardinality(Grouped(window, width)) \in Nat
<1> DEFINE G == Grouped(window, width)
           of(p) == Behind(p, window, width)
           rowOf == [i \in window |-> CHOOSE p \in G : i \in of(p)]
<1>1. IsFiniteSet(window)
  <2>1. IsFiniteSet(1..Samples)
    BY HistoryAssumption, FS_Interval
  <2>2. QED
    BY <2>1, FS_Subset
<1>2. /\ \A p \in G : of(p) # {} /\ of(p) \subseteq window
      /\ \A p, q \in G : p # q => of(p) \cap of(q) = {}
      /\ \A i \in window : \E p \in G : i \in of(p)
  BY RowsDivideWindow DEF SamplesAt
<1>3. rowOf \in Surjection(window, G)
  <2> HIDE DEF G, of
  <2>1. \A i \in window : rowOf[i] \in G /\ i \in of(rowOf[i])
    BY <1>2
  <2>2. ASSUME NEW p \in G
        PROVE  \E i \in window : rowOf[i] = p
    <3>1. PICK i \in window : i \in of(p)
      BY <1>2
    <3>2. rowOf[i] \in G /\ i \in of(rowOf[i])
      BY <2>1
    <3>3. rowOf[i] = p
      BY <1>2, <3>1, <3>2
    <3>4. QED
      BY <3>3
  <2>3. QED
    BY <2>1, <2>2 DEF Surjection
<1>4. QED
  BY <1>1, <1>3, FS_Surjection, FS_CardinalityType

\* What Newest keeps of the rows in descending order: the last places of the
\* answer are the first rows.
LEMMA NewestOfRows ==
  ASSUME NEW G, Cardinality(G) \in Nat, NEW rows \in Descending(G)
  PROVE  LET P == Newest(rows)
             k == Len(P)
             all == Cardinality(G)
         IN /\ k \in 0..all /\ DOMAIN P = 1..k
            /\ k = all \/ k = MaxPoints
            /\ k <= MaxPoints
            /\ \A n \in 1..k : P[n] = rows[k + 1 - n]
<1> USE HistoryAssumption
<1> DEFINE all == Cardinality(G)
           k == Kept(rows)
           P == Newest(rows)
<1>1. rows \in [1..all -> G]
  BY DEF Descending, Bijection, Injection
<1>2. Len(rows) = all
  <2>1. rows \in Seq(G)
    BY <1>1, SeqDef
  <2>2. QED
    BY <1>1, <2>1, LenProperties
<1>3. k \in 0..all /\ k <= MaxPoints /\ (k = all \/ k = MaxPoints)
  BY <1>2 DEF Kept
<1>4. P = [n \in 1..k |-> rows[k + 1 - n]]
  BY DEF Newest
<1>5. Len(P) = k
  <2> HIDE DEF k, P
  <2>1. \A n \in 1..k : k + 1 - n \in 1..all
    BY <1>3
  <2>2. P \in [1..k -> G]
    BY <1>1, <1>4, <2>1
  <2>3. P \in Seq(G) /\ k \in Nat
    BY <1>3, <2>2, SeqDef
  <2>4. QED
    BY <1>3, <2>2, <2>3, LenProperties
<1>6. QED
  <2> HIDE DEF k, P, all
  <2>1. DOMAIN P = 1..k /\ \A n \in 1..k : P[n] = rows[k + 1 - n]
    BY <1>4
  <2>2. QED
    BY <1>3, <1>5, <2>1 DEF P, all

LEMMA AnswerIsNewest ==
  ASSUME HistoryTypeOK, NEW width \in Widths, NEW window \in SUBSET (1..Samples),
         NEW rows \in Descending(Grouped(window, width))
  PROVE  LET P == Newest(rows)
             of(n) == Behind(P[n], window, width)
             at(n) == SamplesAt(P[n].start, window, width)
         IN /\ Len(P) <= MaxPoints
            /\ \A m, n \in DOMAIN P :
                 m < n => P[m].start <= P[n].start /\ of(m) \cap of(n) = {}
            /\ \A n \in DOMAIN P :
                 /\ of(n) # {} /\ of(n) \subseteq at(n)
                 /\ P[n] = IF width = 0 THEN Sample(P[n].sum)
                                        ELSE Bucket(P[n].start, of(n))
            /\ \A i \in window :
                 \/ \E n \in DOMAIN P : i \in of(n)
                 \/ /\ Len(P) = MaxPoints
                    /\ \A n \in DOMAIN P : P[n].start >= PointOf(i, width)
<1> DEFINE G == Grouped(window, width)
           all == Cardinality(G)
           P == Newest(rows)
           k == Len(P)
           behind(p) == Behind(p, window, width)
<1>1. /\ k \in 0..all /\ DOMAIN P = 1..k
      /\ k = all \/ k = MaxPoints
      /\ k <= MaxPoints
      /\ \A n \in 1..k : P[n] = rows[k + 1 - n]
  BY RowsFinite, NewestOfRows
<1>2. /\ rows \in [1..all -> G]
      /\ \A m, n \in 1..all : rows[m] = rows[n] => m = n
      /\ \A p \in G : \E n \in 1..all : rows[n] = p
      /\ \A m, n \in 1..all : m < n => rows[m].start >= rows[n].start
  BY DEF Descending, Bijection, Injection, Surjection, IsInjective
<1>3. /\ \A p \in G :
           /\ p.start \in Nat
           /\ behind(p) # {} /\ behind(p) \subseteq SamplesAt(p.start, window, width)
           /\ p = IF width = 0 THEN Sample(p.sum) ELSE Bucket(p.start, behind(p))
      /\ \A p, q \in G : p # q => behind(p) \cap behind(q) = {}
      /\ \A i \in window : \E p \in G : i \in behind(p) /\ p.start = PointOf(i, width)
  BY RowsDivideWindow
<1>4. all \in Nat
  BY RowsFinite
<1> HIDE DEF G, all, P, k, behind
<1>5. \A n \in 1..k : k + 1 - n \in 1..all /\ P[n] \in G
  BY <1>1, <1>2, <1>4
<1>6. ASSUME NEW m \in 1..k, NEW n \in 1..k, m < n
      PROVE  P[m].start <= P[n].start /\ behind(P[m]) \cap behind(P[n]) = {}
  <2>1. k + 1 - n < k + 1 - m /\ k + 1 - m \in 1..all /\ k + 1 - n \in 1..all
    BY <1>1, <1>4, <1>5, <1>6
  <2>2. P[m] # P[n] /\ P[m].start <= P[n].start
    BY <1>1, <1>2, <1>3, <1>5, <2>1
  <2>3. QED
    BY <1>3, <1>5, <2>2
<1>7. ASSUME NEW i \in window, \A n \in 1..k : i \notin behind(P[n])
      PROVE  k = MaxPoints /\ \A n \in 1..k : P[n].start >= PointOf(i, width)
  <2>1. PICK p \in G : i \in behind(p) /\ p.start = PointOf(i, width)
    BY <1>3
  <2>2. PICK j \in 1..all : rows[j] = p
    BY <1>2
  <2>3. j > k
    <3>1. SUFFICES ASSUME j <= k PROVE FALSE
      BY <1>1, <1>4
    <3>2. k + 1 - j \in 1..k /\ k + 1 - (k + 1 - j) = j
      BY <1>1, <1>4, <3>1
    <3>3. P[k + 1 - j] = p
      BY <1>1, <2>2, <3>2
    <3>4. QED
      BY <1>7, <2>1, <3>2, <3>3
  <2>4. ASSUME NEW n \in 1..k
        PROVE  P[n].start >= PointOf(i, width)
    <3>1. k + 1 - n \in 1..all /\ k + 1 - n < j
      BY <1>1, <1>4, <1>5, <2>3
    <3>2. QED
      BY <1>1, <1>2, <2>1, <2>2, <3>1
  <2>5. QED
    BY <1>1, <1>4, <2>3, <2>4
<1>8. QED
  <2>1. \A n \in 1..k : /\ behind(P[n]) # {}
                        /\ behind(P[n]) \subseteq SamplesAt(P[n].start, window, width)
                        /\ P[n] = IF width = 0 THEN Sample(P[n].sum)
                                               ELSE Bucket(P[n].start, behind(P[n]))
    BY <1>3, <1>5
  <2>2. QED
    BY <1>1, <1>6, <1>7, <2>1 DEF P, k, behind

\* Every reachable answer is right about its own rows (MetricsHistoryService).
THEOREM HistoryInvariance == HistorySpec => []HistoryInv
  BY HistoryInvInit, HistoryInvStep, PTL DEF HistorySpec

\* The answer to a query is the newest of what was asked, whole and in order,
\* for any samples, any number of them and any width (queryRaw,
\* queryBucketed).
THEOREM HistoryCorrect == HistorySpec => []HistoryNewest
<1>1. ASSUME HistoryInv
      PROVE  HistoryNewest
  <2> SUFFICES ASSUME answer # NoAnswer
               PROVE  HistoryNewest
    BY DEF HistoryNewest
  <2>1. PICK from \in 0..LastTime, to \in 0..LastTime, width \in Widths :
          \E rows \in Descending(Grouped(InWindow(from, to), width)) :
            answer = [points |-> Newest(rows), from |-> from, to |-> to,
                      width |-> width]
    BY <1>1 DEF HistoryInv, Answered
  <2>2. PICK rows \in Descending(Grouped(InWindow(from, to), width)) :
          answer = [points |-> Newest(rows), from |-> from, to |-> to,
                    width |-> width]
    BY <2>1
  <2>3. /\ answer.points = Newest(rows) /\ answer.width = width
        /\ answer.from = from /\ answer.to = to
    BY <2>2
  <2> DEFINE window == InWindow(from, to)
  <2>4. window \in SUBSET (1..Samples) /\ HistoryTypeOK
    BY <1>1 DEF InWindow, HistoryInv
  <2> HIDE DEF window
  <2> DEFINE P == Newest(rows)
             of(n) == Behind(P[n], window, width)
             at(n) == SamplesAt(P[n].start, window, width)
  <2>5. /\ Len(P) <= MaxPoints
        /\ \A m, n \in DOMAIN P :
             m < n => P[m].start <= P[n].start /\ of(m) \cap of(n) = {}
        /\ \A n \in DOMAIN P :
             /\ of(n) # {} /\ of(n) \subseteq at(n)
             /\ P[n] = IF width = 0 THEN Sample(P[n].sum)
                                    ELSE Bucket(P[n].start, of(n))
        /\ \A i \in window :
             \/ \E n \in DOMAIN P : i \in of(n)
             \/ /\ Len(P) = MaxPoints
                /\ \A n \in DOMAIN P : P[n].start >= PointOf(i, width)
    BY <2>4, AnswerIsNewest DEF window
  <2>6. \A n : of(n) = IF width = 0 THEN {P[n].sum} ELSE at(n)
    BY DEF Behind
  <2>7. answer.points = P /\ window = InWindow(answer.from, answer.to)
    BY <2>3 DEF window
  <2> HIDE DEF P, of
  <2>8. \A n \in DOMAIN P :
          P[n] = IF width = 0 THEN Sample(P[n].sum) ELSE Bucket(P[n].start, at(n))
    BY <2>5, <2>6
  <2>9. QED
    BY <2>3, <2>5, <2>6, <2>7, <2>8 DEF HistoryNewest
<1>2. QED
  BY <1>1, HistoryInvariance, PTL

\* The times of the samples keep their type (MetricSample).
THEOREM HistoryTypesCorrect == HistorySpec => []HistoryTypeOK
<1>1. HistoryInv => HistoryTypeOK
  BY DEF HistoryInv
<1>2. QED
  BY <1>1, HistoryInvariance, PTL

(***************************************************************************)
(* MCSharedServices                                                        *)
(***************************************************************************)

\* Side by side, the reservations, the buffer, the history, the gateway, the
\* cache and the relays each do what they do alone, so what is proved of one
\* holds of the whole (ProductsService, MetricsPersistenceService,
\* MetricsHistoryService, PaymentGateway, OrdersService, OutboxRelayService).
THEOREM ServicesRunAlone ==
  FairSpec =>
    /\ StockSpec /\ BufferSpec /\ HistorySpec
    /\ GatewaySpec /\ OrderCacheSpec /\ RelaySpec
<1>1. Init => /\ StockInit /\ BufferInit /\ HistoryInit
              /\ GatewayInit /\ OrderCacheInit /\ RelayInit
  BY DEF Init
<1>2. ASSUME [Next]_sharedVars
      PROVE  /\ [StockNext]_stockVars /\ [BufferNext]_bufferVars
             /\ [HistoryNext]_historyVars /\ [GatewayNext]_gatewayVars
             /\ [OrderCacheNext]_orderCacheVars /\ [RelayNext]_relayVars
  BY <1>2 DEF Next, StockMoves, BufferMoves, HistoryMoves, GatewayMoves,
              CacheMoves, RelayMoves, Moves, sharedVars, serviceVars, messageVars
<1>3. QED
  BY <1>1, <1>2, PTL DEF FairSpec, StockSpec, BufferSpec, HistorySpec,
                         GatewaySpec, OrderCacheSpec, RelaySpec

\* Every variable of the composition keeps its type (ProductsService,
\* MetricsPersistenceService, MetricSample, PaymentGateway, OrdersService,
\* OutboxRelayService).
THEOREM ServicesTypesCorrect == FairSpec => []TypeOK
  BY ServicesRunAlone, StockTypesCorrect, BufferTypesCorrect,
     HistoryTypesCorrect, GatewayTypesCorrect, CacheTypesCorrect,
     RelayTypesCorrect, PTL DEF TypeOK

=============================================================================

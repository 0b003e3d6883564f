-------------------------- MODULE StockReservation --------------------------
(***************************************************************************)
(* reserveStock inside the inbox transactions of several inventory         *)
(* handlers: one conditional UPDATE per line, each waiting for its row     *)
(* lock and keeping it to the end, the compensation of a short order, and  *)
(* the lock cycles of orders that list the same products the other way     *)
(* round, which the database breaks by aborting one of them.               *)
(***************************************************************************)
EXTENDS Naturals, FiniteSets

CONSTANTS
  Reservation,  \* orders being reserved, one delivery each
  Row,          \* products
  NoRow,
  MaxNeed,      \* bound on the quantity of a line
  MaxStock,     \* bound on the stock of a row
  MaxAttempts   \* handler attempts before the message is dead-lettered

ASSUME StockAssumption ==
  /\ IsFiniteSet(Reservation) /\ NoRow \notin Row
  /\ MaxNeed \in Nat /\ MaxStock \in Nat /\ MaxAttempts \in Nat \ {0}

VARIABLES
  stock,     \* [Row -> committed stock]
  need,      \* [Reservation -> [Row -> quantity of its line, 0 for none]]
  phase,     \* [Reservation -> where its handler is]
  taken,     \* [Reservation -> rows decremented by its open transaction]
  locked,    \* [Reservation -> rows that transaction holds]
  awaits,    \* [Reservation -> the row its UPDATE is about]
  attempts   \* [Reservation -> attempts that failed]

inTx == <<taken, locked, awaits>>
stockVars == <<stock, need, phase, inTx, attempts>>

StockInit ==
  /\ stock \in [Row -> 0..MaxStock]
  /\ need \in [Reservation -> [Row -> 0..MaxNeed] \ {[p \in Row |-> 0]}]
  /\ phase = [t \in Reservation |-> "queued"]
  /\ taken = [t \in Reservation |-> {}]
  /\ locked = [t \in Reservation |-> {}]
  /\ awaits = [t \in Reservation |-> NoRow]
  /\ attempts = [t \in Reservation |-> 0]

LinesIn(t) == {p \in Row : need[t][p] > 0}

Deliver(t) ==
  /\ phase[t] = "queued"
  /\ phase' = [phase EXCEPT ![t] = "taking"]
  /\ UNCHANGED <<stock, need, inTx, attempts>>

\* The loop reaches the line of row p, in whatever order the lines come.
Send(t, p) ==
  /\ phase[t] = "taking" /\ awaits[t] = NoRow
  /\ p \in LinesIn(t) \ taken[t]
  /\ awaits' = [awaits EXCEPT ![t] = p]
  /\ UNCHANGED <<stock, need, phase, taken, locked, attempts>>

RowFree(t, p) == \A u \in Reservation \ {t} : p \notin locked[u]

Enough(t, p) == stock[p] >= need[t][p]

\* The UPDATE has the row, and it matches.
Take(t) ==
  /\ awaits[t] # NoRow
  /\ RowFree(t, awaits[t]) /\ Enough(t, awaits[t])
  /\ taken' = [taken EXCEPT ![t] = @ \cup {awaits[t]}]
  /\ locked' = [locked EXCEPT ![t] = @ \cup {awaits[t]}]
  /\ awaits' = [awaits EXCEPT ![t] = NoRow]
  /\ UNCHANGED <<stock, need, phase, attempts>>

\* It affects no row, locked or not, since committed stock is too low:
\* InsufficientStockError.
Short(t) ==
  /\ awaits[t] # NoRow
  /\ ~Enough(t, awaits[t])
  /\ awaits' = [awaits EXCEPT ![t] = NoRow]
  /\ phase' = [phase EXCEPT ![t] = "restoring"]
  /\ UNCHANGED <<stock, need, taken, locked, attempts>>

\* restoreStock(applied, manager), line by line, on rows it holds.
PutBack(t, p) ==
  /\ phase[t] = "restoring"
  /\ p \in taken[t]
  /\ taken' = [taken EXCEPT ![t] = @ \ {p}]
  /\ UNCHANGED <<stock, need, phase, locked, awaits, attempts>>

\* Seeded fault: the caller's FAILED commits with the lines still taken.
NotRestored(t) == TRUE

Restored(t) == taken[t] = {}

\* The transaction ends, and what it wrote is there.
CommitAs(t, to) ==
  /\ stock' = [p \in Row |-> IF p \in taken[t] THEN stock[p] - need[t][p] ELSE stock[p]]
  /\ phase' = [phase EXCEPT ![t] = to]
  /\ taken' = [taken EXCEPT ![t] = {}]
  /\ locked' = [locked EXCEPT ![t] = {}]
  /\ UNCHANGED <<need, awaits, attempts>>

CommitReserved(t) ==
  /\ phase[t] = "taking" /\ taken[t] = LinesIn(t)
  /\ CommitAs(t, "reserved")

CommitFailed(t) ==
  /\ phase[t] = "restoring" /\ Restored(t)
  /\ CommitAs(t, "failed")

\* Seeded fault: the transaction is left open, with its locks.
AbandonTx(t) ==
  /\ taken' = [taken EXCEPT ![t] = {}]
  /\ awaits' = [awaits EXCEPT ![t] = NoRow]
  /\ locked' = locked

Rollback(t) ==
  /\ taken' = [taken EXCEPT ![t] = {}]
  /\ awaits' = [awaits EXCEPT ![t] = NoRow]
  /\ locked' = [locked EXCEPT ![t] = {}]

\* The handler throws: rollback, then a retry or the dead-letter queue.
Throw(t) ==
  /\ Rollback(t)
  /\ attempts' = [attempts EXCEPT ![t] = @ + 1]
  /\ phase' = [phase EXCEPT ![t] =
                 IF attempts[t] + 1 = MaxAttempts THEN "parked" ELSE "queued"]
  /\ UNCHANGED <<stock, need>>

\* u's UPDATE matches a row that v holds.
WaitsFor(u, v) ==
  /\ v # u
  /\ awaits[u] # NoRow /\ Enough(u, awaits[u])
  /\ awaits[u] \in locked[v]

\* t is in a cycle: of some transactions, t among them, each waits for one of
\* them and is waited for by one of them.
Deadlocked(t) ==
  \E S \in SUBSET Reservation :
    /\ t \in S
    /\ \A u \in S : \E v, w \in S : WaitsFor(u, v) /\ WaitsFor(w, u)

\* The database aborts one transaction of the cycle.
AbortDeadlocked(t) == Deadlocked(t) /\ Throw(t)

\* Anything else fails: a statement, the transition's compare-and-set.
HandlerFails(t) == phase[t] \in {"taking", "restoring"} /\ Throw(t)

\* A cancel restores a line, or the replenishment adds to a row: a statement
\* of its own that waits for the row.
AddStock(p, n) ==
  /\ \A t \in Reservation : p \notin locked[t]
  /\ stock[p] + n <= MaxStock
  /\ stock' = [stock EXCEPT ![p] = @ + n]
  /\ UNCHANGED <<need, phase, inTx, attempts>>

ReservationStep(t) ==
  \/ Deliver(t) \/ Take(t) \/ Short(t)
  \/ \E p \in Row : Send(t, p) \/ PutBack(t, p)
  \/ CommitReserved(t) \/ CommitFailed(t) \/ AbortDeadlocked(t)

StockNext ==
  \/ \E t \in Reservation : ReservationStep(t) \/ HandlerFails(t)
  \/ \E p \in Row, n \in 1..MaxNeed : AddStock(p, n)

StockSpec == StockInit /\ [][StockNext]_stockVars

(***************************************************************************)
(* Properties                                                              *)
(***************************************************************************)

StockTypeOK ==
  /\ stock \in [Row -> Nat]
  /\ need \in [Reservation -> [Row -> Nat]]
  /\ phase \in [Reservation ->
       {"queued", "taking", "restoring", "reserved", "failed", "parked"}]
  /\ taken \in [Reservation -> SUBSET Row]
  /\ locked \in [Reservation -> SUBSET Row]
  /\ awaits \in [Reservation -> Row \cup {NoRow}]
  /\ attempts \in [Reservation -> 0..MaxAttempts]

Ledger == INSTANCE StockLedger WITH
  outcome <- [t \in Reservation |->
                IF phase[t] \in {"reserved", "failed"} THEN phase[t] ELSE "open"]

\* Line by line, with locks, compensation and aborts, a reservation still
\* takes all its lines at once from stock that has them, or takes nothing
\* (reserveStock, InventoryConsumer.reserve).
LedgerSpec == Ledger!Spec

Waits(t) == \E u \in Reservation : WaitsFor(t, u)

\* What t waits for, and what that waits for, and so on, is in S.
WaitsWithin(t, S) ==
  t \in S /\ \A u \in S, v \in Reservation : WaitsFor(u, v) => v \in S

\* Wherever a reservation waits, following the locks leads to a transaction
\* that is still at work, and will release them, or to one of a cycle, which
\* the database aborts: no lock outlives its transaction, whichever way the
\* transaction ended (reserveStock, InventoryConsumer.reserve).
WaitsEnd ==
  \A t \in Reservation : Waits(t) =>
    \A S \in SUBSET Reservation : WaitsWithin(t, S) =>
      \E u \in S :
        \/ Deadlocked(u)
        \/ phase[u] \in {"taking", "restoring"} /\ ~Waits(u)

Settled(t) == phase[t] \in {"reserved", "failed", "parked"}

\* No reservation waits for a row for ever, in whatever order the rows are
\* locked: once begun it commits, or its message is parked (reserveStock).
EventuallySettled == \A t \in Reservation : phase[t] = "taking" ~> Settled(t)

=============================================================================

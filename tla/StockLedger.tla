----------------------------- MODULE StockLedger -----------------------------
(***************************************************************************)
(* What reserving stock means for everyone else: an order takes all of its *)
(* lines in one step, from rows that have them, or takes nothing.          *)
(* StockReservation implements it line by line, and OrderPipeline, which   *)
(* reserves in one step, with its cancels, restocks and redeliveries.      *)
(***************************************************************************)
EXTENDS Naturals

CONSTANTS Reservation, Row

VARIABLES
  stock,   \* [Row -> units on the shelf]
  need,    \* [Reservation -> [Row -> units its order asks for]]
  outcome  \* [Reservation -> "open", "reserved" or "failed"]

ledgerVars == <<stock, need, outcome>>

Init ==
  /\ stock \in [Row -> Nat]
  /\ need \in [Reservation -> [Row -> Nat]]
  /\ outcome = [t \in Reservation |-> "open"]

Reserve(t) ==
  /\ outcome[t] = "open"
  /\ \A p \in Row : stock[p] >= need[t][p]
  /\ stock' = [p \in Row |-> stock[p] - need[t][p]]
  /\ outcome' = [outcome EXCEPT ![t] = "reserved"]
  /\ need' = need

GiveUp(t) ==
  /\ outcome[t] = "open"
  /\ outcome' = [outcome EXCEPT ![t] = "failed"]
  /\ UNCHANGED <<stock, need>>

\* A cancelled order gives a line back, or the shelf is replenished.
Add(p) ==
  /\ stock'[p] >= stock[p]
  /\ stock' = [stock EXCEPT ![p] = stock'[p]]
  /\ UNCHANGED <<need, outcome>>

Next ==
  \/ \E t \in Reservation : Reserve(t) \/ GiveUp(t)
  \/ \E p \in Row : Add(p)

Spec == Init /\ [][Next]_ledgerVars

=============================================================================

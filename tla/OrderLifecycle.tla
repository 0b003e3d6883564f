--------------------------- MODULE OrderLifecycle ---------------------------
(***************************************************************************)
(* What the order pipeline promises, with no queue, no consumer and no     *)
(* database in sight: an order is placed, reserved or rejected, possibly   *)
(* cancelled by its owner while payment is not confirmed, confirmed once,  *)
(* decided once by the payment provider, and settled exactly as decided.   *)
(* OrderPipeline implements this specification.                            *)
(***************************************************************************)
EXTENDS OrderFSM

CONSTANT Order

VARIABLES
  status,     \* [Order -> status, or "NONE" before the order is placed]
  confirmed,  \* the orders whose owner has confirmed payment
  charge      \* [Order -> the provider's decision, "none" until it is made]

vars == <<status, confirmed, charge>>

Init ==
  /\ status = [o \in Order |-> "NONE"]
  /\ confirmed = {}
  /\ charge = [o \in Order |-> "none"]

Move(o, from, to) ==
  /\ status[o] = from
  /\ status' = [status EXCEPT ![o] = to]

Place(o) == Move(o, "NONE", "PENDING") /\ UNCHANGED <<confirmed, charge>>

Reserve(o) == Move(o, "PENDING", "RESERVED") /\ UNCHANGED <<confirmed, charge>>

Reject(o) == Move(o, "PENDING", "FAILED") /\ UNCHANGED <<confirmed, charge>>

\* The owner may withdraw only while payment has not been confirmed.
Cancel(o) ==
  /\ o \notin confirmed
  /\ Move(o, "PENDING", "CANCELLED") \/ Move(o, "RESERVED", "CANCELLED")
  /\ UNCHANGED <<confirmed, charge>>

Confirm(o) ==
  /\ status[o] = "RESERVED"
  /\ o \notin confirmed
  /\ confirmed' = confirmed \cup {o}
  /\ UNCHANGED <<status, charge>>

\* The provider answers once, and only for a confirmed, reserved order.
Decide(o) ==
  /\ status[o] = "RESERVED"
  /\ o \in confirmed
  /\ charge[o] = "none"
  /\ \E answer \in {"authorized", "declined"} :
       charge' = [charge EXCEPT ![o] = answer]
  /\ UNCHANGED <<status, confirmed>>

\* The order follows the provider's decision, never the other way round.
Settle(o) ==
  /\ \/ charge[o] = "authorized" /\ Move(o, "RESERVED", "PAID")
     \/ charge[o] = "declined" /\ Move(o, "RESERVED", "FAILED")
  /\ UNCHANGED <<confirmed, charge>>

Complete(o) == Move(o, "PAID", "COMPLETED") /\ UNCHANGED <<confirmed, charge>>

Next ==
  \E o \in Order :
    \/ Place(o) \/ Reserve(o) \/ Reject(o) \/ Cancel(o)
    \/ Confirm(o) \/ Decide(o) \/ Settle(o) \/ Complete(o)

Spec == Init /\ [][Next]_vars

=============================================================================

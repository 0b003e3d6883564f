----------------------------- MODULE ChargeOnce -----------------------------
(***************************************************************************)
(* What the payment gateway promises its caller for one order: the         *)
(* provider decides once, and every caller who gets an answer gets that    *)
(* decision.  PaymentGateway implements it; OrderPipeline assumes it (its  *)
(* Answers).                                                               *)
(***************************************************************************)
CONSTANT Delivery

VARIABLES
  decision,  \* the provider's decision, "none" until it is made
  answer     \* [Delivery -> the answer its handler holds]

vars == <<decision, answer>>

Init ==
  /\ decision = "none"
  /\ answer = [d \in Delivery |-> "none"]

Decide ==
  /\ decision = "none"
  /\ decision' \in {"authorized", "declined"}
  /\ answer' = answer

Answer(d) ==
  /\ decision # "none"
  /\ answer' = [answer EXCEPT ![d] = decision]
  /\ decision' = decision

\* The handler ends, throws or dies; a later one asks again.
Forget(d) ==
  /\ answer' = [answer EXCEPT ![d] = "none"]
  /\ decision' = decision

Next == Decide \/ \E d \in Delivery : Answer(d) \/ Forget(d)

Spec == Init /\ [][Next]_vars

=============================================================================

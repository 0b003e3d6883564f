-------------------------- MODULE MCOrderPipeline --------------------------
(* Instances of OrderPipeline for TLC. *)
EXTENDS OrderPipeline, TLC

CONSTANTS o1, o2, p1, p2

\* One order of one product, in stock: every fault has its chance.
FaultLines == [o \in Order |-> [p \in Product |-> 1]]
FaultStock == [p \in Product |-> 1]

\* Two orders for the last unit of p1, one of them also wanting p2.
ContendedLines == (o1 :> (p1 :> 1 @@ p2 :> 1)) @@ (o2 :> (p1 :> 1 @@ p2 :> 0))
ContendedStock == (p1 :> 1 @@ p2 :> 1)
=============================================================================

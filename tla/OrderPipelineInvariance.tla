---------------------- MODULE OrderPipelineInvariance ----------------------
(***************************************************************************)
(* The inductive invariant of OrderPipeline, the safety properties that    *)
(* follow from it, and the refinement of OrderLifecycle.                   *)
(***************************************************************************)
EXTENDS OrderPipelineProofs

(***************************************************************************)
(* What a step does to an order, a message and a delivery                  *)
(***************************************************************************)

\* A status stays, or moves along the table; NONE becomes PENDING.
StatusMove(from, next) ==
  \/ next = from
  \/ from = "NONE" /\ next = "PENDING"
  \/ from = "PENDING" /\ next \in {"RESERVED", "FAILED", "CANCELLED"}
  \/ from = "RESERVED" /\ next \in {"PAID", "FAILED", "CANCELLED"}
  \/ from = "PAID" /\ next = "COMPLETED"

LEMMA StatusMoves ==
  ASSUME IInv, [Next]_vars, NEW x \in Order
  PROVE  StatusMove(status[x], status'[x])
<1>1. CASE UNCHANGED <<status, paymentInitiated, emitted, inbox>>
  BY <1>1 DEF StatusMove
<1>2. ASSUME NEW o \in Order, CreateOrder(o)
      PROVE  StatusMove(status[x], status'[x])
  BY <1>2, OrderFacts DEF CreateOrder, StatusMove
<1>3. ASSUME NEW s \in PaySession, PayClaim(s)
      PROVE  StatusMove(status[x], status'[x])
  BY <1>3 DEF PayClaim, StatusMove
<1>4. ASSUME NEW s \in CancelSession, CancelClaim(s), CancelClaimable(s[1])
      PROVE  StatusMove(status[x], status'[x])
  BY <1>4, OrderFacts DEF CancelClaim, CancelClaimable, StatusMove
<1>5. ASSUME NEW d \in Delivery,
             ReserveCommit(d) \/ PaymentCommit(d) \/ CompleteCommit(d)
      PROVE  StatusMove(status[x], status'[x])
  <2>1. \A key, from, target :
          Transition(d, key, from, target) =>
            /\ status[d[2]] = from
            /\ status'[x] = IF x = d[2] THEN target ELSE status[x]
    BY OrderFacts DEF Transition
  <2>2. CASE \E target \in {"RESERVED", "FAILED"} :
               Transition(d, "Created", "PENDING", target)
    BY <2>1, <2>2 DEF StatusMove
  <2>3. CASE \E target \in {"PAID", "FAILED"} :
               Transition(d, "InventoryReserved", "RESERVED", target)
    BY <2>1, <2>3 DEF StatusMove
  <2>4. CASE Transition(d, "PaymentProcessed", "PAID", "COMPLETED")
    BY <2>1, <2>4 DEF StatusMove
  <2>5. QED
    BY <1>5, <2>2, <2>3, <2>4, CommitSteps
<1>6. ASSUME NEW d \in Delivery, NotifyCommit(d)
      PROVE  StatusMove(status[x], status'[x])
  BY <1>6 DEF NotifyCommit, orderVars, StatusMove
<1>7. QED
  BY <1>1, <1>2, <1>3, <1>4, <1>5, <1>6, OrderSteps

\* The inbox and the set of confirmed orders only grow, and so does the
\* count of each event.
LEMMA Growth ==
  ASSUME IInv, [Next]_vars
  PROVE  /\ inbox \subseteq inbox'
         /\ paymentInitiated \subseteq paymentInitiated'
         /\ \A m \in Msg : emitted'[m] >= emitted[m]
<1> DEFINE Grown ==
             /\ inbox \subseteq inbox'
             /\ paymentInitiated \subseteq paymentInitiated'
             /\ \A m \in Msg : emitted'[m] >= emitted[m]
<1>1. ASSUME NEW m \in Msg, Enqueue(m)
      PROVE  \A n \in Msg : emitted'[n] >= emitted[n]
  <2>1. emitted \in [Msg -> Nat]
    BY OrderFacts
  <2>2. QED
    BY <1>1, <2>1 DEF Enqueue
<1>2. emitted' = emitted => \A m \in Msg : emitted'[m] >= emitted[m]
  BY OrderFacts
<1>3. CASE UNCHANGED <<status, paymentInitiated, emitted, inbox>>
  BY <1>2, <1>3
<1>4. ASSUME NEW o \in Order, CreateOrder(o)
      PROVE  Grown
  BY <1>1, <1>4, OrderFacts DEF CreateOrder
<1>5. ASSUME NEW s \in PaySession, PayClaim(s), PayClaimable(s[1])
      PROVE  Grown
  BY <1>1, <1>5, OrderFacts DEF PayClaim
<1>6. ASSUME NEW s \in CancelSession, CancelClaim(s), CancelClaimable(s[1])
      PROVE  Grown
  BY <1>2, <1>6 DEF CancelClaim, outboxVars
<1>7. ASSUME NEW d \in Delivery,
             ReserveCommit(d) \/ PaymentCommit(d) \/ CompleteCommit(d)
      PROVE  Grown
  <2>1. inbox \subseteq inbox' /\ paymentInitiated' = paymentInitiated
    BY <1>7 DEF ReserveCommit, PaymentCommit, CompleteCommit,
                TransitionCommit, RecordInbox
  <2>2. \/ UNCHANGED outboxVars
        \/ \E key \in Key : Enqueue(<<key, d[2]>>)
    BY <1>7, CommitSteps DEF Key
  <2>3. QED
    BY <1>1, <1>2, <2>1, <2>2, OrderFacts DEF outboxVars
<1>8. ASSUME NEW d \in Delivery, NotifyCommit(d)
      PROVE  Grown
  BY <1>2, <1>8 DEF NotifyCommit, RecordInbox, orderVars, outboxVars
<1>9. QED
  BY <1>3, <1>4, <1>5, <1>6, <1>7, <1>8, OrderSteps

(***************************************************************************)
(* Deliveries                                                              *)
(***************************************************************************)

\* A delivery moves by itself: one is published, or copied by an interrupted
\* retry, or one that exists goes to another place.
LEMMA DeliverySteps ==
  ASSUME [Next]_vars
  PROVE  \/ UNCHANGED <<at, saw, to>>
         \/ \E m \in Msg : RelayPublish(m)
         \/ \E d \in Delivery : RetryCrash(d)
         \/ \E d \in Delivery :
              \/ Leave(d, "queued") /\ at[d] \in {"queued", "charged",
                                                 "working", "done"}
              \/ Leave(d, "dead") /\ at[d] \in {"queued", "charged", "working"}
              \/ Skip(d) \/ Ack(d)
              \/ Authorize(d) \/ NotifySend(d) \/ NotifyCommit(d)
              \/ ReserveRead(d) \/ PaymentRead(d) \/ CompleteRead(d)
              \/ ReserveCommit(d) \/ PaymentCommit(d) \/ CompleteCommit(d)
<1>1. CASE \E d \in Delivery : TransitionConflict(d) \/ HandlerThrows(d)
  BY <1>1 DEF TransitionConflict, HandlerThrows, Retry
<1>2. CASE \E d \in Delivery : HandlerCrash(d)
  BY <1>2 DEF HandlerCrash
<1>3. CASE \/ \E s \in PaySession : PayRead(s) \/ PayClaim(s) \/ PayCrash(s)
           \/ \E o \in Order : CreateOrder(o)
  BY <1>3 DEF PayRead, PayClaim, PayCrash, CreateOrder, deliveryVars
<1>4. CASE \E s \in CancelSession :
             \/ CancelRead(s) \/ CancelClaim(s) \/ CancelEnd(s)
             \/ CancelCrash(s) \/ \E p \in Product : CancelRestore(s, p)
  BY <1>4 DEF CancelRead, CancelClaim, CancelEnd, CancelCrash, CancelRestore,
              deliveryVars
<1>5. CASE \/ ReplenishRead \/ \E p \in Product : ReplenishProduct(p)
           \/ RelayCommit \/ RelayCrash
  BY <1>5 DEF ReplenishRead, ReplenishProduct, RelayCommit, RelayCrash,
              deliveryVars
<1>6. CASE UNCHANGED vars
  BY <1>6 DEF vars, deliveryVars
<1>7. QED
  BY <1>1, <1>2, <1>3, <1>4, <1>5, <1>6, StepCases

\* Where a delivery can be after a step: it never disappears, what is at the
\* broker has been enqueued, what is acknowledged is in the inbox.
LEMMA Places ==
  ASSUME IInv, [Next]_vars, NEW x \in Delivery
  PROVE  /\ at[x] # "none" => at'[x] # "none"
         /\ at'[x] # "none" => emitted[MsgOf(x)] > 0
         /\ at'[x] \in {"done", "acked"} => MsgOf(x) \in inbox'
<1> DEFINE Placed ==
             /\ at[x] # "none" => at'[x] # "none"
             /\ at'[x] # "none" => emitted[MsgOf(x)] > 0
             /\ at'[x] \in {"done", "acked"} => MsgOf(x) \in inbox'
<1>1. /\ at \in [Delivery -> Place]
      /\ at[x] # "none" => emitted[MsgOf(x)] > 0
      /\ at[x] \in {"done", "acked"} => MsgOf(x) \in inbox
      /\ inbox \subseteq inbox'
  BY Growth DEF IInv, TypeOK, DeliveryTypes, Messages, NoEventLost
<1>2. ASSUME UNCHANGED <<at, saw, to>>
      PROVE  Placed
  BY <1>1, <1>2
<1>3. ASSUME NEW m \in Msg, RelayPublish(m)
      PROVE  Placed
  <2>1. PICK d \in CopiesOf(m) : at' = [at EXCEPT ![d] = "queued"]
    BY <1>3 DEF RelayPublish
  <2>2. d \in Delivery /\ MsgOf(d) = m
    BY MessageParts
  <2>3. emitted[m] > 0
    BY <1>3 DEF RelayPublish, IInv, Messages
  <2>4. QED
    BY <1>1, <2>1, <2>2, <2>3
<1>4. ASSUME NEW d \in Delivery, RetryCrash(d)
      PROVE  Placed
  <2>1. PICK e \in CopiesOf(MsgOf(d)) :
          at' = [at EXCEPT ![d] = "queued", ![e] = "queued"]
    BY <1>4 DEF RetryCrash
  <2>2. e \in Delivery /\ MsgOf(e) = MsgOf(d)
    BY DeliveryParts, MessageParts
  <2>3. emitted[MsgOf(d)] > 0
    BY <1>4 DEF RetryCrash, IInv, Messages
  <2>4. QED
    BY <1>1, <2>1, <2>2, <2>3
<1>5. ASSUME NEW d \in Delivery, NEW where,
             at' = [at EXCEPT ![d] = where], at[d] # "none", where # "none",
             where \in {"done", "acked"} => MsgOf(d) \in inbox'
      PROVE  Placed
  <2>1. emitted[MsgOf(d)] > 0
    BY <1>5 DEF IInv, Messages
  <2>2. QED
    BY <1>1, <1>5, <2>1
<1>6. ASSUME NEW d \in Delivery,
             \/ Leave(d, "queued") /\ at[d] \in {"queued", "charged",
                                                "working", "done"}
             \/ Leave(d, "dead") /\ at[d] \in {"queued", "charged", "working"}
      PROVE  Placed
  BY <1>5, <1>6 DEF Leave
<1>7. ASSUME NEW d \in Delivery, Skip(d)
      PROVE  Placed
  <2>1. /\ at' = [at EXCEPT ![d] = "done"] /\ at[d] # "none"
        /\ MsgOf(d) \in inbox'
    BY <1>7 DEF Skip, Leave
  <2>2. QED
    BY <1>5, <2>1
<1>8. ASSUME NEW d \in Delivery, Ack(d)
      PROVE  Placed
  <2>1. at' = [at EXCEPT ![d] = "acked"] /\ at[d] = "done"
    BY <1>8 DEF Ack
  <2>2. MsgOf(d) \in inbox'
    BY <1>1, <2>1 DEF IInv, NoEventLost
  <2>3. QED
    BY <1>5, <2>1, <2>2
<1>9. ASSUME NEW d \in Delivery, Authorize(d)
      PROVE  Placed
  BY <1>5, <1>9 DEF Authorize
<1>10. ASSUME NEW d \in Delivery, NotifySend(d)
       PROVE  Placed
  BY <1>5, <1>10 DEF NotifySend
<1>11. ASSUME NEW d \in Delivery,
              \/ NotifyCommit(d) \/ ReserveCommit(d) \/ PaymentCommit(d)
              \/ CompleteCommit(d)
       PROVE  Placed
  <2>1. /\ at' = [at EXCEPT ![d] = "done"] /\ at[d] # "none"
        /\ MsgOf(d) \in inbox'
    BY <1>11 DEF NotifyCommit, ReserveCommit, PaymentCommit, CompleteCommit,
                 TransitionCommit, Leave, RecordInbox
  <2>2. QED
    BY <1>5, <2>1
<1>12. ASSUME NEW d \in Delivery,
              ReserveRead(d) \/ PaymentRead(d) \/ CompleteRead(d)
       PROVE  Placed
  <2>1. at[d] # "none"
    BY <1>12 DEF ReserveRead, PaymentRead, CompleteRead
  <2>2. \E where \in {"working", "queued", "dead"} :
          at' = [at EXCEPT ![d] = where]
    BY <1>12 DEF ReserveRead, PaymentRead, CompleteRead, TransitionRead,
                 Retry, Leave
  <2>3. QED
    BY <1>5, <2>1, <2>2
<1>13. Placed
  <2> HIDE DEF Placed
  <2> QED
    BY <1>2, <1>3, <1>4, <1>6, <1>7, <1>8, <1>9, <1>10, <1>11, <1>12,
       DeliverySteps
<1>14. QED
  BY <1>13

\* The outbox changes by an enqueue or by the relay's commit.
LEMMA OutboxSteps ==
  ASSUME IInv, [Next]_vars
  PROVE  \/ UNCHANGED <<outbox, relaying>>
         \/ relaying' = relaying /\ \E m \in Msg : Enqueue(m)
         \/ \E m \in Msg : RelayPublish(m)
         \/ RelayCommit \/ RelayCrash
<1> USE DEF outboxVars
<1>1. CASE \E d \in Delivery :
             ReserveCommit(d) \/ PaymentCommit(d) \/ CompleteCommit(d)
  <2>1. PICK d \in Delivery :
               ReserveCommit(d) \/ PaymentCommit(d) \/ CompleteCommit(d)
    BY <1>1
  <2>2. relaying' = relaying
    BY <2>1 DEF ReserveCommit, PaymentCommit, CompleteCommit, TransitionCommit
  <2>3. \/ UNCHANGED outboxVars
        \/ \E key \in Key : Enqueue(<<key, d[2]>>)
    BY <2>1, CommitSteps DEF Key
  <2>4. QED
    BY <2>2, <2>3, OrderFacts
<1>2. CASE \E d \in Delivery :
             \/ ReserveRead(d) \/ PaymentRead(d) \/ CompleteRead(d)
             \/ Authorize(d) \/ NotifySend(d) \/ NotifyCommit(d)
             \/ TransitionConflict(d) \/ Skip(d) \/ Ack(d)
             \/ HandlerThrows(d) \/ RetryCrash(d) \/ HandlerCrash(d)
  BY <1>2 DEF ReserveRead, PaymentRead, CompleteRead, TransitionRead,
              Authorize, NotifySend, NotifyCommit, TransitionConflict, Skip,
              Ack, HandlerThrows, RetryCrash, HandlerCrash
<1>3. CASE \E o \in Order : CreateOrder(o)
  BY <1>3, OrderFacts DEF CreateOrder
<1>4. CASE \E s \in PaySession : PayRead(s) \/ PayClaim(s) \/ PayCrash(s)
  BY <1>4, OrderFacts DEF PayRead, PayClaim, PayCrash
<1>5. CASE \E s \in CancelSession :
             \/ CancelRead(s) \/ CancelClaim(s) \/ CancelEnd(s)
             \/ CancelCrash(s) \/ \E p \in Product : CancelRestore(s, p)
  BY <1>5 DEF CancelRead, CancelClaim, CancelEnd, CancelCrash, CancelRestore
<1>6. CASE ReplenishRead \/ \E p \in Product : ReplenishProduct(p)
  BY <1>6 DEF ReplenishRead, ReplenishProduct
<1>7. CASE UNCHANGED vars
  BY <1>7 DEF vars
<1>8. QED
  BY <1>1, <1>2, <1>3, <1>4, <1>5, <1>6, <1>7, StepCases

(***************************************************************************)
(* The other conjuncts of the inductive invariant                          *)
(***************************************************************************)

LEMMA MessagesStep ==
  ASSUME IInv, [Next]_vars
  PROVE  Messages'
<1>1. emitted \in [Msg -> Nat] /\ emitted' \in [Msg -> Nat]
  BY TypeStep DEF IInv, TypeOK, MessageTypes
<1>2. ASSUME NEW m \in Msg, outbox'[m] # "none"
      PROVE  emitted'[m] > 0
  <2>1. CASE outbox[m] # "none"
    BY <1>1, <2>1, Growth DEF IInv, Messages
  <2>2. CASE outbox[m] = "none" /\ \E n \in Msg : Enqueue(n)
    BY <1>1, <1>2, <2>2 DEF Enqueue, IInv, TypeOK, MessageTypes
  <2>3. CASE outbox[m] = "none" /\ RelayCommit
    <3>1. m \in relaying
      BY <1>2, <2>3 DEF RelayCommit
    <3>2. PICK d \in CopiesOf(m) : at[d] # "none"
      BY <3>1 DEF IInv, NoEventLost
    <3>3. emitted[m] > 0
      BY <3>2, MessageParts DEF IInv, Messages
    <3>4. QED
      BY <1>1, <3>3, Growth
  <2>4. CASE outbox[m] = "none" /\ outbox' = outbox
    BY <1>2, <2>4
  <2>5. QED
    BY <2>1, <2>2, <2>3, <2>4, OutboxSteps
       DEF RelayPublish, RelayCrash, outboxVars
<1>3. ASSUME NEW d \in Delivery, at'[d] # "none"
      PROVE  emitted'[MsgOf(d)] > 0
  BY <1>1, <1>3, Places, Growth, DeliveryParts
<1>4. ASSUME NEW m \in relaying'
      PROVE  outbox'[m] = "pending"
  <2>1. /\ outbox \in [Msg -> {"none", "pending", "published"}]
        /\ relaying \subseteq Msg /\ \A n \in relaying : outbox[n] = "pending"
    BY DEF IInv, TypeOK, MessageTypes, Messages
  <2>2. CASE relaying' = relaying /\ \E n \in Msg : Enqueue(n)
    BY <1>4, <2>1, <2>2 DEF Enqueue
  <2>3. CASE \E n \in Msg : RelayPublish(n)
    BY <1>4, <2>1, <2>3 DEF RelayPublish, outboxVars
  <2>4. QED
    BY <1>4, <2>1, <2>2, <2>3, OutboxSteps DEF RelayCommit, RelayCrash
<1>5. QED
  BY <1>2, <1>3, <1>4 DEF Messages, MsgOf

LEMMA NoEventLostStep ==
  ASSUME IInv, [Next]_vars
  PROVE  NoEventLost'
<1>1. ASSUME NEW m \in Msg, outbox'[m] = "published" \/ m \in relaying'
      PROVE  \E d \in CopiesOf(m) : at'[d] # "none"
  <2>1. CASE outbox[m] = "published" \/ m \in relaying
    BY <2>1, MessageParts, Places DEF IInv, NoEventLost
  <2>2. CASE RelayPublish(m)
    <3>1. at \in [Delivery -> Place]
      BY DEF IInv, TypeOK, DeliveryTypes
    <3>2. QED
      BY <2>2, <3>1, MessageParts DEF RelayPublish
  <2>3. CASE /\ ~(outbox[m] = "published" \/ m \in relaying)
             /\ \E n \in Msg : RelayPublish(n)
    BY <1>1, <2>2, <2>3 DEF RelayPublish, outboxVars
  <2>4. CASE /\ ~(outbox[m] = "published" \/ m \in relaying)
             /\ relaying' = relaying /\ \E n \in Msg : Enqueue(n)
    BY <1>1, <2>4 DEF Enqueue, IInv, TypeOK, MessageTypes
  <2>5. CASE /\ ~(outbox[m] = "published" \/ m \in relaying)
             /\ RelayCommit \/ RelayCrash
    BY <1>1, <2>5 DEF RelayCommit, RelayCrash, outboxVars
  <2>6. QED
    BY <1>1, <2>1, <2>3, <2>4, <2>5, OutboxSteps
<1>2. \A d \in Delivery : at'[d] \in {"done", "acked"} => MsgOf(d) \in inbox'
  BY Places
<1>3. QED
  BY <1>1, <1>2 DEF NoEventLost, MsgOf, CopiesOf

LEMMA ChargeKept ==
  ASSUME IInv, [Next]_vars, NEW o \in Order, charge[o] # "none"
  PROVE  charge'[o] = charge[o]
<1>1. ASSUME NEW d \in Delivery, Authorize(d)
      PROVE  charge'[o] = charge[o]
  BY <1>1, OrderFacts DEF Authorize, Answers
<1>2. QED
  BY <1>1, ChargeSteps

\* The status a legal transition starts from, given the message it handles:
\* the table, the events and the inbox leave one possibility.
LEMMA ReadStatus ==
  ASSUME IInv, NEW d \in Delivery, at[d] # "none", MsgOf(d) \notin inbox,
         NEW target, isTransitionAllowed(status[d[2]], target)
  PROVE  /\ d[1] = "Created" /\ target \in {"RESERVED", "FAILED"} =>
              status[d[2]] = "PENDING"
         /\ d[1] = "InventoryReserved" /\ target \in {"PAID", "FAILED"} =>
              status[d[2]] = "RESERVED"
         /\ d[1] = "PaymentProcessed" /\ target = "COMPLETED" =>
              status[d[2]] = "PAID"
<1>1. d[2] \in Order /\ status[d[2]] \in Status
  BY OrderFacts
<1>2. emitted[<<d[1], d[2]>>] > 0 /\ <<d[1], d[2]>> \notin inbox
  BY DEF IInv, Messages, MsgOf
<1>3. EventsOf(d[2]) /\ InboxOf(d[2]) /\ ChargeOf(d[2])
  BY <1>1 DEF IInv, EventsMatchStatus, InboxMatchesStatus, ChargeMatchesStatus
<1>4. \A s \in OrderStatus :
        /\ isTransitionAllowed(s, "RESERVED") => s = "PENDING"
        /\ isTransitionAllowed(s, "PAID") => s = "RESERVED"
        /\ isTransitionAllowed(s, "COMPLETED") => s = "PAID"
        /\ isTransitionAllowed(s, "FAILED") => s \in {"PENDING", "RESERVED"}
  BY DEF isTransitionAllowed, ORDER_TRANSITIONS, OrderStatus
<1>5. CASE d[1] = "Created"
  <2>1. status[d[2]] # "NONE" /\ status[d[2]] # "RESERVED"
    BY <1>2, <1>3, <1>5 DEF EventsOf, InboxOf
  <2>2. QED
    BY <1>1, <1>4, <1>5, <2>1 DEF Status
<1>6. CASE d[1] = "InventoryReserved"
  <2>1. status[d[2]] # "NONE" /\ status[d[2]] # "PENDING"
    BY <1>2, <1>3, <1>6 DEF EventsOf, ChargeOf
  <2>2. QED
    BY <1>1, <1>4, <1>6, <2>1 DEF Status
<1>7. CASE d[1] = "PaymentProcessed"
  <2>1. status[d[2]] # "NONE"
    BY <1>2, <1>3, <1>7 DEF EventsOf
  <2>2. QED
    BY <1>1, <1>4, <1>7, <2>1 DEF Status
<1>8. QED
  BY <1>5, <1>6, <1>7

LEMMA HandlersStep ==
  ASSUME IInv, [Next]_vars
  PROVE  Handlers'
<1>1. SUFFICES ASSUME NEW x \in Delivery, HandlerOf(x)
               PROVE  HandlerOf(x)'
  BY DEF IInv, Handlers
<1>2. /\ at \in [Delivery -> Place]
      /\ saw \in [Delivery -> Status]
      /\ to \in [Delivery -> Status]
  BY DEF IInv, TypeOK, DeliveryTypes
<1>3. charge[x[2]] # "none" => charge'[x[2]] = charge[x[2]]
  BY ChargeKept, OrderFacts
<1>4. ASSUME at'[x] = at[x], saw'[x] = saw[x], to'[x] = to[x]
      PROVE  HandlerOf(x)'
  BY <1>1, <1>3, <1>4 DEF HandlerOf
<1>5. ASSUME at'[x] \in {"none", "queued", "done", "acked", "dead"}
      PROVE  HandlerOf(x)'
  BY <1>5 DEF HandlerOf
<1>6. ASSUME NEW m \in Msg, RelayPublish(m)
      PROVE  HandlerOf(x)'
  BY <1>2, <1>4, <1>5, <1>6, MessageParts DEF RelayPublish
<1>7. ASSUME NEW d \in Delivery, RetryCrash(d)
      PROVE  HandlerOf(x)'
  <2>1. PICK e \in CopiesOf(MsgOf(d)) :
          at' = [at EXCEPT ![d] = "queued", ![e] = "queued"]
    BY <1>7 DEF RetryCrash
  <2>2. e \in Delivery
    BY DeliveryParts, MessageParts
  <2>3. CASE x = d \/ x = e
    BY <1>2, <1>5, <2>1, <2>2, <2>3
  <2>4. CASE x # d /\ x # e
    BY <1>2, <1>4, <1>7, <2>1, <2>2, <2>4 DEF RetryCrash
  <2>5. QED
    BY <2>3, <2>4
<1>8. ASSUME NEW d \in Delivery, NEW where \in {"queued", "dead", "done"},
             Leave(d, where)
      PROVE  HandlerOf(x)'
  <2>1. CASE x = d
    BY <1>2, <1>5, <1>8, <2>1 DEF Leave
  <2>2. CASE x # d
    BY <1>2, <1>4, <1>8, <2>2 DEF Leave
  <2>3. QED
    BY <2>1, <2>2
<1>9. ASSUME NEW d \in Delivery, Ack(d)
      PROVE  HandlerOf(x)'
  <2>1. CASE x = d
    BY <1>2, <1>5, <1>9, <2>1 DEF Ack
  <2>2. CASE x # d
    BY <1>2, <1>4, <1>9, <2>2 DEF Ack
  <2>3. QED
    BY <2>1, <2>2
<1>10. ASSUME NEW d \in Delivery, Authorize(d)
       PROVE  HandlerOf(x)'
  <2>1. CASE x = d
    <3>1. PICK answer \in {"authorized", "declined"} :
            /\ charge' = [charge EXCEPT ![d[2]] = answer]
            /\ to' = [to EXCEPT ![d] = IF answer = "authorized" THEN "PAID"
                                                               ELSE "FAILED"]
      BY <1>10, OrderFacts DEF Authorize, Answers
    <3>2. at'[x] = "charged" /\ x[1] = "InventoryReserved"
      BY <1>2, <1>10, <2>1 DEF Authorize
    <3>3. charge'[x[2]] = answer
      BY <2>1, <3>1, OrderFacts
    <3>4. to'[x] = IF answer = "authorized" THEN "PAID" ELSE "FAILED"
      BY <1>2, <2>1, <3>1
    <3>5. QED
      BY <3>2, <3>3, <3>4 DEF HandlerOf
  <2>2. CASE x # d
    BY <1>2, <1>4, <1>10, <2>2 DEF Authorize
  <2>3. QED
    BY <2>1, <2>2
<1>11. ASSUME NEW d \in Delivery, NotifySend(d)
       PROVE  HandlerOf(x)'
  <2>1. CASE x = d
    <3>1. at'[x] = "working" /\ x[1] \in {"Completed", "Failed"}
      BY <1>2, <1>11, <2>1 DEF NotifySend
    <3>2. QED
      BY <3>1 DEF HandlerOf
  <2>2. CASE x # d
    BY <1>2, <1>4, <1>11, <2>2 DEF NotifySend
  <2>3. QED
    BY <2>1, <2>2
<1>12. ASSUME NEW d \in Delivery,
              ReserveRead(d) \/ PaymentRead(d) \/ CompleteRead(d)
       PROVE  HandlerOf(x)'
  <2>1. PICK target :
          /\ TransitionRead(d, target)
          /\ at[d] # "none"
          /\ \/ d[1] = "Created" /\ target \in {"RESERVED", "FAILED"}
             \/ d[1] = "InventoryReserved" /\ at[d] = "charged"
                  /\ target = to[d]
             \/ d[1] = "PaymentProcessed" /\ target = "COMPLETED"
    BY <1>12 DEF ReserveRead, PaymentRead, CompleteRead
  <2>2. CASE Retry(d)
    BY <1>8, <2>2 DEF Retry
  <2>3. CASE /\ isTransitionAllowed(status[d[2]], target)
             /\ MsgOf(d) \notin inbox
             /\ at' = [at EXCEPT ![d] = "working"]
             /\ saw' = [saw EXCEPT ![d] = status[d[2]]]
             /\ to' = [to EXCEPT ![d] = target]
             /\ charge' = charge
    <3>1. CASE x # d
      BY <1>2, <1>4, <2>3, <3>1
    <3>2. CASE x = d
      <4>1. at'[x] = "working" /\ saw'[x] = status[x[2]] /\ to'[x] = target
        BY <1>2, <2>3, <3>2
      <4>2. CASE x[1] = "Created"
        BY <2>1, <2>3, <3>2, <4>1, <4>2, ReadStatus DEF HandlerOf
      <4>3. CASE x[1] = "InventoryReserved"
        <5>1. \/ target = "PAID" /\ charge[x[2]] = "authorized"
              \/ target = "FAILED" /\ charge[x[2]] = "declined"
          BY <1>1, <2>1, <3>2, <4>3 DEF HandlerOf
        <5>2. status[x[2]] = "RESERVED"
          BY <2>1, <2>3, <3>2, <4>3, <5>1, ReadStatus
        <5>3. QED
          BY <2>3, <4>1, <4>3, <5>1, <5>2 DEF HandlerOf
      <4>4. CASE x[1] = "PaymentProcessed"
        BY <2>1, <2>3, <3>2, <4>1, <4>4, ReadStatus DEF HandlerOf
      <4>5. QED
        BY <2>1, <3>2, <4>2, <4>3, <4>4
    <3>3. QED
      BY <3>1, <3>2
  <2>4. QED
    BY <2>1, <2>2, <2>3 DEF TransitionRead
<1>13. ASSUME NEW d \in Delivery,
              \/ Skip(d) \/ NotifyCommit(d) \/ ReserveCommit(d)
              \/ PaymentCommit(d) \/ CompleteCommit(d)
       PROVE  HandlerOf(x)'
  BY <1>8, <1>13 DEF Skip, NotifyCommit, ReserveCommit, PaymentCommit,
                     CompleteCommit, TransitionCommit
<1>14. ASSUME UNCHANGED <<at, saw, to>>
       PROVE  HandlerOf(x)'
  BY <1>4, <1>14
<1>15. QED
  BY <1>6, <1>7, <1>8, <1>9, <1>10, <1>11, <1>12, <1>13, <1>14, DeliverySteps

\* Stock is taken by a reservation, and given by a cancel or a top-up.
LEMMA StockSteps ==
  ASSUME [Next]_vars
  PROVE  \/ UNCHANGED <<stock, held>>
         \/ \E d \in Delivery : ReserveCommit(d)
         \/ \E s \in CancelSession, p \in Product : CancelRestore(s, p)
         \/ \E p \in Product : ReplenishProduct(p)
<1> USE DEF stockVars
<1>1. CASE \E d \in Delivery :
             \/ ReserveRead(d) \/ PaymentRead(d) \/ CompleteRead(d)
             \/ PaymentCommit(d) \/ CompleteCommit(d)
             \/ Authorize(d) \/ NotifySend(d) \/ NotifyCommit(d)
  BY <1>1 DEF ReserveRead, PaymentRead, CompleteRead, TransitionRead,
              PaymentCommit, CompleteCommit, Authorize, NotifySend,
              NotifyCommit
<1>2. CASE \E d \in Delivery :
             \/ TransitionConflict(d) \/ Skip(d) \/ Ack(d)
             \/ HandlerThrows(d) \/ RetryCrash(d) \/ HandlerCrash(d)
  BY <1>2 DEF TransitionConflict, Skip, Ack, HandlerThrows, RetryCrash,
              HandlerCrash
<1>3. CASE \/ \E o \in Order : CreateOrder(o)
           \/ \E s \in PaySession : PayRead(s) \/ PayClaim(s) \/ PayCrash(s)
  BY <1>3 DEF CreateOrder, PayRead, PayClaim, PayCrash
<1>4. CASE \E s \in CancelSession :
             CancelRead(s) \/ CancelClaim(s) \/ CancelEnd(s) \/ CancelCrash(s)
  BY <1>4 DEF CancelRead, CancelClaim, CancelEnd, CancelCrash
<1>5. CASE \/ ReplenishRead \/ \E m \in Msg : RelayPublish(m)
           \/ RelayCommit \/ RelayCrash
  BY <1>5 DEF ReplenishRead, RelayPublish, RelayCommit, RelayCrash
<1>6. CASE UNCHANGED vars
  BY <1>6 DEF vars
<1>7. QED
  BY <1>1, <1>2, <1>3, <1>4, <1>5, <1>6, StepCases

LEMMA StockFacts ==
  ASSUME IInv
  PROVE  /\ stock \in [Product -> Int]
         /\ held \in [Order -> [Product -> Int]]
         /\ Lines \in [Order -> [Product -> Nat]]
  BY LinesAssumption DEF IInv, TypeOK, StockTypes

\* A reservation commits with its stock taken, or FAILED with nothing taken.
LEMMA ReserveEffect ==
  ASSUME IInv, NEW d \in Delivery, ReserveCommit(d)
  PROVE  \/ /\ Transition(d, "Created", "PENDING", "RESERVED")
            /\ HoldsRows(d)
            /\ \A p \in Product : stock'[p] = stock[p] - Lines[d[2]][p]
            /\ \A o \in Order, p \in Product :
                 held'[o][p] = IF o = d[2] THEN held[o][p] + Lines[o][p]
                                           ELSE held[o][p]
         \/ /\ Transition(d, "Created", "PENDING", "FAILED")
            /\ UNCHANGED <<stock, held>>
<1>1. \/ Transition(d, "Created", "PENDING", "RESERVED")
      \/ Transition(d, "Created", "PENDING", "FAILED")
  BY CommitSteps DEF ReserveCommit, Transition
<1>2. CASE to[d] = "RESERVED"
  <2>1. Transition(d, "Created", "PENDING", "RESERVED")
    BY <1>1, <1>2 DEF Transition
  <2>2. HoldsRows(d)
    BY <1>2 DEF ReserveCommit, TransitionCommit, HoldsRows
  <2>3. /\ stock' = [p \in Product |-> stock[p] - Lines[d[2]][p]]
        /\ held' = [held EXCEPT ![d[2]] =
                      [p \in Product |-> @[p] + Lines[d[2]][p]]]
    BY <1>2 DEF ReserveCommit
  <2>4. ASSUME NEW o \in Order, NEW p \in Product
        PROVE  held'[o][p] = IF o = d[2] THEN held[o][p] + Lines[o][p]
                                         ELSE held[o][p]
    BY <2>3, StockFacts
  <2>5. QED
    BY <2>1, <2>2, <2>3, <2>4
<1>3. CASE to[d] = "FAILED"
  BY <1>1, <1>3 DEF Transition, ReserveCommit, stockVars
<1>4. QED
  BY <1>1, <1>2, <1>3 DEF Transition

\* A line given back was held in full, by an order that is cancelled.
LEMMA RestoreEffect ==
  ASSUME IInv, NEW s \in CancelSession, NEW p \in Product,
         CancelRestore(s, p)
  PROVE  /\ status[s[1]] = "CANCELLED"
         /\ held[s[1]][p] = Lines[s[1]][p]
         /\ \A q \in Product :
              stock'[q] = IF q = p THEN stock[q] + Lines[s[1]][q] ELSE stock[q]
         /\ \A o \in Order, q \in Product :
              held'[o][q] = IF o = s[1] /\ q = p
                            THEN held[o][q] - Lines[o][q]
                            ELSE held[o][q]
         /\ UNCHANGED <<status, paymentInitiated>>
<1>1. RestoreOf(s) /\ cancelling[s] = "restoring" /\ p \in left[s]
  BY DEF IInv, Restores, CancelRestore
<1>2. /\ stock' = [stock EXCEPT ![p] = @ + Lines[s[1]][p]]
      /\ held' = [held EXCEPT ![s[1]][p] = @ - Lines[s[1]][p]]
      /\ UNCHANGED <<status, paymentInitiated>>
  BY DEF CancelRestore, Return, orderVars
<1>3. s[1] \in Order
  BY SessionParts
<1>4. ASSUME NEW o \in Order, NEW q \in Product
      PROVE  held'[o][q] = IF o = s[1] /\ q = p
                           THEN held[o][q] - Lines[o][q]
                           ELSE held[o][q]
  BY <1>2, <1>3, StockFacts
<1>5. \A q \in Product :
        stock'[q] = IF q = p THEN stock[q] + Lines[s[1]][q] ELSE stock[q]
  BY <1>2, <1>3, StockFacts
<1>6. QED
  BY <1>1, <1>2, <1>4, <1>5 DEF RestoreOf

LEMMA StockMatchesStep ==
  ASSUME IInv, [Next]_vars
  PROVE  StockMatchesStatus'
<1>1. SUFFICES ASSUME NEW x \in Order, NEW q \in Product,
                      StockOf(x, q), ChargeOf(x)
               PROVE  StockOf(x, q)'
  BY DEF IInv, StockMatchesStatus, ChargeMatchesStatus
<1>2. held[x][q] \in Int /\ Lines[x][q] \in Nat
  BY StockFacts
<1>3. ASSUME NEW d \in Delivery, ReserveCommit(d)
      PROVE  StockOf(x, q)'
  <2>1. \A target :
          Transition(d, "Created", "PENDING", target) =>
            /\ status[d[2]] = "PENDING"
            /\ status'[x] = IF x = d[2] THEN target ELSE status[x]
            /\ paymentInitiated' = paymentInitiated
    BY OrderFacts DEF Transition
  <2>2. CASE /\ Transition(d, "Created", "PENDING", "RESERVED")
             /\ held'[x][q] = IF x = d[2] THEN held[x][q] + Lines[x][q]
                                          ELSE held[x][q]
    BY <1>1, <1>2, <2>1, <2>2 DEF StockOf
  <2>3. CASE /\ Transition(d, "Created", "PENDING", "FAILED")
             /\ held' = held
    BY <1>1, <1>2, <2>1, <2>3 DEF StockOf, ChargeOf
  <2>4. QED
    BY <1>3, <2>2, <2>3, ReserveEffect
<1>4. ASSUME NEW s \in CancelSession, NEW p \in Product, CancelRestore(s, p)
      PROVE  StockOf(x, q)'
  BY <1>1, <1>2, <1>4, RestoreEffect DEF StockOf
<1>5. ASSUME held' = held,
             UNCHANGED <<status, paymentInitiated, emitted, inbox>>
      PROVE  StockOf(x, q)'
  BY <1>1, <1>5 DEF StockOf
<1>6. ASSUME held' = held, NEW o \in Order, CreateOrder(o)
      PROVE  StockOf(x, q)'
  <2>1. /\ status[o] = "NONE"
        /\ status'[x] = IF x = o THEN "PENDING" ELSE status[x]
        /\ paymentInitiated' = paymentInitiated
    BY <1>6, OrderFacts DEF CreateOrder
  <2>2. QED
    BY <1>1, <1>6, <2>1 DEF StockOf
<1>7. ASSUME held' = held, NEW s \in PaySession, PayClaim(s),
             PayClaimable(s[1])
      PROVE  StockOf(x, q)'
  BY <1>1, <1>7 DEF PayClaim, PayClaimable, StockOf
<1>8. ASSUME held' = held, NEW s \in CancelSession, CancelClaim(s),
             CancelClaimable(s[1])
      PROVE  StockOf(x, q)'
  <2>1. /\ status[s[1]] \in {"PENDING", "RESERVED"}
        /\ status'[x] = IF x = s[1] THEN "CANCELLED" ELSE status[x]
        /\ paymentInitiated' = paymentInitiated
    BY <1>8, OrderFacts DEF CancelClaim, CancelClaimable
  <2>2. QED
    BY <1>1, <1>2, <1>8, <2>1 DEF StockOf
<1>9. ASSUME held' = held, NEW d \in Delivery,
             PaymentCommit(d) \/ CompleteCommit(d)
      PROVE  StockOf(x, q)'
  <2>1. \A key, from, target :
          Transition(d, key, from, target) =>
            /\ d[1] = key
            /\ status[d[2]] = from
            /\ status'[x] = IF x = d[2] THEN target ELSE status[x]
            /\ paymentInitiated' = paymentInitiated
    BY OrderFacts DEF Transition
  <2>2. CASE Transition(d, "InventoryReserved", "RESERVED", "PAID")
    BY <1>1, <1>9, <2>1, <2>2 DEF StockOf
  <2>3. CASE /\ Transition(d, "InventoryReserved", "RESERVED", "FAILED")
             /\ d[2] \in paymentInitiated
    BY <1>1, <1>9, <2>1, <2>3 DEF StockOf
  <2>4. CASE Transition(d, "PaymentProcessed", "PAID", "COMPLETED")
    BY <1>1, <1>9, <2>1, <2>4 DEF StockOf
  <2>5. d[1] # "Created"
    BY <1>9 DEF PaymentCommit, CompleteCommit
  <2>6. QED
    BY <1>9, <2>1, <2>2, <2>3, <2>4, <2>5, CommitSteps
<1>10. ASSUME held' = held, NEW d \in Delivery, NotifyCommit(d)
       PROVE  StockOf(x, q)'
  BY <1>1, <1>10 DEF NotifyCommit, orderVars, StockOf
<1>11. ASSUME held' = held
       PROVE  StockOf(x, q)'
  BY <1>3, <1>5, <1>6, <1>7, <1>8, <1>9, <1>10, <1>11, OrderSteps
<1>12. ASSUME NEW p \in Product, ReplenishProduct(p)
       PROVE  StockOf(x, q)'
  BY <1>11, <1>12 DEF ReplenishProduct
<1>13. QED
  BY <1>3, <1>4, <1>11, <1>12, StockSteps

=============================================================================

------------------------ MODULE OrderPipelineProofs ------------------------
(***************************************************************************)
(* Proofs about OrderPipeline, for every set of orders, products, requests *)
(* and every bound.                                                        *)
(***************************************************************************)
EXTENDS OrderPipeline, TLAPS

\* A delivery is a copy of one message, about one order.
LEMMA DeliveryParts ==
  ASSUME NEW d \in Delivery
  PROVE  /\ d[1] \in Key /\ d[2] \in Order /\ d[3] \in Copy
         /\ MsgOf(d) \in Msg
         /\ MsgOf(d)[1] = d[1] /\ MsgOf(d)[2] = d[2]
         /\ d = <<d[1], d[2], d[3]>>
  BY DEF Delivery, Msg, MsgOf

LEMMA MessageParts ==
  ASSUME NEW m \in Msg
  PROVE  /\ m[1] \in Key /\ m[2] \in Order
         /\ CopiesOf(m) \subseteq Delivery
         /\ \A d \in CopiesOf(m) : MsgOf(d) = m
  BY DEF Delivery, Msg, MsgOf, CopiesOf

LEMMA KeyedMessages ==
  ASSUME NEW key \in Key, NEW o \in Order
  PROVE  <<key, o>> \in Msg
  BY DEF Msg

LEMMA SessionParts ==
  /\ \A s \in PaySession : s[1] \in Order
  /\ \A s \in CancelSession : s[1] \in Order
  BY DEF PaySession, CancelSession

\* A step of the specification is one of its actions, or changes nothing.
LEMMA StepCases ==
  ASSUME [Next]_vars
  PROVE  \/ \E o \in Order : CreateOrder(o)
         \/ \E s \in PaySession : PayRead(s) \/ PayClaim(s) \/ PayCrash(s)
         \/ \E s \in CancelSession :
              \/ CancelRead(s) \/ CancelClaim(s) \/ CancelEnd(s)
              \/ CancelCrash(s) \/ \E p \in Product : CancelRestore(s, p)
         \/ ReplenishRead \/ \E p \in Product : ReplenishProduct(p)
         \/ \E m \in Msg : RelayPublish(m)
         \/ RelayCommit \/ RelayCrash
         \/ \E d \in Delivery :
              \/ ReserveRead(d) \/ PaymentRead(d) \/ CompleteRead(d)
              \/ ReserveCommit(d) \/ PaymentCommit(d) \/ CompleteCommit(d)
              \/ Authorize(d) \/ NotifySend(d) \/ NotifyCommit(d)
              \/ TransitionConflict(d) \/ Skip(d) \/ Ack(d)
              \/ HandlerThrows(d) \/ RetryCrash(d) \/ HandlerCrash(d)
         \/ UNCHANGED vars
  BY DEF Next, PayStep, CancelStep, HandlerStep

(***************************************************************************)
(* Type correctness                                                        *)
(***************************************************************************)

LEMMA TypeInit == Init => TypeOK
  BY LinesAssumption, StockAssumption, BoundsAssumption
     DEF Init, TypeOK, OrderTypes, StockTypes, MessageTypes, DeliveryTypes,
         RequestTypes, Status, Place


\* What an action leaves alone keeps its type.
LEMMA TypeFrames ==
  ASSUME TypeOK
  PROVE  /\ UNCHANGED <<status, paymentInitiated, charge, mail>> => OrderTypes'
         /\ UNCHANGED stockVars => StockTypes'
         /\ UNCHANGED <<outboxVars, relaying, inbox>> => MessageTypes'
         /\ UNCHANGED deliveryVars => DeliveryTypes'
         /\ UNCHANGED <<requestVars, crashes>> => RequestTypes'
<1>1. UNCHANGED <<status, paymentInitiated, charge, mail>> => OrderTypes'
  BY DEF TypeOK, OrderTypes
<1>2. UNCHANGED stockVars => StockTypes'
  BY DEF TypeOK, StockTypes, stockVars
<1>3. UNCHANGED <<outboxVars, relaying, inbox>> => MessageTypes'
  BY DEF TypeOK, MessageTypes, outboxVars
<1>4. UNCHANGED deliveryVars => DeliveryTypes'
  BY DEF TypeOK, DeliveryTypes, deliveryVars
<1>5. UNCHANGED <<requestVars, crashes>> => RequestTypes'
  BY DEF TypeOK, RequestTypes, requestVars
<1>6. QED
  BY <1>1, <1>2, <1>3, <1>4, <1>5

LEMMA LeaveType ==
  ASSUME DeliveryTypes, NEW d \in Delivery, NEW where \in Place, Leave(d, where)
  PROVE  /\ at' \in [Delivery -> Place]
         /\ saw' \in [Delivery -> Status]
         /\ to' \in [Delivery -> Status]
<1>1. "NONE" \in Status
  BY DEF Status
<1>2. QED
  BY <1>1 DEF DeliveryTypes, Leave

LEMMA RetryType ==
  ASSUME DeliveryTypes, NEW d \in Delivery, Retry(d)
  PROVE  DeliveryTypes'
<1>1. "queued" \in Place /\ "dead" \in Place
  BY DEF Place
<1>2. tries[d] \in 0..MaxRetries
  BY DEF DeliveryTypes
<1>3. tries' \in [Delivery -> 0..MaxRetries]
  <2>1. tries[d] < MaxRetries => tries[d] + 1 \in 0..MaxRetries
    BY <1>2, BoundsAssumption
  <2>2. 0 \in 0..MaxRetries
    BY BoundsAssumption
  <2>3. tries \in [Delivery -> 0..MaxRetries]
    BY DEF DeliveryTypes
  <2>4. QED
    BY <2>1, <2>2, <2>3 DEF Retry, RetriesLeft
<1>4. Leave(d, "queued") \/ Leave(d, "dead")
  BY DEF Retry
<1>5. QED
  BY <1>1, <1>3, <1>4, LeaveType DEF DeliveryTypes

LEMMA ReadType ==
  ASSUME TypeOK, NEW d \in Delivery, NEW target \in Status,
         TransitionRead(d, target)
  PROVE  TypeOK'
<1>1. DeliveryTypes'
  <2>1. DeliveryTypes /\ status[d[2]] \in Status /\ "working" \in Place
    BY DeliveryParts DEF TypeOK, OrderTypes, Place
  <2>2. CASE Retry(d)
    BY <2>1, <2>2, RetryType
  <2>3. CASE /\ at' = [at EXCEPT ![d] = "working"]
             /\ saw' = [saw EXCEPT ![d] = status[d[2]]]
             /\ to' = [to EXCEPT ![d] = target]
             /\ tries' = tries
    BY <2>1, <2>3 DEF DeliveryTypes
  <2>4. QED
    BY <2>2, <2>3 DEF TransitionRead
<1>2. UNCHANGED <<orderVars, stockVars, outboxVars, relaying, inbox, charge,
                  mail, requestVars, crashes>>
  BY DEF TransitionRead
<1>3. QED
  BY <1>1, <1>2, TypeFrames DEF TypeOK, orderVars

LEMMA EnqueueType ==
  ASSUME MessageTypes, NEW m \in Msg, Enqueue(m)
  PROVE  /\ outbox' \in [Msg -> {"none", "pending", "published"}]
         /\ emitted' \in [Msg -> Nat]
  BY DEF MessageTypes, Enqueue

LEMMA CommitType ==
  ASSUME TypeOK, NEW d \in Delivery, TransitionCommit(d), StockTypes'
  PROVE  TypeOK'
<1>1. /\ outbox' \in [Msg -> {"none", "pending", "published"}]
      /\ emitted' \in [Msg -> Nat]
  <2>1. CASE UNCHANGED outboxVars
    BY <2>1 DEF TypeOK, MessageTypes, outboxVars
  <2>2. ASSUME NEW key \in Announcement(to[d]), Enqueue(<<key, d[2]>>)
        PROVE  /\ outbox' \in [Msg -> {"none", "pending", "published"}]
               /\ emitted' \in [Msg -> Nat]
    <3>1. key \in Key
      BY DEF Announcement, Key
    <3>2. <<key, d[2]>> \in Msg
      BY <3>1, DeliveryParts, KeyedMessages
    <3>3. QED
      BY <2>2, <3>2, EnqueueType DEF TypeOK
  <2>3. QED
    BY <2>1, <2>2 DEF TransitionCommit
<1>2. MessageTypes'
  <2>1. inbox' \subseteq Msg
    BY DeliveryParts DEF TransitionCommit, RecordInbox, TypeOK, MessageTypes
  <2>2. QED
    BY <1>1, <2>1 DEF TransitionCommit, TypeOK, MessageTypes
<1>3. OrderTypes'
  <2>1. to[d] \in Status /\ d[2] \in Order
    BY DeliveryParts DEF TypeOK, DeliveryTypes
  <2>2. QED
    BY <2>1 DEF TransitionCommit, TypeOK, OrderTypes
<1>4. DeliveryTypes'
  <2>1. DeliveryTypes /\ Leave(d, "done") /\ tries' = tries /\ "done" \in Place
    BY DEF TransitionCommit, TypeOK, Place
  <2>2. QED
    BY <2>1, LeaveType DEF DeliveryTypes
<1>5. RequestTypes'
  BY TypeFrames DEF TransitionCommit
<1>6. QED
  BY <1>2, <1>3, <1>4, <1>5 DEF TypeOK

LEMMA TypeStep ==
  ASSUME TypeOK, [Next]_vars
  PROVE  TypeOK'
<1> USE TypeFrames DEF TypeOK
<1>1. ASSUME NEW o \in Order, CreateOrder(o)
      PROVE  TypeOK'
  <2>1. OrderTypes'
    BY <1>1 DEF CreateOrder, OrderTypes, Status, OrderStatus
  <2>2. MessageTypes'
    <3>1. <<"Created", o>> \in Msg
      BY KeyedMessages DEF Key
    <3>2. QED
      BY <1>1, <3>1, EnqueueType DEF CreateOrder, MessageTypes
  <2>3. QED
    BY <1>1, <2>1, <2>2 DEF CreateOrder
<1>2. ASSUME NEW s \in PaySession, PayRead(s)
      PROVE  TypeOK'
  <2>1. RequestTypes'
    BY <1>2 DEF PayRead, RequestTypes
  <2>2. QED
    BY <1>2, <2>1 DEF PayRead, orderVars
<1>3. ASSUME NEW s \in PaySession, PayClaim(s)
      PROVE  TypeOK'
  <2>1. s[1] \in Order /\ <<"InventoryReserved", s[1]>> \in Msg
    BY SessionParts, KeyedMessages DEF Key
  <2>2. RequestTypes'
    BY <1>3 DEF PayClaim, RequestTypes
  <2>3. OrderTypes'
    BY <1>3, <2>1 DEF PayClaim, OrderTypes
  <2>4. MessageTypes'
    <3>1. CASE Enqueue(<<"InventoryReserved", s[1]>>)
      BY <1>3, <2>1, <3>1, EnqueueType DEF PayClaim, MessageTypes
    <3>2. CASE UNCHANGED outboxVars
      BY <1>3, <3>2 DEF PayClaim
    <3>3. QED
      BY <1>3, <3>1, <3>2 DEF PayClaim
  <2>5. QED
    BY <1>3, <2>2, <2>3, <2>4 DEF PayClaim
<1>4. ASSUME NEW s \in PaySession, PayCrash(s)
      PROVE  TypeOK'
  <2>1. RequestTypes'
    BY <1>4, BoundsAssumption DEF PayCrash, RequestTypes
  <2>2. QED
    BY <1>4, <2>1 DEF PayCrash, orderVars
<1>5. ASSUME NEW s \in CancelSession, CancelRead(s)
      PROVE  TypeOK'
  <2>1. RequestTypes'
    BY <1>5 DEF CancelRead, RequestTypes
  <2>2. QED
    BY <1>5, <2>1 DEF CancelRead, orderVars
<1>6. ASSUME NEW s \in CancelSession, CancelClaim(s)
      PROVE  TypeOK'
  <2>1. RequestTypes'
    BY <1>6 DEF CancelClaim, RequestTypes, LinesOf
  <2>2. OrderTypes'
    BY <1>6, SessionParts DEF CancelClaim, OrderTypes, Status, OrderStatus
  <2>3. QED
    BY <1>6, <2>1, <2>2 DEF CancelClaim
<1>7. ASSUME NEW s \in CancelSession, CancelEnd(s)
      PROVE  TypeOK'
  <2>1. RequestTypes'
    BY <1>7 DEF CancelEnd, RequestTypes
  <2>2. QED
    BY <1>7, <2>1 DEF CancelEnd, orderVars
<1>8. ASSUME NEW s \in CancelSession, CancelCrash(s)
      PROVE  TypeOK'
  <2>1. RequestTypes'
    BY <1>8, BoundsAssumption DEF CancelCrash, RequestTypes
  <2>2. QED
    BY <1>8, <2>1 DEF CancelCrash, orderVars
<1>9. ASSUME NEW s \in CancelSession, NEW p \in Product, CancelRestore(s, p)
      PROVE  TypeOK'
  <2>1. RequestTypes'
    BY <1>9 DEF CancelRestore, RequestTypes
  <2>2. StockTypes'
    <3>1. s[1] \in Order /\ Lines[s[1]][p] \in Int
      BY SessionParts, LinesAssumption
    <3>2. held[s[1]] \in [Product -> Int] /\ stock[p] \in Int
      BY <3>1 DEF StockTypes
    <3>3. held[s[1]][p] - Lines[s[1]][p] \in Int
      BY <3>1, <3>2
    <3>4. held' \in [Order -> [Product -> Int]]
      BY <1>9, <3>3 DEF CancelRestore, Return, StockTypes
    <3>5. stock' \in [Product -> Int]
      BY <1>9, <3>1, <3>2 DEF CancelRestore, Return, StockTypes
    <3>6. QED
      BY <1>9, <3>4, <3>5 DEF CancelRestore, StockTypes
  <2>3. QED
    BY <1>9, <2>1, <2>2 DEF CancelRestore, orderVars
<1>10. CASE ReplenishRead \/ \E p \in Product : ReplenishProduct(p)
  <2>1. StockTypes'
    <3>1. CASE ReplenishRead
      BY <3>1 DEF ReplenishRead, StockTypes
    <3>2. ASSUME NEW p \in Product, ReplenishProduct(p)
          PROVE  StockTypes'
      <4>1. stock' \in [Product -> Int] /\ added' \in [Product -> Nat]
        BY <3>2, BoundsAssumption DEF ReplenishProduct, TopUp, StockTypes
      <4>2. QED
        BY <3>2, <4>1 DEF ReplenishProduct, StockTypes
    <3>3. QED
      BY <1>10, <3>1, <3>2
  <2>2. QED
    BY <1>10, <2>1 DEF ReplenishRead, ReplenishProduct, orderVars
<1>11. ASSUME NEW m \in Msg, RelayPublish(m)
       PROVE  TypeOK'
  <2>1. MessageTypes'
    BY <1>11 DEF RelayPublish, MessageTypes, outboxVars
  <2>2. DeliveryTypes'
    BY <1>11, MessageParts DEF RelayPublish, DeliveryTypes, Place
  <2>3. QED
    BY <1>11, <2>1, <2>2 DEF RelayPublish, orderVars
<1>12. CASE RelayCommit
  <2>1. MessageTypes'
    BY <1>12 DEF RelayCommit, MessageTypes
  <2>2. QED
    BY <1>12, <2>1 DEF RelayCommit, orderVars
<1>13. CASE RelayCrash
  <2>1. MessageTypes' /\ RequestTypes'
    BY <1>13, BoundsAssumption
       DEF RelayCrash, MessageTypes, RequestTypes, outboxVars, requestVars
  <2>2. QED
    BY <1>13, <2>1 DEF RelayCrash, orderVars
<1>14. ASSUME NEW d \in Delivery,
              ReserveRead(d) \/ PaymentRead(d) \/ CompleteRead(d)
       PROVE  TypeOK'
  <2>1. PICK target \in Status : TransitionRead(d, target)
    BY <1>14 DEF ReserveRead, PaymentRead, CompleteRead, DeliveryTypes,
                 Status, OrderStatus
  <2>2. QED
    BY <2>1, ReadType
<1>15. ASSUME NEW d \in Delivery, ReserveCommit(d)
       PROVE  TypeOK'
  <2>1. d[2] \in Order /\ Lines[d[2]] \in [Product -> Nat]
    BY DeliveryParts, LinesAssumption
  <2>2. StockTypes'
    <3>1. UNCHANGED <<restocking, added>>
      BY <1>15 DEF ReserveCommit, stockVars
    <3>2. stock' \in [Product -> Int]
      BY <1>15, <2>1 DEF ReserveCommit, StockTypes, stockVars
    <3>3. held' \in [Order -> [Product -> Int]]
      BY <1>15, <2>1 DEF ReserveCommit, StockTypes, stockVars
    <3>4. QED
      BY <3>1, <3>2, <3>3 DEF StockTypes
  <2>3. QED
    BY <1>15, <2>2, CommitType DEF ReserveCommit
<1>16. ASSUME NEW d \in Delivery, PaymentCommit(d) \/ CompleteCommit(d)
       PROVE  TypeOK'
  BY <1>16, CommitType DEF PaymentCommit, CompleteCommit
<1>17. ASSUME NEW d \in Delivery, Authorize(d)
       PROVE  TypeOK'
  <2>1. OrderTypes'
    BY <1>17, DeliveryParts DEF Authorize, Answers, OrderTypes, orderVars
  <2>2. DeliveryTypes'
    BY <1>17 DEF Authorize, DeliveryTypes, Place, Status, OrderStatus
  <2>3. QED
    BY <1>17, <2>1, <2>2 DEF Authorize
<1>18. ASSUME NEW d \in Delivery, NotifySend(d)
       PROVE  TypeOK'
  <2>1. OrderTypes'
    BY <1>18, DeliveryParts DEF NotifySend, MailText, OrderTypes, orderVars
  <2>2. DeliveryTypes'
    BY <1>18 DEF NotifySend, DeliveryTypes, Place
  <2>3. QED
    BY <1>18, <2>1, <2>2 DEF NotifySend
<1>19. ASSUME NEW d \in Delivery, NotifyCommit(d)
       PROVE  TypeOK'
  <2>1. MessageTypes'
    BY <1>19, DeliveryParts
       DEF NotifyCommit, RecordInbox, MessageTypes, outboxVars
  <2>2. DeliveryTypes'
    BY <1>19, LeaveType DEF NotifyCommit, DeliveryTypes, Place
  <2>3. QED
    BY <1>19, <2>1, <2>2 DEF NotifyCommit, orderVars
<1>20. ASSUME NEW d \in Delivery, TransitionConflict(d) \/ HandlerThrows(d)
       PROVE  TypeOK'
  <2>1. DeliveryTypes'
    BY <1>20, RetryType DEF TransitionConflict, HandlerThrows
  <2>2. QED
    BY <1>20, <2>1 DEF TransitionConflict, HandlerThrows, orderVars
<1>21. ASSUME NEW d \in Delivery, Skip(d)
       PROVE  TypeOK'
  <2>1. DeliveryTypes'
    BY <1>21, LeaveType DEF Skip, DeliveryTypes, Place
  <2>2. QED
    BY <1>21, <2>1 DEF Skip, orderVars
<1>22. ASSUME NEW d \in Delivery, Ack(d)
       PROVE  TypeOK'
  <2>1. DeliveryTypes'
    BY <1>22, BoundsAssumption DEF Ack, DeliveryTypes, Place
  <2>2. QED
    BY <1>22, <2>1 DEF Ack, orderVars
<1>23. ASSUME NEW d \in Delivery, RetryCrash(d)
       PROVE  TypeOK'
  <2>1. PICK e \in CopiesOf(MsgOf(d)) :
          /\ at' = [at EXCEPT ![d] = "queued", ![e] = "queued"]
          /\ tries' = [tries EXCEPT ![e] = tries[d] + 1]
    BY <1>23 DEF RetryCrash
  <2>2. e \in Delivery
    BY DeliveryParts, MessageParts
  <2>3. tries[d] + 1 \in 0..MaxRetries
    BY <1>23, BoundsAssumption DEF RetryCrash, RetriesLeft, DeliveryTypes
  <2>4. DeliveryTypes'
    BY <1>23, <2>1, <2>2, <2>3 DEF RetryCrash, DeliveryTypes, Place, Status
  <2>5. RequestTypes'
    BY <1>23, BoundsAssumption DEF RetryCrash, RequestTypes, requestVars
  <2>6. QED
    BY <1>23, <2>4, <2>5 DEF RetryCrash, orderVars
<1>24. ASSUME NEW d \in Delivery, HandlerCrash(d)
       PROVE  TypeOK'
  <2>1. DeliveryTypes'
    BY <1>24, LeaveType DEF HandlerCrash, DeliveryTypes, Place
  <2>2. RequestTypes'
    BY <1>24, BoundsAssumption DEF HandlerCrash, RequestTypes, requestVars
  <2>3. QED
    BY <1>24, <2>1, <2>2 DEF HandlerCrash, orderVars
<1>25. CASE UNCHANGED vars
  BY <1>25 DEF vars, orderVars
<1>26. QED
  BY <1>1, <1>2, <1>3, <1>4, <1>5, <1>6, <1>7, <1>8, <1>9, <1>10, <1>11,
     <1>12, <1>13, <1>14, <1>15, <1>16, <1>17, <1>18, <1>19, <1>20, <1>21,
     <1>22, <1>23, <1>24, <1>25, StepCases

\* Every variable keeps its type, whatever the sets and bounds; retries stay
\* within MaxRetries (createRetryErrorHandler).
THEOREM TypeCorrect == Spec => []TypeOK
  BY TypeInit, TypeStep, PTL DEF Spec

(***************************************************************************)
(* What a step does to an order                                            *)
(***************************************************************************)

\* Only five kinds of step write an order, its events or the inbox.
LEMMA OrderSteps ==
  ASSUME [Next]_vars
  PROVE  \/ UNCHANGED <<status, paymentInitiated, emitted, inbox>>
         \/ \E o \in Order : CreateOrder(o)
         \/ \E s \in PaySession : PayClaim(s) /\ PayClaimable(s[1])
         \/ \E s \in CancelSession : CancelClaim(s) /\ CancelClaimable(s[1])
         \/ \E d \in Delivery :
              ReserveCommit(d) \/ PaymentCommit(d) \/ CompleteCommit(d)
         \/ \E d \in Delivery : NotifyCommit(d)
<1> USE DEF orderVars, outboxVars
<1>1. ASSUME NEW s \in PaySession, PayClaim(s), ~PayClaimable(s[1])
      PROVE  UNCHANGED <<status, paymentInitiated, emitted, inbox>>
  BY <1>1 DEF PayClaim
<1>2. ASSUME NEW s \in CancelSession, CancelClaim(s), ~CancelClaimable(s[1])
      PROVE  UNCHANGED <<status, paymentInitiated, emitted, inbox>>
  BY <1>2 DEF CancelClaim
<1>3. ASSUME NEW s \in PaySession, PayRead(s) \/ PayCrash(s)
      PROVE  UNCHANGED <<status, paymentInitiated, emitted, inbox>>
  BY <1>3 DEF PayRead, PayCrash
<1>4. ASSUME NEW s \in CancelSession, NEW p \in Product,
             \/ CancelRead(s) \/ CancelEnd(s) \/ CancelCrash(s)
             \/ CancelRestore(s, p)
      PROVE  UNCHANGED <<status, paymentInitiated, emitted, inbox>>
  BY <1>4 DEF CancelRead, CancelEnd, CancelCrash, CancelRestore
<1>5. ASSUME NEW s \in CancelSession,
             CancelRead(s) \/ CancelEnd(s) \/ CancelCrash(s)
      PROVE  UNCHANGED <<status, paymentInitiated, emitted, inbox>>
  BY <1>5 DEF CancelRead, CancelEnd, CancelCrash
<1>6. ASSUME ReplenishRead \/ \E p \in Product : ReplenishProduct(p)
      PROVE  UNCHANGED <<status, paymentInitiated, emitted, inbox>>
  BY <1>6 DEF ReplenishRead, ReplenishProduct
<1>7. ASSUME \/ \E m \in Msg : RelayPublish(m)
             \/ RelayCommit \/ RelayCrash
      PROVE  UNCHANGED <<status, paymentInitiated, emitted, inbox>>
  BY <1>7 DEF RelayPublish, RelayCommit, RelayCrash
<1>8. ASSUME NEW d \in Delivery,
             ReserveRead(d) \/ PaymentRead(d) \/ CompleteRead(d)
      PROVE  UNCHANGED <<status, paymentInitiated, emitted, inbox>>
  BY <1>8 DEF ReserveRead, PaymentRead, CompleteRead, TransitionRead
<1>9. ASSUME NEW d \in Delivery,
             \/ Authorize(d) \/ NotifySend(d) \/ TransitionConflict(d)
             \/ Skip(d) \/ Ack(d) \/ HandlerThrows(d) \/ RetryCrash(d)
             \/ HandlerCrash(d)
      PROVE  UNCHANGED <<status, paymentInitiated, emitted, inbox>>
  BY <1>9 DEF Authorize, NotifySend, TransitionConflict, Skip, Ack,
              HandlerThrows, RetryCrash, HandlerCrash
<1>10. ASSUME UNCHANGED vars
       PROVE  UNCHANGED <<status, paymentInitiated, emitted, inbox>>
  BY <1>10 DEF vars
<1>11. QED
  BY <1>1, <1>2, <1>3, <1>4, <1>5, <1>6, <1>7, <1>8, <1>9, <1>10, StepCases

\* The five transitions the consumers make, with their events.
Transition(d, key, from, target) ==
  /\ d[1] = key
  /\ status[d[2]] = from
  /\ status' = [status EXCEPT ![d[2]] = target]
  /\ to[d] = target
  /\ inbox' = inbox \cup {<<key, d[2]>>}
  /\ <<key, d[2]>> \notin inbox
  /\ paymentInitiated' = paymentInitiated
  /\ charge' = charge

LEMMA CommitSteps ==
  ASSUME IInv, NEW d \in Delivery,
         ReserveCommit(d) \/ PaymentCommit(d) \/ CompleteCommit(d)
  PROVE  \/ /\ Transition(d, "Created", "PENDING", "RESERVED")
            /\ UNCHANGED outboxVars
         \/ /\ Transition(d, "Created", "PENDING", "FAILED")
            /\ Enqueue(<<"Failed", d[2]>>)
         \/ /\ Transition(d, "InventoryReserved", "RESERVED", "PAID")
            /\ d[2] \in paymentInitiated /\ charge[d[2]] = "authorized"
            /\ Enqueue(<<"PaymentProcessed", d[2]>>)
         \/ /\ Transition(d, "InventoryReserved", "RESERVED", "FAILED")
            /\ d[2] \in paymentInitiated /\ charge[d[2]] = "declined"
            /\ Enqueue(<<"Failed", d[2]>>)
         \/ /\ Transition(d, "PaymentProcessed", "PAID", "COMPLETED")
            /\ Enqueue(<<"Completed", d[2]>>)
<1>1. TransitionCommit(d) /\ at[d] = "working"
  BY DEF ReserveCommit, PaymentCommit, CompleteCommit, TransitionCommit
<1>2. d[1] \in {"Created", "InventoryReserved", "PaymentProcessed"}
  BY DEF ReserveCommit, PaymentCommit, CompleteCommit
<1>3. ASSUME NEW key, NEW from, NEW target,
             d[1] = key, saw[d] = from, to[d] = target
      PROVE  Transition(d, key, from, target)
  BY <1>1, <1>3 DEF TransitionCommit, CasMatches, RecordInbox, MsgOf, Transition
<1>4. /\ Announcement("RESERVED") = {}
      /\ Announcement("PAID") = {"PaymentProcessed"}
      /\ Announcement("COMPLETED") = {"Completed"}
      /\ Announcement("FAILED") = {"Failed"}
  BY DEF Announcement
<1>5. ASSUME to[d] = "RESERVED"
      PROVE  UNCHANGED outboxVars
  BY <1>1, <1>4, <1>5 DEF TransitionCommit
<1>6. ASSUME NEW key, Announcement(to[d]) = {key}
      PROVE  Enqueue(<<key, d[2]>>)
  BY <1>1, <1>6 DEF TransitionCommit
<1>7. CASE d[1] = "Created"
  BY <1>1, <1>3, <1>4, <1>5, <1>6, <1>7 DEF IInv, Handlers, HandlerOf
<1>8. CASE d[1] = "InventoryReserved"
  <2>1. d[2] \in paymentInitiated
    <3>1. emitted[<<"InventoryReserved", d[2]>>] > 0
      <4>1. at[d] # "none"
        BY <1>1
      <4>2. emitted[MsgOf(d)] > 0
        BY <4>1 DEF IInv, Messages
      <4>3. QED
        BY <1>8, <4>2 DEF MsgOf
    <3>2. d[2] \in Order
      BY DeliveryParts
    <3>3. emitted[<<"InventoryReserved", d[2]>>] =
            IF d[2] \in paymentInitiated THEN 1 ELSE 0
      BY <3>2 DEF IInv, EventsMatchStatus, EventsOf
    <3>4. QED
      BY <3>1, <3>3
  <2>2. QED
    BY <1>1, <1>3, <1>4, <1>6, <1>8, <2>1 DEF IInv, Handlers, HandlerOf
<1>9. CASE d[1] = "PaymentProcessed"
  BY <1>1, <1>3, <1>4, <1>6, <1>9 DEF IInv, Handlers, HandlerOf
<1>10. QED
  BY <1>2, <1>7, <1>8, <1>9

(***************************************************************************)
(* The inductive invariant, conjunct by conjunct                           *)
(***************************************************************************)

LEMMA OrderFacts ==
  ASSUME IInv
  PROVE  /\ status \in [Order -> Status]
         /\ paymentInitiated \subseteq Order
         /\ charge \in [Order -> {"none", "authorized", "declined"}]
         /\ emitted \in [Msg -> Nat]
         /\ inbox \subseteq Msg
         /\ \A key \in Key, o \in Order : <<key, o>> \in Msg
         /\ Key = {"Created", "InventoryReserved", "PaymentProcessed",
                   "Completed", "Failed"}
         /\ \A d \in Delivery : d[2] \in Order
         /\ \A s \in PaySession : s[1] \in Order
         /\ \A s \in CancelSession : s[1] \in Order
  BY DeliveryParts, KeyedMessages, SessionParts
     DEF IInv, TypeOK, OrderTypes, MessageTypes, Key

LEMMA EnqueueEffect ==
  ASSUME IInv, NEW key \in Key, NEW o \in Order, Enqueue(<<key, o>>)
  PROVE  \A k \in Key, x \in Order :
           emitted'[<<k, x>>] = IF k = key /\ x = o THEN emitted[<<k, x>>] + 1
                                                  ELSE emitted[<<k, x>>]
<1> SUFFICES ASSUME NEW k \in Key, NEW x \in Order
             PROVE  emitted'[<<k, x>>] =
                      IF k = key /\ x = o THEN emitted[<<k, x>>] + 1
                                         ELSE emitted[<<k, x>>]
  OBVIOUS
<1>1. <<k, x>> \in Msg /\ <<key, o>> \in Msg /\ emitted \in [Msg -> Nat]
  BY OrderFacts
<1>2. <<k, x>> = <<key, o>> <=> k = key /\ x = o
  OBVIOUS
<1>3. QED
  BY <1>1, <1>2 DEF Enqueue

LEMMA EventsStep ==
  ASSUME IInv, [Next]_vars
  PROVE  EventsMatchStatus'
<1>1. CASE UNCHANGED <<status, paymentInitiated, emitted, inbox>>
  BY <1>1 DEF IInv, EventsMatchStatus, EventsOf
<1>2. ASSUME NEW o \in Order, NEW key \in Key, Enqueue(<<key, o>>),
             NEW from, NEW target,
             status[o] = from, status' = [status EXCEPT ![o] = target],
             paymentInitiated' = paymentInitiated,
             \/ key = "Created" /\ from = "NONE" /\ target = "PENDING"
             \/ key = "Failed" /\ from \in {"PENDING", "RESERVED"}
                 /\ target = "FAILED"
             \/ key = "PaymentProcessed" /\ from = "RESERVED"
                 /\ target = "PAID"
             \/ key = "Completed" /\ from = "PAID" /\ target = "COMPLETED"
      PROVE  EventsMatchStatus'
  <2>1. \A x \in Order : status'[x] = IF x = o THEN target ELSE status[x]
    BY <1>2, OrderFacts
  <2>2. \A k \in Key, x \in Order :
          emitted'[<<k, x>>] = IF k = key /\ x = o THEN emitted[<<k, x>>] + 1
                                                 ELSE emitted[<<k, x>>]
    BY <1>2, EnqueueEffect
  <2>3. SUFFICES ASSUME NEW x \in Order, EventsOf(x)
                 PROVE  EventsOf(x)'
    BY DEF IInv, EventsMatchStatus
  <2>4. /\ "Created" \in Key /\ "InventoryReserved" \in Key
        /\ "PaymentProcessed" \in Key /\ "Completed" \in Key
        /\ "Failed" \in Key
    BY DEF Key
  <2>5. CASE x # o
    BY <1>2, <2>1, <2>2, <2>3, <2>4, <2>5 DEF EventsOf
  <2>6. CASE x = o
    BY <1>2, <2>1, <2>2, <2>3, <2>4, <2>6 DEF EventsOf
  <2>7. QED
    BY <2>5, <2>6
<1>3. ASSUME NEW o \in Order, UNCHANGED <<paymentInitiated, emitted>>,
             NEW target,
             status' = [status EXCEPT ![o] = target],
             status[o] \in {"PENDING", "RESERVED"},
             target \in {"RESERVED", "CANCELLED"}
      PROVE  EventsMatchStatus'
  <2>1. \A x \in Order : status'[x] = IF x = o THEN target ELSE status[x]
    BY <1>3, OrderFacts
  <2>2. ASSUME NEW x \in Order, EventsOf(x)
        PROVE  EventsOf(x)'
    BY <1>3, <2>1, <2>2 DEF EventsOf
  <2>3. QED
    BY <2>2 DEF IInv, EventsMatchStatus
<1>4. ASSUME NEW o \in Order, CreateOrder(o)
      PROVE  EventsMatchStatus'
  BY <1>2, <1>4 DEF CreateOrder, Key
<1>5. ASSUME NEW s \in PaySession, PayClaim(s), PayClaimable(s[1])
      PROVE  EventsMatchStatus'
  <2>1. s[1] \in Order /\ "InventoryReserved" \in Key
    BY OrderFacts DEF Key
  <2>2. /\ s[1] \notin paymentInitiated
        /\ paymentInitiated' = paymentInitiated \cup {s[1]}
        /\ Enqueue(<<"InventoryReserved", s[1]>>)
        /\ status' = status
    BY <1>5 DEF PayClaim, PayClaimable
  <2>3. \A k \in Key, x \in Order :
          emitted'[<<k, x>>] = IF k = "InventoryReserved" /\ x = s[1]
                               THEN emitted[<<k, x>>] + 1
                               ELSE emitted[<<k, x>>]
    BY <2>1, <2>2, EnqueueEffect
  <2>4. ASSUME NEW x \in Order, EventsOf(x)
        PROVE  EventsOf(x)'
    BY <2>1, <2>2, <2>3, <2>4 DEF EventsOf, Key
  <2>5. QED
    BY <2>4 DEF IInv, EventsMatchStatus
<1>6. ASSUME NEW s \in CancelSession, CancelClaim(s), CancelClaimable(s[1])
      PROVE  EventsMatchStatus'
  BY <1>3, <1>6, OrderFacts DEF CancelClaim, CancelClaimable, outboxVars
<1>7. ASSUME NEW d \in Delivery,
             ReserveCommit(d) \/ PaymentCommit(d) \/ CompleteCommit(d)
      PROVE  EventsMatchStatus'
  <2>1. d[2] \in Order
    BY DeliveryParts
  <2>2. CASE /\ Transition(d, "Created", "PENDING", "RESERVED")
             /\ UNCHANGED outboxVars
    BY <1>3, <2>1, <2>2 DEF Transition, outboxVars
  <2>3. CASE /\ \/ Transition(d, "Created", "PENDING", "FAILED")
                \/ Transition(d, "InventoryReserved", "RESERVED", "FAILED")
             /\ Enqueue(<<"Failed", d[2]>>)
    BY <1>2, <2>1, <2>3 DEF Transition, Key
  <2>4. CASE /\ Transition(d, "InventoryReserved", "RESERVED", "PAID")
             /\ Enqueue(<<"PaymentProcessed", d[2]>>)
    BY <1>2, <2>1, <2>4 DEF Transition, Key
  <2>5. CASE /\ Transition(d, "PaymentProcessed", "PAID", "COMPLETED")
             /\ Enqueue(<<"Completed", d[2]>>)
    BY <1>2, <2>1, <2>5 DEF Transition, Key
  <2>6. QED
    BY <1>7, <2>2, <2>3, <2>4, <2>5, CommitSteps
<1>8. ASSUME NEW d \in Delivery, NotifyCommit(d)
      PROVE  EventsMatchStatus'
  BY <1>8 DEF NotifyCommit, orderVars, outboxVars, IInv, EventsMatchStatus,
              EventsOf
<1>9. QED
  BY <1>1, <1>4, <1>5, <1>6, <1>7, <1>8, OrderSteps

LEMMA ChargeSteps ==
  ASSUME [Next]_vars
  PROVE  \/ charge' = charge
         \/ \E d \in Delivery : Authorize(d)
<1>1. CASE \E d \in Delivery :
             ReserveCommit(d) \/ PaymentCommit(d) \/ CompleteCommit(d)
  BY <1>1 DEF ReserveCommit, PaymentCommit, CompleteCommit, TransitionCommit
<1>2. CASE \E d \in Delivery :
             ReserveRead(d) \/ PaymentRead(d) \/ CompleteRead(d)
  BY <1>2 DEF ReserveRead, PaymentRead, CompleteRead, TransitionRead
<1>3. CASE \E d \in Delivery :
             \/ NotifySend(d) \/ NotifyCommit(d) \/ TransitionConflict(d)
             \/ Skip(d) \/ Ack(d) \/ HandlerThrows(d) \/ RetryCrash(d)
             \/ HandlerCrash(d)
  BY <1>3 DEF NotifySend, NotifyCommit, TransitionConflict, Skip, Ack,
              HandlerThrows, RetryCrash, HandlerCrash
<1>4. CASE \/ \E s \in PaySession : PayRead(s) \/ PayClaim(s) \/ PayCrash(s)
           \/ \E o \in Order : CreateOrder(o)
  BY <1>4 DEF PayRead, PayClaim, PayCrash, CreateOrder
<1>5. CASE \E s \in CancelSession :
             \/ CancelRead(s) \/ CancelClaim(s) \/ CancelEnd(s)
             \/ CancelCrash(s) \/ \E p \in Product : CancelRestore(s, p)
  BY <1>5 DEF CancelRead, CancelClaim, CancelEnd, CancelCrash, CancelRestore
<1>6. CASE \/ ReplenishRead \/ \E p \in Product : ReplenishProduct(p)
           \/ \E m \in Msg : RelayPublish(m)
           \/ RelayCommit \/ RelayCrash
  BY <1>6 DEF ReplenishRead, ReplenishProduct, RelayPublish, RelayCommit,
              RelayCrash
<1>7. CASE UNCHANGED vars
  BY <1>7 DEF vars
<1>8. QED
  BY <1>1, <1>2, <1>3, <1>4, <1>5, <1>6, <1>7, StepCases

\* A payment delivery exists only for a confirmed payment.
LEMMA DeliveredPayment ==
  ASSUME IInv, NEW d \in Delivery, d[1] = "InventoryReserved",
         at[d] # "none"
  PROVE  d[2] \in paymentInitiated
<1>1. d[2] \in Order
  BY DeliveryParts
<1>2. emitted[MsgOf(d)] > 0
  BY DEF IInv, Messages
<1>3. emitted[<<"InventoryReserved", d[2]>>] > 0
  BY <1>2 DEF MsgOf
<1>4. EventsOf(d[2])
  BY <1>1 DEF IInv, EventsMatchStatus
<1>5. QED
  BY <1>3, <1>4 DEF EventsOf

LEMMA ChargeStep ==
  ASSUME IInv, [Next]_vars
  PROVE  ChargeMatchesStatus'
<1>1. SUFFICES ASSUME NEW x \in Order, ChargeOf(x)
               PROVE  ChargeOf(x)'
  BY DEF IInv, ChargeMatchesStatus
<1>2. CASE UNCHANGED <<status, paymentInitiated, emitted, inbox>>
  <2>1. CASE charge' = charge
    BY <1>1, <1>2, <2>1 DEF ChargeOf
  <2>2. ASSUME NEW d \in Delivery, Authorize(d)
        PROVE  ChargeOf(x)'
    <3>1. d[2] \in Order /\ d[2] \in paymentInitiated
      BY <2>2, DeliveryParts, DeliveredPayment DEF Authorize
    <3>2. PICK answer \in Answers(d[2]) :
            charge' = [charge EXCEPT ![d[2]] = answer]
      BY <2>2 DEF Authorize
    <3>3. charge'[x] = IF x = d[2] THEN answer ELSE charge[x]
      BY <3>1, <3>2, OrderFacts
    <3>4. QED
      BY <1>1, <1>2, <3>1, <3>2, <3>3 DEF ChargeOf, Answers
  <2>3. QED
    BY <2>1, <2>2, ChargeSteps
<1>3. ASSUME NEW o \in Order, CreateOrder(o)
      PROVE  ChargeOf(x)'
  <2>1. status'[x] = IF x = o THEN "PENDING" ELSE status[x]
    BY <1>3, OrderFacts DEF CreateOrder
  <2>2. QED
    BY <1>1, <1>3, <2>1 DEF CreateOrder, ChargeOf
<1>4. ASSUME NEW s \in PaySession, PayClaim(s), PayClaimable(s[1])
      PROVE  ChargeOf(x)'
  BY <1>1, <1>4 DEF PayClaim, PayClaimable, ChargeOf
<1>5. ASSUME NEW s \in CancelSession, CancelClaim(s), CancelClaimable(s[1])
      PROVE  ChargeOf(x)'
  <2>1. s[1] \in Order
    BY OrderFacts
  <2>2. status'[x] = IF x = s[1] THEN "CANCELLED" ELSE status[x]
    BY <1>5, <2>1, OrderFacts DEF CancelClaim
  <2>3. UNCHANGED <<paymentInitiated, charge>>
    BY <1>5 DEF CancelClaim
  <2>4. QED
    BY <1>1, <1>5, <2>2, <2>3 DEF CancelClaimable, ChargeOf
<1>6. ASSUME NEW d \in Delivery,
             ReserveCommit(d) \/ PaymentCommit(d) \/ CompleteCommit(d)
      PROVE  ChargeOf(x)'
  <2>1. ASSUME NEW key, NEW from, NEW target,
               Transition(d, key, from, target)
        PROVE  /\ status[d[2]] = from
               /\ status'[x] = IF x = d[2] THEN target ELSE status[x]
               /\ UNCHANGED <<paymentInitiated, charge>>
    BY <2>1, OrderFacts DEF Transition
  <2>2. CASE \E target \in {"RESERVED", "FAILED"} :
               Transition(d, "Created", "PENDING", target)
    BY <1>1, <2>1, <2>2 DEF ChargeOf
  <2>3. CASE /\ Transition(d, "InventoryReserved", "RESERVED", "PAID")
             /\ d[2] \in paymentInitiated /\ charge[d[2]] = "authorized"
    BY <1>1, <2>1, <2>3 DEF ChargeOf
  <2>4. CASE /\ Transition(d, "InventoryReserved", "RESERVED", "FAILED")
             /\ d[2] \in paymentInitiated /\ charge[d[2]] = "declined"
    BY <1>1, <2>1, <2>4 DEF ChargeOf
  <2>5. CASE Transition(d, "PaymentProcessed", "PAID", "COMPLETED")
    BY <1>1, <2>1, <2>5 DEF ChargeOf
  <2>6. QED
    BY <1>6, <2>2, <2>3, <2>4, <2>5, CommitSteps
<1>7. ASSUME NEW d \in Delivery, NotifyCommit(d)
      PROVE  ChargeOf(x)'
  BY <1>1, <1>7 DEF NotifyCommit, orderVars, ChargeOf
<1>8. QED
  BY <1>2, <1>3, <1>4, <1>5, <1>6, <1>7, OrderSteps

LEMMA InboxStep ==
  ASSUME IInv, [Next]_vars
  PROVE  InboxMatchesStatus'
<1>1. SUFFICES ASSUME NEW x \in Order, InboxOf(x), ChargeOf(x)
               PROVE  InboxOf(x)'
  BY DEF IInv, InboxMatchesStatus, ChargeMatchesStatus
<1>2. CASE UNCHANGED <<status, paymentInitiated, emitted, inbox>>
  BY <1>1, <1>2 DEF InboxOf
<1>3. ASSUME NEW o \in Order, CreateOrder(o)
      PROVE  InboxOf(x)'
  <2>1. status'[x] = IF x = o THEN "PENDING" ELSE status[x]
    BY <1>3, OrderFacts DEF CreateOrder
  <2>2. QED
    BY <1>1, <1>3, <2>1 DEF CreateOrder, InboxOf
<1>4. ASSUME NEW s \in PaySession, PayClaim(s), PayClaimable(s[1])
      PROVE  InboxOf(x)'
  BY <1>1, <1>4 DEF PayClaim, PayClaimable, InboxOf
<1>5. ASSUME NEW s \in CancelSession, CancelClaim(s), CancelClaimable(s[1])
      PROVE  InboxOf(x)'
  <2>1. s[1] \in Order
    BY OrderFacts
  <2>2. status'[x] = IF x = s[1] THEN "CANCELLED" ELSE status[x]
    BY <1>5, <2>1, OrderFacts DEF CancelClaim
  <2>3. UNCHANGED <<paymentInitiated, inbox>>
    BY <1>5 DEF CancelClaim
  <2>4. QED
    BY <1>1, <1>5, <2>2, <2>3 DEF CancelClaimable, InboxOf
<1>6. ASSUME NEW d \in Delivery,
             ReserveCommit(d) \/ PaymentCommit(d) \/ CompleteCommit(d)
      PROVE  InboxOf(x)'
  <2>1. ASSUME NEW key, NEW from, NEW target,
               Transition(d, key, from, target)
        PROVE  /\ status[d[2]] = from
               /\ status'[x] = IF x = d[2] THEN target ELSE status[x]
               /\ paymentInitiated' = paymentInitiated
               /\ inbox' = inbox \cup {<<key, d[2]>>}
    BY <2>1, OrderFacts DEF Transition
  <2>2. CASE \E target \in {"RESERVED", "FAILED"} :
               Transition(d, "Created", "PENDING", target)
    BY <1>1, <2>1, <2>2 DEF InboxOf, ChargeOf
  <2>3. CASE Transition(d, "InventoryReserved", "RESERVED", "PAID")
    BY <1>1, <2>1, <2>3 DEF InboxOf, ChargeOf
  <2>4. CASE /\ Transition(d, "InventoryReserved", "RESERVED", "FAILED")
             /\ d[2] \in paymentInitiated
    BY <1>1, <2>1, <2>4 DEF InboxOf, ChargeOf
  <2>5. CASE Transition(d, "PaymentProcessed", "PAID", "COMPLETED")
    BY <1>1, <2>1, <2>5 DEF InboxOf, ChargeOf
  <2>6. QED
    BY <1>6, <2>2, <2>3, <2>4, <2>5, CommitSteps
<1>7. ASSUME NEW d \in Delivery, NotifyCommit(d)
      PROVE  InboxOf(x)'
  <2>1. /\ inbox' = inbox \cup {<<d[1], d[2]>>}
        /\ d[1] \in {"Completed", "Failed"}
        /\ UNCHANGED <<status, paymentInitiated>>
    BY <1>7 DEF NotifyCommit, RecordInbox, MsgOf, orderVars
  <2>2. QED
    BY <1>1, <2>1 DEF InboxOf
<1>8. QED
  BY <1>2, <1>3, <1>4, <1>5, <1>6, <1>7, OrderSteps

=============================================================================

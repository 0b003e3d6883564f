--------------------------- MODULE OrderPipeline ---------------------------
(***************************************************************************)
(* The order pipeline end to end: the HTTP operations on an order, the     *)
(* transactional outbox and its relay, the broker's queues with            *)
(* redelivery, retry and dead-lettering, and the four consumers with their *)
(* inbox.                                                                  *)
(*                                                                         *)
(* A database transaction is one step when nothing it read can change      *)
(* before it commits, and otherwise is cut at the read: the consumers read *)
(* the order's status, then compare-and-set it, and cancelOrder reads the  *)
(* order, claims it, and gives stock back line by line, with other         *)
(* requests and deliveries running in between.                             *)
(*                                                                         *)
(* A message is named by its event and its order.  `emitted` counts how    *)
(* often it was enqueued, so an event announced twice shows as a count of  *)
(* 2.  Each event has one queue, so one consumer (see order-events.ts).    *)
(***************************************************************************)
EXTENDS OrderFSM, Integers, FiniteSets

LOCAL INSTANCE Functions

CONSTANTS
  Order,         \* orders that may be placed
  Product,       \* products on sale
  Lines,         \* [Order -> [Product -> Nat]]: the quantities ordered
  InitialStock,  \* [Product -> Nat]
  Payer,         \* concurrent pay requests for one order
  Canceller,     \* concurrent cancel requests for one order
  MaxCopies,     \* bound on the copies of one message the broker holds
  BatchSize,     \* RELAY_BATCH_SIZE
  MaxRetries,    \* createRetryErrorHandler's maxRetries
  MaxCrashes,    \* bound on the crashes of a behaviour
  LowStock,      \* LOW_STOCK_THRESHOLD
  RestockAt,     \* GUARANTEED_RESTOCK_AT
  Restock,       \* the amount a replenishment adds
  StockCap       \* bound on the stock replenishment may reach

ASSUME LinesAssumption == Lines \in [Order -> [Product -> Nat]]
ASSUME StockAssumption == InitialStock \in [Product -> Nat]
ASSUME BoundsAssumption ==
  /\ MaxCopies \in Nat /\ MaxRetries \in Nat /\ MaxCrashes \in Nat
  /\ LowStock \in Nat /\ RestockAt \in Nat
  /\ Restock \in Nat /\ StockCap \in Nat

VARIABLES
  status,            \* orders.status, "NONE" before the row exists
  paymentInitiated,  \* the orders whose paymentInitiatedAt is set
  stock,             \* products.stock
  held,              \* net quantity each order has taken from stock
  restocking,        \* products the running replenishment has still to top up
  added,             \* history: the units replenishments have added
  outbox,            \* [Msg -> "none" | "pending" | "published"]
  emitted,           \* [Msg -> number of times the event was enqueued]
  relaying,          \* rows published by the relay's open transaction
  inbox,             \* processed_messages
  at,                \* [Delivery -> where the broker or a handler has it]
  tries,             \* [Delivery -> the x-attempts header]
  saw,               \* [Delivery -> order status its transaction read]
  to,                \* [Delivery -> order status its handler decided on]
  charge,            \* [Order -> provider's decision for the order's key]
  mail,              \* [Order -> what its owner has been told by mail]
  paying,            \* pay requests past their read
  cancelling,        \* [CancelSession -> where the request is]
  left,              \* [CancelSession -> lines it has still to give back]
  crashes

orderVars == <<status, paymentInitiated>>
stockVars == <<stock, held, restocking, added>>
outboxVars == <<outbox, emitted>>
deliveryVars == <<at, tries, saw, to>>
requestVars == <<paying, cancelling, left>>
vars == <<orderVars, stockVars, outboxVars, relaying, inbox, deliveryVars,
          charge, mail, requestVars, crashes>>

\* OrderRoutingKey, by member name.
Key == {"Created", "InventoryReserved", "PaymentProcessed", "Completed",
        "Failed"}

Copy == 1..MaxCopies
Msg == Key \X Order
Delivery == Key \X Order \X Copy
PaySession == Order \X Payer
CancelSession == Order \X Canceller

MsgOf(d) == <<d[1], d[2]>>

Status == OrderStatus \cup {"NONE"}
Place == {"none", "queued", "charged", "working", "done", "acked", "dead"}

LinesOf(o) == {p \in Product : Lines[o][p] > 0}

\* Enough stock for every line: each conditional UPDATE matches its row.
InStock(o) == \A p \in Product : stock[p] >= Lines[o][p]

\* The delivery's open transaction has decremented its products' rows.
HoldsRows(d) == d[1] = "Created" /\ at[d] = "working" /\ to[d] = "RESERVED"

\* Seeded fault: stock checked by a plain read, with no row taken.
RowNeverLocked(p) == FALSE

RowLocked(p) == \E d \in Delivery : HoldsRows(d) /\ p \in LinesOf(d[2])

Init ==
  /\ status = [o \in Order |-> "NONE"]
  /\ paymentInitiated = {}
  /\ stock = InitialStock
  /\ held = [o \in Order |-> [p \in Product |-> 0]]
  /\ restocking = {}
  /\ added = [p \in Product |-> 0]
  /\ outbox = [m \in Msg |-> "none"]
  /\ emitted = [m \in Msg |-> 0]
  /\ relaying = {}
  /\ inbox = {}
  /\ at = [d \in Delivery |-> "none"]
  /\ tries = [d \in Delivery |-> 0]
  /\ saw = [d \in Delivery |-> "NONE"]
  /\ to = [d \in Delivery |-> "NONE"]
  /\ charge = [o \in Order |-> "none"]
  /\ mail = [o \in Order |-> {}]
  /\ paying = {}
  /\ cancelling = [s \in CancelSession |-> "idle"]
  /\ left = [s \in CancelSession |-> {}]
  /\ crashes = 0

(***************************************************************************)
(* HTTP operations                                                         *)
(***************************************************************************)

\* OutboxService.enqueue, inside the caller's transaction.
Enqueue(m) ==
  /\ outbox' = [outbox EXCEPT ![m] = "pending"]
  /\ emitted' = [emitted EXCEPT ![m] = @ + 1]

\* createOrder: the row and its event commit together.
CreateOrder(o) ==
  /\ status[o] = "NONE"
  /\ status' = [status EXCEPT ![o] = "PENDING"]
  /\ Enqueue(<<"Created", o>>)
  /\ UNCHANGED <<paymentInitiated, stockVars, relaying, inbox, deliveryVars,
                 charge, mail, requestVars, crashes>>

\* initiatePayment up to its transaction: anything but RESERVED is a 409.
PayRead(s) ==
  /\ s \notin paying
  /\ status[s[1]] = "RESERVED"
  /\ paying' = paying \cup {s}
  /\ UNCHANGED <<orderVars, stockVars, outboxVars, relaying, inbox,
                 deliveryVars, charge, mail, cancelling, left, crashes>>

\* Seeded fault: the claim forgets "paymentInitiatedAt" IS NULL.
PayClaimableAgain(o) == status[o] = "RESERVED"

\* The payment claim's WHERE clause.
PayClaimable(o) == status[o] = "RESERVED" /\ o \notin paymentInitiated

\* initiatePayment's transaction: claim and event, or a 409 and nothing.
PayClaim(s) ==
  /\ s \in paying
  /\ paying' = paying \ {s}
  /\ \/ /\ PayClaimable(s[1])
        /\ paymentInitiated' = paymentInitiated \cup {s[1]}
        /\ Enqueue(<<"InventoryReserved", s[1]>>)
     \/ ~PayClaimable(s[1]) /\ UNCHANGED <<paymentInitiated, outboxVars>>
  /\ UNCHANGED <<status, stockVars, relaying, inbox, deliveryVars, charge,
                 mail, cancelling, left, crashes>>

\* cancelOrder up to its claim: the read decides wasReserved.
CancelRead(s) ==
  /\ cancelling[s] = "idle"
  /\ \/ /\ status[s[1]] = "PENDING"
        /\ cancelling' = [cancelling EXCEPT ![s] = "sawPending"]
     \/ /\ status[s[1]] = "RESERVED"
        /\ s[1] \notin paymentInitiated
        /\ cancelling' = [cancelling EXCEPT ![s] = "sawReserved"]
  /\ UNCHANGED <<orderVars, stockVars, outboxVars, relaying, inbox,
                 deliveryVars, charge, mail, paying, left, crashes>>

\* Seeded fault: the claim forgets "paymentInitiatedAt" IS NULL.
CancelClaimableConfirmed(o) == status[o] \in {"PENDING", "RESERVED"}

\* Seeded fault: the claim trusts the status of the earlier read.
CancelClaimableBlind(o) == o \notin paymentInitiated

\* The cancel claim's WHERE clause.
CancelClaimable(o) ==
  \/ status[o] = "PENDING"
  \/ status[o] = "RESERVED" /\ o \notin paymentInitiated

\* cancelOrder's claim, a transaction of its own; what follows depends on
\* the status of the earlier read, not on the status the claim replaced.
CancelClaim(s) ==
  /\ cancelling[s] \in {"sawPending", "sawReserved"}
  /\ \/ /\ CancelClaimable(s[1])
        /\ status' = [status EXCEPT ![s[1]] = "CANCELLED"]
        /\ \/ /\ cancelling[s] = "sawReserved"
              /\ cancelling' = [cancelling EXCEPT ![s] = "restoring"]
              /\ left' = [left EXCEPT ![s] = LinesOf(s[1])]
           \/ /\ cancelling[s] = "sawPending"
              /\ cancelling' = [cancelling EXCEPT ![s] = "idle"]
              /\ left' = left
     \/ /\ ~CancelClaimable(s[1])
        /\ cancelling' = [cancelling EXCEPT ![s] = "idle"]
        /\ UNCHANGED <<status, left>>
  /\ UNCHANGED <<paymentInitiated, stockVars, outboxVars, relaying, inbox,
                 deliveryVars, charge, mail, paying, crashes>>

\* Give quantity back to one product's row.
Return(o, p) ==
  /\ stock' = [stock EXCEPT ![p] = @ + Lines[o][p]]
  /\ held' = [held EXCEPT ![o][p] = @ - Lines[o][p]]

\* restoreStock from cancelOrder: one autocommitted UPDATE per line, each
\* waiting for the product's row lock.
CancelRestore(s, p) ==
  /\ cancelling[s] = "restoring"
  /\ p \in left[s]
  /\ ~RowLocked(p)
  /\ Return(s[1], p)
  /\ UNCHANGED <<restocking, added>>
  /\ left' = [left EXCEPT ![s] = @ \ {p}]
  /\ UNCHANGED <<orderVars, outboxVars, relaying, inbox, deliveryVars, charge,
                 mail, paying, cancelling, crashes>>

CancelEnd(s) ==
  /\ cancelling[s] = "restoring"
  /\ left[s] = {}
  /\ cancelling' = [cancelling EXCEPT ![s] = "idle"]
  /\ UNCHANGED <<orderVars, stockVars, outboxVars, relaying, inbox,
                 deliveryVars, charge, mail, paying, left, crashes>>

\* replenishLowStock's query and its draw: every product at RestockAt or
\* below, and perhaps others up to LowStock. One run at a time, over the
\* products on sale.
ReplenishRead ==
  /\ restocking = {}
  /\ restocking' \in SUBSET {p \in Product : stock[p] <= LowStock}
  /\ restocking' # {}
  /\ \A p \in Product : stock[p] <= RestockAt => p \in restocking'
  /\ \A p \in restocking' : stock[p] + Restock <= StockCap
  /\ UNCHANGED <<orderVars, stock, held, added, outboxVars, relaying, inbox,
                 deliveryVars, charge, mail, requestVars, crashes>>

\* Seeded fault: the level read as low is written back, topped up.
WriteLevel(p) == stock' = [stock EXCEPT ![p] = LowStock + Restock]

\* The relative increment, whatever the stock is by now.
TopUp(p) == stock' = [stock EXCEPT ![p] = @ + Restock]

\* One product read as low gets its units.
ReplenishProduct(p) ==
  /\ p \in restocking
  /\ ~RowLocked(p)
  /\ TopUp(p)
  /\ added' = [added EXCEPT ![p] = @ + Restock]
  /\ restocking' = restocking \ {p}
  /\ UNCHANGED <<orderVars, held, outboxVars, relaying, inbox, deliveryVars,
                 charge, mail, requestVars, crashes>>

(***************************************************************************)
(* Relay and broker                                                        *)
(***************************************************************************)

CopiesOf(m) == {<<m[1], m[2], c>> : c \in Copy}

\* Seeded fault: a row counts as published though the broker rejected it.
RelayPublishRejected(m) ==
  /\ outbox[m] = "pending"
  /\ m \notin relaying
  /\ Cardinality(relaying) < BatchSize
  /\ relaying' = relaying \cup {m}
  /\ UNCHANGED <<orderVars, stockVars, outboxVars, inbox, deliveryVars,
                 charge, mail, requestVars, crashes>>

\* drainOnce publishes a row; the transaction that will mark it stays open.
RelayPublish(m) ==
  /\ outbox[m] = "pending"
  /\ m \notin relaying
  /\ Cardinality(relaying) < BatchSize
  /\ relaying' = relaying \cup {m}
  /\ \E d \in CopiesOf(m) :
       /\ at[d] = "none"
       /\ \A e \in CopiesOf(m) : e[3] < d[3] => at[e] # "none"
       /\ at' = [at EXCEPT ![d] = "queued"]
  /\ UNCHANGED <<orderVars, stockVars, outboxVars, inbox, tries, saw, to,
                 charge, mail, requestVars, crashes>>

\* Seeded fault: the mark covers every pending row, published or not.
RelayCommitAll ==
  /\ relaying # {}
  /\ outbox' = [m \in Msg |-> IF outbox[m] = "pending" THEN "published"
                                                      ELSE outbox[m]]
  /\ relaying' = {}
  /\ UNCHANGED <<orderVars, stockVars, emitted, inbox, deliveryVars, charge,
                 mail, requestVars, crashes>>

\* drainOnce's commit marks what it published.
RelayCommit ==
  /\ relaying # {}
  /\ outbox' = [m \in Msg |-> IF m \in relaying THEN "published"
                                                ELSE outbox[m]]
  /\ relaying' = {}
  /\ UNCHANGED <<orderVars, stockVars, emitted, inbox, deliveryVars, charge,
                 mail, requestVars, crashes>>

\* The process dies, or the commit fails, between publish and mark: the rows
\* stay pending and will be published again.
RelayCrash ==
  /\ relaying # {}
  /\ crashes < MaxCrashes
  /\ \A m \in relaying : \E d \in CopiesOf(m) : at[d] = "none"
  /\ relaying' = {}
  /\ crashes' = crashes + 1
  /\ UNCHANGED <<orderVars, stockVars, outboxVars, inbox, deliveryVars,
                 charge, mail, requestVars>>

\* The handler's working memory ends with its run.
Leave(d, where) ==
  /\ at' = [at EXCEPT ![d] = where]
  /\ saw' = [saw EXCEPT ![d] = "NONE"]
  /\ to' = [to EXCEPT ![d] = "NONE"]

\* Seeded fault: one attempt too many.
RetriesLeftLate(d) == tries[d] <= MaxRetries

RetriesLeft(d) == tries[d] < MaxRetries

\* createRetryErrorHandler: through a wait queue and back while attempts
\* remain, to the dead-letter queue after that.
Retry(d) ==
  \/ /\ RetriesLeft(d)
     /\ Leave(d, "queued")
     /\ tries' = [tries EXCEPT ![d] = @ + 1]
  \/ /\ ~RetriesLeft(d)
     /\ Leave(d, "dead")
     /\ tries' = [tries EXCEPT ![d] = 0]

\* A handler throws: the database, the provider or the broker is away, the
\* payment is in flight elsewhere, or its reads interleaved with a commit.
HandlerThrows(d) ==
  /\ at[d] \in {"queued", "charged", "working"}
  /\ Retry(d)
  /\ UNCHANGED <<orderVars, stockVars, outboxVars, relaying, inbox, charge,
                 mail, requestVars, crashes>>

\* As above, but the process dies after the copy reached the wait queue and
\* before the original is acknowledged: the broker then holds both.
RetryCrash(d) ==
  /\ at[d] \in {"queued", "charged", "working"}
  /\ RetriesLeft(d)
  /\ crashes < MaxCrashes
  /\ \E e \in CopiesOf(MsgOf(d)) :
       /\ at[e] = "none"
       /\ at' = [at EXCEPT ![d] = "queued", ![e] = "queued"]
       /\ tries' = [tries EXCEPT ![e] = tries[d] + 1]
  /\ saw' = [saw EXCEPT ![d] = "NONE"]
  /\ to' = [to EXCEPT ![d] = "NONE"]
  /\ crashes' = crashes + 1
  /\ UNCHANGED <<orderVars, stockVars, outboxVars, relaying, inbox, charge,
                 mail, requestVars>>

\* The process or its connection is lost while it holds a delivery: its
\* transaction rolls back and the broker redelivers, attempts unchanged.
HandlerCrash(d) ==
  /\ at[d] \in {"charged", "working", "done"}
  /\ crashes < MaxCrashes
  /\ Leave(d, "queued")
  /\ crashes' = crashes + 1
  /\ UNCHANGED <<orderVars, stockVars, outboxVars, relaying, inbox, tries,
                 charge, mail, requestVars>>

\* The process is lost while it serves a pay request.
PayCrash(s) ==
  /\ s \in paying
  /\ crashes < MaxCrashes
  /\ paying' = paying \ {s}
  /\ crashes' = crashes + 1
  /\ UNCHANGED <<orderVars, stockVars, outboxVars, relaying, inbox,
                 deliveryVars, charge, mail, cancelling, left>>

\* The process is lost while it serves a cancel request, possibly between
\* the claim and the last line given back.
CancelCrash(s) ==
  /\ cancelling[s] # "idle"
  /\ crashes < MaxCrashes
  /\ cancelling' = [cancelling EXCEPT ![s] = "idle"]
  /\ left' = [left EXCEPT ![s] = {}]
  /\ crashes' = crashes + 1
  /\ UNCHANGED <<orderVars, stockVars, outboxVars, relaying, inbox,
                 deliveryVars, charge, mail, paying>>

Ack(d) ==
  /\ at[d] = "done"
  /\ at' = [at EXCEPT ![d] = "acked"]
  /\ tries' = [tries EXCEPT ![d] = 0]
  /\ UNCHANGED <<orderVars, stockVars, outboxVars, relaying, inbox, saw, to,
                 charge, mail, requestVars, crashes>>

(***************************************************************************)
(* Consumers: InboxService.runOnce around each consumer's work             *)
(***************************************************************************)

\* The inbox already has the message: skip it.
Skip(d) ==
  /\ MsgOf(d) \in inbox
  /\ \/ at[d] = "queued" /\ d[1] # "InventoryReserved"
     \/ at[d] = "charged"
     \/ at[d] = "working" /\ d[1] \in {"Completed", "Failed"}
  /\ Leave(d, "done")
  /\ UNCHANGED <<orderVars, stockVars, outboxVars, relaying, inbox, tries,
                 charge, mail, requestVars, crashes>>

\* transitionOrder's read: the transition must be legal now.
TransitionRead(d, target) ==
  /\ MsgOf(d) \notin inbox
  /\ \/ /\ isTransitionAllowed(status[d[2]], target)
        /\ at' = [at EXCEPT ![d] = "working"]
        /\ saw' = [saw EXCEPT ![d] = status[d[2]]]
        /\ to' = [to EXCEPT ![d] = target]
        /\ tries' = tries
     \/ ~isTransitionAllowed(status[d[2]], target) /\ Retry(d)
  /\ UNCHANGED <<orderVars, stockVars, outboxVars, relaying, inbox, charge,
                 mail, requestVars, crashes>>

\* InventoryConsumer.reserve up to transitionOrder's compare-and-set. To take
\* rows it waits for their locks; a line that is short matches no row, locked
\* or not.
ReserveRead(d) ==
  /\ d[1] = "Created" /\ at[d] = "queued"
  /\ \/ /\ InStock(d[2])
        /\ \A p \in LinesOf(d[2]) : ~RowLocked(p)
        /\ TransitionRead(d, "RESERVED")
     \/ ~InStock(d[2]) /\ TransitionRead(d, "FAILED")

\* OrderCompletionConsumer.complete up to the compare-and-set.
CompleteRead(d) ==
  /\ d[1] = "PaymentProcessed" /\ at[d] = "queued"
  /\ TransitionRead(d, "COMPLETED")

\* What PaymentGateway keeps of its promise (ChargeOnce): one decision for an
\* order's idempotency key, and the same answer after that.
Answers(o) ==
  IF charge[o] = "none" THEN {"authorized", "declined"} ELSE {charge[o]}

\* PaymentGateway.authorize, called before any transaction is open.
Authorize(d) ==
  /\ d[1] = "InventoryReserved" /\ at[d] = "queued"
  /\ \E answer \in Answers(d[2]) :
       /\ charge' = [charge EXCEPT ![d[2]] = answer]
       /\ to' = [to EXCEPT ![d] = IF answer = "authorized" THEN "PAID"
                                                           ELSE "FAILED"]
  /\ at' = [at EXCEPT ![d] = "charged"]
  /\ UNCHANGED <<orderVars, stockVars, outboxVars, relaying, inbox, tries,
                 saw, mail, requestVars, crashes>>

\* PaymentConsumer.authorizeAndAdvance up to the compare-and-set.
PaymentRead(d) ==
  /\ d[1] = "InventoryReserved" /\ at[d] = "charged"
  /\ TransitionRead(d, to[d])

\* Seeded fault: PAID commits without PaymentProcessed.
AnnouncementNoPaid(s) ==
  CASE s = "COMPLETED" -> {"Completed"}
    [] s = "FAILED" -> {"Failed"}
    [] OTHER -> {}

\* The event that announces a status, where there is one.
Announcement(s) ==
  CASE s = "PAID" -> {"PaymentProcessed"}
    [] s = "COMPLETED" -> {"Completed"}
    [] s = "FAILED" -> {"Failed"}
    [] OTHER -> {}

\* Seeded fault: a blind save in place of the compare-and-set.
CasMatchesAny(d) == TRUE

\* transitionOrder's UPDATE ... WHERE status = from matches the row.
CasMatches(d) == status[d[2]] = saw[d]

\* Seeded fault: the inbox row is never inserted.
RecordNothing(d) == inbox' = inbox

RecordInbox(d) == inbox' = inbox \cup {MsgOf(d)}

\* The compare-and-set, the outbox row and the inbox row commit together.
TransitionCommit(d) ==
  /\ at[d] = "working"
  /\ CasMatches(d)
  /\ MsgOf(d) \notin inbox
  /\ status' = [status EXCEPT ![d[2]] = to[d]]
  /\ RecordInbox(d)
  /\ IF Announcement(to[d]) = {}
     THEN UNCHANGED outboxVars
     ELSE \E key \in Announcement(to[d]) : Enqueue(<<key, d[2]>>)
  /\ Leave(d, "done")
  /\ UNCHANGED <<paymentInitiated, relaying, tries, charge, mail,
                 requestVars, crashes>>

\* InventoryConsumer.reserve commits: stock is taken only with RESERVED.
ReserveCommit(d) ==
  /\ d[1] = "Created"
  /\ TransitionCommit(d)
  /\ \/ /\ to[d] = "RESERVED"
        /\ stock' = [p \in Product |-> stock[p] - Lines[d[2]][p]]
        /\ held' = [held EXCEPT ![d[2]] =
                      [p \in Product |-> @[p] + Lines[d[2]][p]]]
        /\ UNCHANGED <<restocking, added>>
     \/ to[d] = "FAILED" /\ UNCHANGED stockVars

\* PaymentConsumer.authorizeAndAdvance commits: PAID, or FAILED with the
\* stock still taken.
PaymentCommit(d) ==
  /\ d[1] = "InventoryReserved"
  /\ TransitionCommit(d)
  /\ UNCHANGED stockVars

\* OrderCompletionConsumer.complete commits.
CompleteCommit(d) ==
  /\ d[1] = "PaymentProcessed"
  /\ TransitionCommit(d)
  /\ UNCHANGED stockVars

\* transitionOrder's compare-and-set matches no row: ConflictException.
TransitionConflict(d) ==
  /\ at[d] = "working"
  /\ d[1] \notin {"Completed", "Failed"}
  /\ ~CasMatches(d)
  /\ Retry(d)
  /\ UNCHANGED <<orderVars, stockVars, outboxVars, relaying, inbox, charge,
                 mail, requestVars, crashes>>

\* Seeded fault: what is not recognised as a completion is a failure.
MailTextFailing(d) ==
  IF d[1] = "Completed" /\ tries[d] = 0 THEN "completed" ELSE "failed"

\* EmailConsumer.notify words the mail by the delivery's routing key.  A
\* delivery back from a wait queue arrives under the queue's own name.
MailText(d) ==
  IF d[1] = "Failed" /\ tries[d] = 0 THEN "failed" ELSE "completed"

\* EmailConsumer.notify sends the mail, then commits the inbox row.
NotifySend(d) ==
  /\ d[1] \in {"Completed", "Failed"} /\ at[d] = "queued"
  /\ MsgOf(d) \notin inbox
  /\ at' = [at EXCEPT ![d] = "working"]
  /\ mail' = [mail EXCEPT ![d[2]] = @ \cup {MailText(d)}]
  /\ UNCHANGED <<orderVars, stockVars, outboxVars, relaying, inbox, tries,
                 saw, to, charge, requestVars, crashes>>

NotifyCommit(d) ==
  /\ d[1] \in {"Completed", "Failed"} /\ at[d] = "working"
  /\ MsgOf(d) \notin inbox
  /\ RecordInbox(d)
  /\ Leave(d, "done")
  /\ UNCHANGED <<orderVars, stockVars, outboxVars, relaying, tries, charge,
                 mail, requestVars, crashes>>

\* The steps a delivery takes when nothing fails.
HandlerStep(d) ==
  \/ ReserveRead(d) \/ ReserveCommit(d)
  \/ Authorize(d) \/ PaymentRead(d) \/ PaymentCommit(d)
  \/ CompleteRead(d) \/ CompleteCommit(d)
  \/ NotifySend(d) \/ NotifyCommit(d)
  \/ TransitionConflict(d) \/ Skip(d) \/ Ack(d)

PayStep(s) == PayRead(s) \/ PayClaim(s) \/ PayCrash(s)

CancelStep(s) ==
  \/ CancelRead(s) \/ CancelClaim(s) \/ CancelEnd(s) \/ CancelCrash(s)
  \/ \E p \in Product : CancelRestore(s, p)

Next ==
  \/ \E o \in Order : CreateOrder(o)
  \/ \E s \in PaySession : PayStep(s)
  \/ \E s \in CancelSession : CancelStep(s)
  \/ ReplenishRead
  \/ \E p \in Product : ReplenishProduct(p)
  \/ \E m \in Msg : RelayPublish(m)
  \/ RelayCommit \/ RelayCrash
  \/ \E d \in Delivery :
       HandlerStep(d) \/ HandlerThrows(d) \/ RetryCrash(d) \/ HandlerCrash(d)

Spec == Init /\ [][Next]_vars

\* The relay polls and the broker delivers for as long as there is work, and
\* an awaited statement returns; crashes, faults and users are not obliged.
Fairness ==
  /\ \A m \in Msg : WF_vars(RelayPublish(m))
  /\ WF_vars(RelayCommit)
  /\ \A d \in Delivery : WF_vars(HandlerStep(d))

FairSpec == Spec /\ Fairness

(***************************************************************************)
(* Properties                                                              *)
(***************************************************************************)

OrderTypes ==
  /\ status \in [Order -> Status]
  /\ paymentInitiated \subseteq Order
  /\ charge \in [Order -> {"none", "authorized", "declined"}]
  /\ mail \in [Order -> SUBSET {"completed", "failed"}]

StockTypes ==
  /\ stock \in [Product -> Int]
  /\ held \in [Order -> [Product -> Int]]
  /\ restocking \subseteq Product
  /\ added \in [Product -> Nat]

MessageTypes ==
  /\ outbox \in [Msg -> {"none", "pending", "published"}]
  /\ emitted \in [Msg -> Nat]
  /\ relaying \subseteq Msg
  /\ inbox \subseteq Msg

DeliveryTypes ==
  /\ at \in [Delivery -> Place]
  /\ tries \in [Delivery -> 0..MaxRetries]
  /\ saw \in [Delivery -> Status]
  /\ to \in [Delivery -> Status]

RequestTypes ==
  /\ paying \subseteq PaySession
  /\ cancelling \in [CancelSession ->
                       {"idle", "sawPending", "sawReserved", "restoring"}]
  /\ left \in [CancelSession -> SUBSET Product]
  /\ crashes \in 0..MaxCrashes

\* Every variable keeps its type; in particular no delivery is retried more
\* than MaxRetries times (createRetryErrorHandler).
TypeOK ==
  OrderTypes /\ StockTypes /\ MessageTypes /\ DeliveryTypes /\ RequestTypes

EventsOf(o) ==
  /\ emitted[<<"Created", o>>] = IF status[o] # "NONE" THEN 1 ELSE 0
  /\ emitted[<<"InventoryReserved", o>>] =
       IF o \in paymentInitiated THEN 1 ELSE 0
  /\ emitted[<<"PaymentProcessed", o>>] =
       IF status[o] \in {"PAID", "COMPLETED"} THEN 1 ELSE 0
  /\ emitted[<<"Completed", o>>] = IF status[o] = "COMPLETED" THEN 1 ELSE 0
  /\ emitted[<<"Failed", o>>] = IF status[o] = "FAILED" THEN 1 ELSE 0

\* Every status change is announced exactly once, whatever is redelivered,
\* retried or raced: the outbox holds the events the status calls for, no
\* more and no fewer (createOrder, initiatePayment, the three transitions).
EventsMatchStatus == \A o \in Order : EventsOf(o)

ChargeOf(o) ==
  /\ o \in paymentInitiated =>
       status[o] \in {"RESERVED", "PAID", "COMPLETED", "FAILED"}
  /\ charge[o] # "none" => o \in paymentInitiated
  /\ charge[o] = "authorized" => status[o] # "FAILED"
  /\ charge[o] = "declined" => status[o] \in {"RESERVED", "FAILED"}
  /\ status[o] \in {"PAID", "COMPLETED"} => charge[o] = "authorized"
  /\ status[o] = "FAILED" /\ o \in paymentInitiated =>
       charge[o] = "declined"

\* An order whose payment was confirmed is never cancelled, and what the
\* provider decided is what becomes of it: money taken is never left with a
\* FAILED or CANCELLED order, and nothing is PAID without it (cancelOrder,
\* initiatePayment, authorizeAndAdvance).
ChargeMatchesStatus == \A o \in Order : ChargeOf(o)

InboxOf(o) ==
  /\ <<"Created", o>> \in inbox => status[o] \notin {"NONE", "PENDING"}
  /\ status[o] \in {"RESERVED", "PAID", "COMPLETED", "FAILED"} =>
       <<"Created", o>> \in inbox
  /\ <<"InventoryReserved", o>> \in inbox <=>
       \/ status[o] \in {"PAID", "COMPLETED"}
       \/ status[o] = "FAILED" /\ o \in paymentInitiated
  /\ <<"PaymentProcessed", o>> \in inbox <=> status[o] = "COMPLETED"

\* The inbox tells the truth: a consumer's record is there exactly when its
\* effect on the order is (a cancelled order may or may not have been
\* reserved before) (InboxService.runOnce).
InboxMatchesStatus == \A o \in Order : InboxOf(o)

StockOf(o, p) ==
  /\ status[o] \in {"NONE", "PENDING"} => held[o][p] = 0
  /\ status[o] \in {"RESERVED", "PAID", "COMPLETED"} =>
       held[o][p] = Lines[o][p]
  /\ status[o] = "FAILED" =>
       held[o][p] = IF o \in paymentInitiated THEN Lines[o][p] ELSE 0
  /\ status[o] = "CANCELLED" => held[o][p] \in {0, Lines[o][p]}

\* Stock is taken once per order and given back at most once: a live order
\* holds its lines, a rejected one nothing, a declined one still holds them,
\* and a cancelled one never gives back more than it took.
StockMatchesStatus == \A o \in Order, p \in Product : StockOf(o, p)

\* What all orders together have of a product.
HeldOf(p) == SumFunction([o \in Order |-> held[o][p]])

\* No unit appears or vanishes: whatever reservations, cancels and a
\* replenishment that read the stock earlier do between each other, shelf and
\* orders have what there was and what was added (reserveStock, restoreStock,
\* replenishLowStock).
UnitsAccounted ==
  \A p \in Product : stock[p] + HeldOf(p) = InitialStock[p] + added[p]

\* Concurrent reservations never sell what is not there.
NeverOversold == \A p \in Product : stock[p] >= 0

\* No event is lost between the outbox and its consumer: a row marked
\* published has reached the broker, and a delivery is acknowledged only when
\* the inbox has its message.
NoEventLost ==
  /\ \A m \in Msg : outbox[m] = "published" \/ m \in relaying =>
       \E d \in CopiesOf(m) : at[d] # "none"
  /\ \A d \in Delivery : at[d] \in {"done", "acked"} => MsgOf(d) \in inbox

\* The user is written to only once the order has reached COMPLETED or
\* FAILED, and never told of a failure that did not happen.
MailAfterOutcome ==
  \A o \in Order :
    /\ mail[o] # {} => status[o] \in {"COMPLETED", "FAILED"}
    /\ "failed" \in mail[o] => status[o] = "FAILED"

StatusMovesOnTable ==
  \A o \in Order : status'[o] # status[o] =>
    \/ status[o] = "NONE" /\ status'[o] = "PENDING"
    \/ status[o] # "NONE" /\ isTransitionAllowed(status[o], status'[o])

\* No interleaving of writers moves a status off the state machine's table.
StatusFollowsFSM == [][StatusMovesOnTable]_vars

\* Every enqueued event is handled by its consumer, or every copy that
\* reached the broker is kept in the dead-letter queue.
EventuallyHandled ==
  \A m \in Msg :
    outbox[m] # "none" ~>
      \/ m \in inbox
      \/ /\ \E d \in CopiesOf(m) : at[d] = "dead"
         /\ \A d \in CopiesOf(m) : at[d] \in {"none", "dead"}

Parked(key, o) == \E d \in CopiesOf(<<key, o>>) : at[d] = "dead"

\* A confirmed payment is settled, and its owner written to, unless a message
\* of the order was dead-lettered on the way.
ConfirmedEventuallySettles ==
  \A o \in Order :
    o \in paymentInitiated ~>
      \/ status[o] \in {"COMPLETED", "FAILED"} /\ mail[o] # {}
      \/ \E key \in Key : Parked(key, o)

\* The pipeline implements the abstract order lifecycle.
Lifecycle ==
  INSTANCE OrderLifecycle
    WITH confirmed <- paymentInitiated

LifecycleSpec == Lifecycle!Spec

\* What became of an order's reservation; a declined payment came after it.
Outcome ==
  [o \in Order |->
     IF <<"Created", o>> \notin inbox THEN "open"
     ELSE IF status[o] = "FAILED" /\ o \notin paymentInitiated THEN "failed"
     ELSE "reserved"]

Ledger ==
  INSTANCE StockLedger
    WITH Reservation <- Order, Row <- Product, need <- Lines, outcome <- Outcome

\* Whatever is redelivered, cancelled or declined, stock changes hands as the
\* ledger says: each order takes its lines once, all together and from stock
\* that still has them when they are taken, and stock is otherwise only added
\* (reserve, cancelOrder, replenishLowStock).
LedgerSpec == Ledger!Spec

Reached(m) == \E d \in CopiesOf(m) : at[d] # "none"

Relay ==
  INSTANCE RelayPromise
    WITH Row <- Msg,
         row <- [m \in Msg |-> IF outbox[m] = "none" THEN "absent" ELSE outbox[m]],
         sent <- [m \in Msg |-> IF Reached(m) THEN 1 ELSE 0]

\* Every event goes through the outbox once and in order: committed with its
\* status and never written again, at the broker only after that, and marked
\* only after it reached the broker (enqueue, drainOnce).
RelaySpec == Relay!Spec

(***************************************************************************)
(* The inductive invariant                                                 *)
(***************************************************************************)

\* What is in the outbox or at the broker has been enqueued, and what the
\* relay's transaction holds is unmarked.
Messages ==
  /\ \A m \in Msg : outbox[m] # "none" => emitted[m] > 0
  /\ \A d \in Delivery : at[d] # "none" => emitted[MsgOf(d)] > 0
  /\ \A m \in relaying : outbox[m] = "pending"

HandlerOf(d) ==
  /\ at[d] = "charged" => d[1] = "InventoryReserved"
  /\ d[1] = "Created" /\ at[d] = "working" =>
       saw[d] = "PENDING" /\ to[d] \in {"RESERVED", "FAILED"}
  /\ d[1] = "InventoryReserved" /\ at[d] \in {"charged", "working"} =>
       \/ to[d] = "PAID" /\ charge[d[2]] = "authorized"
       \/ to[d] = "FAILED" /\ charge[d[2]] = "declined"
  /\ d[1] = "InventoryReserved" /\ at[d] = "working" =>
       saw[d] = "RESERVED"
  /\ d[1] = "PaymentProcessed" /\ at[d] = "working" =>
       saw[d] = "PAID" /\ to[d] = "COMPLETED"

\* What a handler has read and decided by the time it commits.
Handlers == \A d \in Delivery : HandlerOf(d)

RestoreOf(s) ==
  /\ cancelling[s] = "sawReserved" => status[s[1]] \notin {"NONE", "PENDING"}
  /\ cancelling[s] = "restoring" =>
       /\ status[s[1]] = "CANCELLED"
       /\ \A p \in left[s] : held[s[1]][p] = Lines[s[1]][p]
       /\ \A t \in CancelSession :
            t[1] = s[1] /\ cancelling[t] = "restoring" => t = s

\* One cancel at most gives an order's stock back, and only what is held.
Restores == \A s \in CancelSession : RestoreOf(s)

\* A reservation about to commit has its stock, and its rows to itself.
Rows ==
  /\ \A d \in Delivery : HoldsRows(d) => InStock(d[2])
  /\ \A d, e \in Delivery :
       HoldsRows(d) /\ HoldsRows(e) /\ e # d =>
         LinesOf(d[2]) \cap LinesOf(e[2]) = {}

IInv ==
  /\ TypeOK /\ Messages /\ Handlers /\ Restores /\ Rows
  /\ EventsMatchStatus /\ ChargeMatchesStatus /\ InboxMatchesStatus
  /\ StockMatchesStatus /\ NeverOversold /\ NoEventLost /\ MailAfterOutcome

(***************************************************************************)
(* What comments in the code say, and the code does not do                 *)
(***************************************************************************)

Restoring(o) == \E c \in Canceller : cancelling[<<o, c>>] = "restoring"

\* orders.service.ts: stock was only decremented once the order reached
\* RESERVED, so a cancel that read PENDING has nothing to give back.
CancelLeavesNoStock ==
  \A o \in Order, p \in Product :
    status[o] = "CANCELLED" /\ ~Restoring(o) => held[o][p] = 0

\* email.consumer.ts words the mail by the event it handles: a failed order's
\* owner is told that it failed.
MailTellsOutcome ==
  \A o \in Order : "completed" \in mail[o] => status[o] = "COMPLETED"

=============================================================================

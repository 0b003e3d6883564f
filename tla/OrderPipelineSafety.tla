------------------------ MODULE OrderPipelineSafety ------------------------
(***************************************************************************)
(* The stock a cancel gives back and the rows a reservation holds, the     *)
(* invariance of IInv, and what follows from it: the safety properties of  *)
(* OrderPipeline, the refinement of OrderLifecycle, and that the pipeline  *)
(* treats stock and outbox as StockLedger and RelayPromise promise.        *)
(***************************************************************************)
EXTENDS OrderPipelineInvariance

(***************************************************************************)
(* Cancel requests                                                         *)
(***************************************************************************)

LEMMA CancelSteps ==
  ASSUME [Next]_vars
  PROVE  \/ UNCHANGED <<cancelling, left>>
         \/ \E s \in CancelSession :
              \/ CancelRead(s) \/ CancelClaim(s) \/ CancelEnd(s)
              \/ CancelCrash(s) \/ \E p \in Product : CancelRestore(s, p)
<1> USE DEF requestVars
<1>1. CASE \E d \in Delivery :
             \/ ReserveRead(d) \/ PaymentRead(d) \/ CompleteRead(d)
             \/ ReserveCommit(d) \/ PaymentCommit(d) \/ CompleteCommit(d)
  BY <1>1 DEF ReserveRead, PaymentRead, CompleteRead, TransitionRead,
              ReserveCommit, PaymentCommit, CompleteCommit, TransitionCommit
<1>2. CASE \E d \in Delivery :
             \/ Authorize(d) \/ NotifySend(d) \/ NotifyCommit(d)
             \/ TransitionConflict(d) \/ Skip(d) \/ Ack(d)
             \/ HandlerThrows(d) \/ RetryCrash(d) \/ HandlerCrash(d)
  BY <1>2 DEF Authorize, NotifySend, NotifyCommit, TransitionConflict, Skip,
              Ack, HandlerThrows, RetryCrash, HandlerCrash
<1>3. CASE \/ \E o \in Order : CreateOrder(o)
           \/ \E s \in PaySession : PayRead(s) \/ PayClaim(s) \/ PayCrash(s)
  BY <1>3 DEF CreateOrder, PayRead, PayClaim, PayCrash
<1>4. CASE \/ ReplenishRead \/ \E p \in Product : ReplenishProduct(p)
           \/ \E m \in Msg : RelayPublish(m)
           \/ RelayCommit \/ RelayCrash
  BY <1>4 DEF ReplenishRead, ReplenishProduct, RelayPublish, RelayCommit,
              RelayCrash
<1>5. CASE UNCHANGED vars
  BY <1>5 DEF vars
<1>6. QED
  BY <1>1, <1>2, <1>3, <1>4, <1>5, StepCases

\* A request that read RESERVED still finds the order placed and reserved,
\* or past that; one that gives stock back claimed it from RESERVED.
LEMMA CancelProgress ==
  ASSUME IInv, [Next]_vars, NEW x \in CancelSession
  PROVE  /\ cancelling'[x] = "sawReserved" =>
              cancelling[x] = "sawReserved" \/ status[x[1]] = "RESERVED"
         /\ cancelling'[x] = "restoring" =>
              \/ cancelling[x] = "restoring" /\ left'[x] \subseteq left[x]
              \/ /\ CancelClaim(x)
                 /\ cancelling[x] = "sawReserved"
                 /\ status[x[1]] = "RESERVED"
                 /\ status'[x[1]] = "CANCELLED"
                 /\ held' = held
<1> DEFINE Progress ==
             /\ cancelling'[x] = "sawReserved" =>
                  cancelling[x] = "sawReserved" \/ status[x[1]] = "RESERVED"
             /\ cancelling'[x] = "restoring" =>
                  \/ cancelling[x] = "restoring" /\ left'[x] \subseteq left[x]
                  \/ /\ CancelClaim(x)
                     /\ cancelling[x] = "sawReserved"
                     /\ status[x[1]] = "RESERVED"
                     /\ status'[x[1]] = "CANCELLED"
                     /\ held' = held
<1>1. /\ cancelling \in [CancelSession ->
                          {"idle", "sawPending", "sawReserved", "restoring"}]
      /\ left \in [CancelSession -> SUBSET Product]
  BY DEF IInv, TypeOK, RequestTypes
<1>2. ASSUME UNCHANGED <<cancelling, left>>
      PROVE  Progress
  BY <1>2
<1>3. ASSUME NEW s \in CancelSession,
             CancelRead(s) \/ CancelEnd(s) \/ CancelCrash(s)
      PROVE  Progress
  BY <1>1, <1>3 DEF CancelRead, CancelEnd, CancelCrash
<1>4. ASSUME NEW s \in CancelSession, NEW p \in Product, CancelRestore(s, p)
      PROVE  Progress
  BY <1>1, <1>4 DEF CancelRestore
<1>5. ASSUME NEW s \in CancelSession, CancelClaim(s)
      PROVE  Progress
  <2>1. CASE s # x
    BY <1>1, <1>5, <2>1 DEF CancelClaim
  <2>2. CASE s = x /\ cancelling'[x] = "restoring"
    <3>1. /\ cancelling[x] = "sawReserved"
          /\ CancelClaimable(x[1])
          /\ status' = [status EXCEPT ![x[1]] = "CANCELLED"]
          /\ held' = held
      BY <1>1, <1>5, <2>2 DEF CancelClaim, stockVars
    <3>2. status[x[1]] \notin {"NONE", "PENDING"}
      BY <3>1 DEF IInv, Restores, RestoreOf
    <3>3. status[x[1]] = "RESERVED"
      BY <3>1, <3>2 DEF CancelClaimable
    <3>4. status'[x[1]] = "CANCELLED"
      BY <3>1, OrderFacts
    <3>5. QED
      BY <1>5, <2>2, <3>1, <3>3, <3>4
  <2>3. CASE s = x /\ cancelling'[x] # "restoring"
    BY <1>1, <1>5, <2>3 DEF CancelClaim
  <2>4. QED
    BY <2>1, <2>2, <2>3
<1>6. Progress
  <2> HIDE DEF Progress
  <2> QED
    BY <1>2, <1>3, <1>4, <1>5, CancelSteps
<1>7. QED
  BY <1>6

LEMMA RestoresStep ==
  ASSUME IInv, [Next]_vars
  PROVE  Restores'
<1>1. SUFFICES ASSUME NEW x \in CancelSession, RestoreOf(x)
               PROVE  RestoreOf(x)'
  BY DEF IInv, Restores, CancelSession
<1>2. x[1] \in Order /\ StatusMove(status[x[1]], status'[x[1]])
  BY SessionParts, StatusMoves
<1>3. ASSUME cancelling'[x] = "sawReserved"
      PROVE  status'[x[1]] \notin {"NONE", "PENDING"}
  BY <1>1, <1>2, <1>3, CancelProgress DEF RestoreOf, StatusMove
<1>4. ASSUME cancelling'[x] = "restoring"
      PROVE  status'[x[1]] = "CANCELLED"
  BY <1>1, <1>2, <1>4, CancelProgress DEF RestoreOf, StatusMove
<1>5. ASSUME cancelling'[x] = "restoring", NEW p \in left'[x]
      PROVE  held'[x[1]][p] = Lines[x[1]][p]
  <2>1. p \in Product
    BY TypeStep DEF IInv, TypeOK, RequestTypes
  <2>2. CASE status[x[1]] = "RESERVED" /\ held' = held
    BY <1>2, <2>1, <2>2 DEF IInv, StockMatchesStatus, StockOf
  <2>3. CASE cancelling[x] = "restoring" /\ left'[x] \subseteq left[x]
    <3>1. /\ held[x[1]][p] = Lines[x[1]][p]
          /\ status[x[1]] = "CANCELLED"
      BY <1>1, <1>5, <2>3 DEF RestoreOf
    <3>2. CASE held' = held
      BY <3>1, <3>2
    <3>3. ASSUME NEW d \in Delivery, ReserveCommit(d)
          PROVE  held'[x[1]][p] = Lines[x[1]][p]
      <4>1. d[2] # x[1]
        BY <3>1, <3>3, ReserveEffect DEF Transition
      <4>2. QED
        BY <1>2, <2>1, <3>1, <3>3, <4>1, ReserveEffect
    <3>4. ASSUME NEW s \in CancelSession, NEW q \in Product,
                 CancelRestore(s, q)
          PROVE  held'[x[1]][p] = Lines[x[1]][p]
      <4>1. ~(s[1] = x[1] /\ q = p)
        <5>1. SUFFICES ASSUME s[1] = x[1], q = p
                       PROVE  FALSE
          OBVIOUS
        <5>2. s = x
          BY <1>1, <2>3, <3>4, <5>1 DEF RestoreOf, CancelRestore
        <5>3. left' = [left EXCEPT ![x] = @ \ {p}]
          BY <3>4, <5>1, <5>2 DEF CancelRestore
        <5>4. QED
          BY <1>5, <5>3 DEF IInv, TypeOK, RequestTypes
      <4>2. QED
        BY <1>2, <2>1, <3>1, <3>4, <4>1, RestoreEffect
    <3>5. ASSUME NEW q \in Product, ReplenishProduct(q)
          PROVE  held'[x[1]][p] = Lines[x[1]][p]
      BY <3>1, <3>5 DEF ReplenishProduct
    <3>6. QED
      BY <3>2, <3>3, <3>4, <3>5, StockSteps
  <2>4. QED
    BY <1>5, <2>2, <2>3, CancelProgress
<1>6. ASSUME cancelling'[x] = "restoring",
             NEW t \in CancelSession, t[1] = x[1],
             cancelling'[t] = "restoring", t # x
      PROVE  FALSE
  <2>1. /\ cancelling[x] = "restoring" \/ CancelClaim(x)
        /\ cancelling[t] = "restoring" \/ CancelClaim(t)
        /\ cancelling[x] # "restoring" => status[x[1]] = "RESERVED"
        /\ cancelling[t] # "restoring" => status[t[1]] = "RESERVED"
    BY <1>6, CancelProgress
  <2>2. RestoreOf(t)
    BY DEF IInv, Restores
  <2>3. CASE cancelling[x] = "restoring" \/ cancelling[t] = "restoring"
    BY <1>1, <1>6, <2>1, <2>2, <2>3 DEF RestoreOf
  <2>4. CASE /\ CancelClaim(x)
             /\ cancelling[x] # "restoring" /\ cancelling[t] # "restoring"
    <3>1. cancelling'[t] = cancelling[t]
      BY <1>6, <2>4 DEF CancelClaim, IInv, TypeOK, RequestTypes
    <3>2. QED
      BY <1>6, <2>4, <3>1
  <2>5. QED
    BY <2>1, <2>3, <2>4
<1>7. QED
  BY <1>3, <1>4, <1>5, <1>6 DEF RestoreOf, CancelSession

(***************************************************************************)
(* The rows a reservation holds, and the stock in them                     *)
(***************************************************************************)

\* A reservation that holds its rows after a step held them before, or has
\* just read enough stock in rows nobody else held; one that commits has
\* released them.
LEMMA RowsTaken ==
  ASSUME IInv, [Next]_vars, NEW x \in Delivery, HoldsRows(x)'
  PROVE  /\ ~ReserveCommit(x)
         /\ \/ HoldsRows(x)
            \/ /\ ReserveRead(x)
               /\ InStock(x[2])
               /\ UNCHANGED stock
               /\ \A p \in LinesOf(x[2]) : ~RowLocked(p)
               /\ \A y \in Delivery : y # x /\ HoldsRows(y)' => HoldsRows(y)
<1> DEFINE Taken ==
             /\ ~ReserveCommit(x)
             /\ \/ HoldsRows(x)
                \/ /\ ReserveRead(x)
                   /\ InStock(x[2])
                   /\ UNCHANGED stock
                   /\ \A p \in LinesOf(x[2]) : ~RowLocked(p)
                   /\ \A y \in Delivery :
                        y # x /\ HoldsRows(y)' => HoldsRows(y)
<1>1. /\ at \in [Delivery -> Place]
      /\ saw \in [Delivery -> Status]
      /\ to \in [Delivery -> Status]
      /\ x[1] = "Created" /\ at'[x] = "working" /\ to'[x] = "RESERVED"
  BY DEF IInv, TypeOK, DeliveryTypes, HoldsRows
<1>2. ~ReserveCommit(x)
  BY <1>1 DEF ReserveCommit, TransitionCommit, Leave
<1>3. ASSUME at'[x] = at[x], to'[x] = to[x]
      PROVE  Taken
  BY <1>1, <1>2, <1>3 DEF HoldsRows
<1>4. ASSUME UNCHANGED <<at, saw, to>>
      PROVE  Taken
  BY <1>3, <1>4
<1>5. ASSUME NEW m \in Msg, RelayPublish(m)
      PROVE  Taken
  BY <1>1, <1>3, <1>5, MessageParts DEF RelayPublish
<1>6. ASSUME NEW d \in Delivery, RetryCrash(d)
      PROVE  Taken
  <2>1. PICK e \in CopiesOf(MsgOf(d)) :
          at' = [at EXCEPT ![d] = "queued", ![e] = "queued"]
    BY <1>6 DEF RetryCrash
  <2>2. e \in Delivery
    BY DeliveryParts, MessageParts
  <2>3. x # d /\ x # e
    BY <1>1, <2>1, <2>2
  <2>4. QED
    BY <1>1, <1>3, <1>6, <2>1, <2>2, <2>3 DEF RetryCrash
<1>7. ASSUME NEW d \in Delivery, NEW where \in {"queued", "dead", "done"},
             Leave(d, where)
      PROVE  Taken
  BY <1>1, <1>3, <1>7 DEF Leave
<1>8. ASSUME NEW d \in Delivery, Ack(d) \/ Authorize(d) \/ NotifySend(d)
      PROVE  Taken
  <2>1. x # d
    BY <1>1, <1>8 DEF Ack, Authorize, NotifySend
  <2>2. at'[x] = at[x] /\ to'[x] = to[x]
    BY <1>1, <1>8, <2>1 DEF Ack, Authorize, NotifySend
  <2>3. QED
    BY <1>3, <2>2
<1>9. ASSUME NEW d \in Delivery, PaymentRead(d) \/ CompleteRead(d)
      PROVE  Taken
  <2>1. x # d
    BY <1>1, <1>9 DEF PaymentRead, CompleteRead
  <2>2. at'[x] = at[x] /\ to'[x] = to[x]
    BY <1>1, <1>9, <2>1
       DEF PaymentRead, CompleteRead, TransitionRead, Retry, Leave
  <2>3. QED
    BY <1>3, <2>2
<1>10. ASSUME NEW d \in Delivery, ReserveRead(d)
       PROVE  Taken
  <2>1. \A y \in Delivery : y # d => at'[y] = at[y] /\ to'[y] = to[y]
    BY <1>1, <1>10 DEF ReserveRead, TransitionRead, Retry, Leave
  <2>2. CASE x # d
    BY <1>3, <2>1, <2>2
  <2>3. CASE x = d
    <3>1. InStock(x[2])
      BY <1>1, <1>10, <2>3 DEF ReserveRead, TransitionRead, Retry, Leave
    <3>2. \A y \in Delivery : y # x /\ HoldsRows(y)' => HoldsRows(y)
      BY <2>1, <2>3 DEF HoldsRows
    <3>3. UNCHANGED stock /\ \A p \in LinesOf(x[2]) : ~RowLocked(p)
      BY <1>10, <2>3, <3>1 DEF ReserveRead, TransitionRead, stockVars
    <3>4. QED
      BY <1>2, <1>10, <2>3, <3>1, <3>2, <3>3
  <2>4. QED
    BY <2>2, <2>3
<1>11. ASSUME NEW d \in Delivery,
              \/ Skip(d) \/ NotifyCommit(d) \/ ReserveCommit(d)
              \/ PaymentCommit(d) \/ CompleteCommit(d)
       PROVE  Taken
  BY <1>7, <1>11 DEF Skip, NotifyCommit, ReserveCommit, PaymentCommit,
                     CompleteCommit, TransitionCommit
<1>12. Taken
  <2> HIDE DEF Taken
  <2> QED
    BY <1>4, <1>5, <1>6, <1>7, <1>8, <1>9, <1>10, <1>11, DeliverySteps
<1>13. QED
  BY <1>12

\* Only a reservation's commit lowers stock, by its lines and no further.
LEMMA StockLowered ==
  ASSUME IInv, [Next]_vars
  PROVE  \/ \A p \in Product : stock'[p] >= stock[p]
         \/ \E d \in Delivery :
              /\ ReserveCommit(d) /\ HoldsRows(d)
              /\ \A p \in Product : stock'[p] = stock[p] - Lines[d[2]][p]
<1>1. ASSUME UNCHANGED stock
      PROVE  \A p \in Product : stock'[p] >= stock[p]
  BY <1>1, StockFacts
<1>2. ASSUME NEW s \in CancelSession, NEW q \in Product, CancelRestore(s, q)
      PROVE  \A p \in Product : stock'[p] >= stock[p]
  BY <1>2, RestoreEffect, StockFacts, SessionParts
<1>3. ASSUME NEW q \in Product, ReplenishProduct(q)
      PROVE  \A p \in Product : stock'[p] >= stock[p]
  BY <1>3, StockFacts, BoundsAssumption DEF ReplenishProduct, TopUp
<1>4. QED
  BY <1>1, <1>2, <1>3, StockSteps, ReserveEffect

LEMMA NeverOversoldStep ==
  ASSUME IInv, [Next]_vars
  PROVE  NeverOversold'
<1>1. SUFFICES ASSUME NEW p \in Product
               PROVE  stock'[p] >= 0
  BY DEF NeverOversold
<1>2. stock[p] \in Int /\ stock'[p] \in Int /\ stock[p] >= 0
  BY TypeStep DEF IInv, TypeOK, StockTypes, NeverOversold
<1>3. CASE stock'[p] >= stock[p]
  BY <1>2, <1>3
<1>4. ASSUME NEW d \in Delivery, HoldsRows(d),
             stock'[p] = stock[p] - Lines[d[2]][p]
      PROVE  stock'[p] >= 0
  <2>1. stock[p] >= Lines[d[2]][p]
    BY <1>4 DEF IInv, Rows, InStock
  <2>2. Lines[d[2]][p] \in Nat
    BY DeliveryParts, StockFacts
  <2>3. QED
    BY <1>2, <1>4, <2>1, <2>2
<1>5. QED
  BY <1>3, <1>4, StockLowered

LEMMA RowsStep ==
  ASSUME IInv, [Next]_vars
  PROVE  Rows'
<1>1. ASSUME NEW x \in Delivery, HoldsRows(x)', NEW p \in Product
      PROVE  stock'[p] >= Lines[x[2]][p]
  <2>1. Lines[x[2]][p] \in Nat /\ stock[p] \in Int /\ stock'[p] \in Int
    BY DeliveryParts, StockFacts, TypeStep DEF IInv, TypeOK, StockTypes
  <2>2. stock[p] >= Lines[x[2]][p]
    BY <1>1, RowsTaken DEF IInv, Rows, InStock
  <2>3. CASE stock'[p] >= stock[p]
    BY <2>1, <2>2, <2>3
  <2>4. ASSUME NEW d \in Delivery, ReserveCommit(d), HoldsRows(d),
               stock'[p] = stock[p] - Lines[d[2]][p]
        PROVE  stock'[p] >= Lines[x[2]][p]
    <3>1. CASE Lines[x[2]][p] = 0
      BY <3>1, NeverOversoldStep DEF NeverOversold
    <3>2. CASE Lines[x[2]][p] # 0
      <4>1. x # d /\ (HoldsRows(x) \/ UNCHANGED stock)
        BY <1>1, <2>4, RowsTaken
      <4>2. CASE UNCHANGED stock
        BY <2>2, <4>2
      <4>3. CASE HoldsRows(x)
        <5>1. p \in LinesOf(x[2])
          BY <2>1, <3>2 DEF LinesOf
        <5>2. p \notin LinesOf(d[2])
          BY <2>4, <4>1, <4>3, <5>1 DEF IInv, Rows
        <5>3. Lines[d[2]][p] \in Nat
          BY DeliveryParts, StockFacts
        <5>4. Lines[d[2]][p] = 0
          BY <5>2, <5>3 DEF LinesOf
        <5>5. QED
          BY <2>1, <2>2, <2>4, <5>4
      <4>4. QED
        BY <4>1, <4>2, <4>3
    <3>3. QED
      BY <3>1, <3>2
  <2>5. QED
    BY <2>3, <2>4, StockLowered
<1>2. ASSUME NEW d \in Delivery, NEW e \in Delivery,
             HoldsRows(d)', HoldsRows(e)', e # d
      PROVE  LinesOf(d[2]) \cap LinesOf(e[2]) = {}
  <2>1. CASE HoldsRows(d) /\ HoldsRows(e)
    BY <1>2, <2>1 DEF IInv, Rows
  <2>2. ASSUME NEW x \in Delivery, NEW y \in Delivery, HoldsRows(y),
               \A p \in LinesOf(x[2]) : ~RowLocked(p)
        PROVE  LinesOf(x[2]) \cap LinesOf(y[2]) = {}
    BY <2>2 DEF RowLocked
  <2>3. QED
    BY <1>2, <2>1, <2>2, RowsTaken
<1>3. QED
  BY <1>1, <1>2 DEF Rows, InStock, LinesOf

(***************************************************************************)
(* Mail                                                                    *)
(***************************************************************************)

LEMMA MailSteps ==
  ASSUME [Next]_vars
  PROVE  mail' = mail \/ \E d \in Delivery : NotifySend(d)
<1>1. CASE \E d \in Delivery :
             \/ ReserveRead(d) \/ PaymentRead(d) \/ CompleteRead(d)
             \/ ReserveCommit(d) \/ PaymentCommit(d) \/ CompleteCommit(d)
  BY <1>1 DEF ReserveRead, PaymentRead, CompleteRead, TransitionRead,
              ReserveCommit, PaymentCommit, CompleteCommit, TransitionCommit
<1>2. CASE \E d \in Delivery :
             \/ Authorize(d) \/ NotifyCommit(d)
             \/ TransitionConflict(d) \/ Skip(d) \/ Ack(d)
             \/ HandlerThrows(d) \/ RetryCrash(d) \/ HandlerCrash(d)
  BY <1>2 DEF Authorize, NotifyCommit, TransitionConflict, Skip,
              Ack, HandlerThrows, RetryCrash, HandlerCrash
<1>3. CASE \/ \E o \in Order : CreateOrder(o)
           \/ \E s \in PaySession : PayRead(s) \/ PayClaim(s) \/ PayCrash(s)
  BY <1>3 DEF CreateOrder, PayRead, PayClaim, PayCrash
<1>4. CASE \E s \in CancelSession :
             \/ CancelRead(s) \/ CancelClaim(s) \/ CancelEnd(s)
             \/ CancelCrash(s) \/ \E p \in Product : CancelRestore(s, p)
  BY <1>4 DEF CancelRead, CancelClaim, CancelEnd, CancelCrash, CancelRestore
<1>5. CASE \/ ReplenishRead \/ \E p \in Product : ReplenishProduct(p)
           \/ \E m \in Msg : RelayPublish(m)
           \/ RelayCommit \/ RelayCrash
  BY <1>5 DEF ReplenishRead, ReplenishProduct, RelayPublish, RelayCommit,
              RelayCrash
<1>6. CASE UNCHANGED vars
  BY <1>6 DEF vars
<1>7. QED
  BY <1>1, <1>2, <1>3, <1>4, <1>5, <1>6, StepCases

LEMMA MailAfterOutcomeStep ==
  ASSUME IInv, [Next]_vars
  PROVE  MailAfterOutcome'
<1>1. SUFFICES ASSUME NEW x \in Order
               PROVE  /\ mail'[x] # {} =>
                           status'[x] \in {"COMPLETED", "FAILED"}
                      /\ "failed" \in mail'[x] => status'[x] = "FAILED"
  BY DEF MailAfterOutcome
<1>2. /\ mail[x] # {} => status[x] \in {"COMPLETED", "FAILED"}
      /\ "failed" \in mail[x] => status[x] = "FAILED"
      /\ StatusMove(status[x], status'[x])
  BY StatusMoves DEF IInv, MailAfterOutcome
<1>3. CASE mail' = mail
  BY <1>2, <1>3 DEF StatusMove
<1>4. ASSUME NEW d \in Delivery, NotifySend(d), d[2] = x
      PROVE  /\ mail'[x] # {} => status'[x] \in {"COMPLETED", "FAILED"}
             /\ "failed" \in mail'[x] => status'[x] = "FAILED"
  <2>1. emitted[<<d[1], x>>] > 0 /\ d[1] \in {"Completed", "Failed"}
    BY <1>4 DEF NotifySend, IInv, Messages, MsgOf
  <2>2. EventsOf(x)
    BY DEF IInv, EventsMatchStatus
  <2>3. /\ d[1] = "Completed" => status[x] = "COMPLETED"
        /\ d[1] = "Failed" => status[x] = "FAILED"
    BY <2>1, <2>2 DEF EventsOf
  <2>4. mail'[x] = mail[x] \cup {MailText(d)}
    BY <1>4 DEF NotifySend, IInv, TypeOK, OrderTypes
  <2>5. MailText(d) = "failed" => d[1] = "Failed"
    BY DEF MailText
  <2>6. QED
    BY <1>2, <2>1, <2>3, <2>4, <2>5 DEF StatusMove
<1>5. ASSUME NEW d \in Delivery, NotifySend(d), d[2] # x
      PROVE  /\ mail'[x] # {} => status'[x] \in {"COMPLETED", "FAILED"}
             /\ "failed" \in mail'[x] => status'[x] = "FAILED"
  <2>1. mail'[x] = mail[x]
    BY <1>5 DEF NotifySend, IInv, TypeOK, OrderTypes
  <2>2. QED
    BY <1>2, <2>1 DEF StatusMove
<1>6. QED
  BY <1>3, <1>4, <1>5, MailSteps

(***************************************************************************)
(* The theorems                                                            *)
(***************************************************************************)

LEMMA InvInit == Init => IInv
<1>1. SUFFICES ASSUME Init
               PROVE  IInv
  OBVIOUS
<1>2. TypeOK
  BY <1>1, TypeInit
<1>3. Messages /\ Handlers /\ Restores
  BY <1>1, KeyedMessages, DeliveryParts
     DEF Init, Messages, Handlers, HandlerOf, Restores, RestoreOf
<1>4. Rows
  BY <1>1 DEF Init, Rows, HoldsRows
<1>5. EventsMatchStatus
  BY <1>1, KeyedMessages
     DEF Init, EventsMatchStatus, EventsOf, Key
<1>6. ChargeMatchesStatus /\ InboxMatchesStatus
  BY <1>1 DEF Init, ChargeMatchesStatus, ChargeOf, InboxMatchesStatus, InboxOf
<1>7. StockMatchesStatus
  BY <1>1 DEF Init, StockMatchesStatus, StockOf
<1>8. NeverOversold
  BY <1>1, StockAssumption DEF Init, NeverOversold
<1>9. NoEventLost /\ MailAfterOutcome
  BY <1>1, MessageParts DEF Init, NoEventLost, MailAfterOutcome
<1>10. QED
  BY <1>2, <1>3, <1>4, <1>5, <1>6, <1>7, <1>8, <1>9 DEF IInv

LEMMA InvStep ==
  ASSUME IInv, [Next]_vars
  PROVE  IInv'
<1>1. TypeOK'
  BY TypeStep DEF IInv
<1>2. Messages' /\ Handlers' /\ Restores' /\ Rows'
  BY MessagesStep, HandlersStep, RestoresStep, RowsStep
<1>3. EventsMatchStatus' /\ ChargeMatchesStatus' /\ InboxMatchesStatus'
  BY EventsStep, ChargeStep, InboxStep
<1>4. StockMatchesStatus' /\ NeverOversold'
  BY StockMatchesStep, NeverOversoldStep
<1>5. NoEventLost' /\ MailAfterOutcome'
  BY NoEventLostStep, MailAfterOutcomeStep
<1>6. QED
  BY <1>1, <1>2, <1>3, <1>4, <1>5 DEF IInv

\* IInv holds in every reachable state: every request, delivery, retry and
\* crash of the pipeline preserves it.
THEOREM Invariance == Spec => []IInv
  BY InvInit, InvStep, PTL DEF Spec

\* createOrder, initiatePayment and the consumers' transitions announce every
\* status exactly once, however often a delivery is repeated.
THEOREM EventsCorrect == Spec => []EventsMatchStatus
<1>1. IInv => EventsMatchStatus
  BY DEF IInv
<1>2. QED
  BY <1>1, Invariance, PTL

\* What authorizeAndAdvance and cancelOrder leave behind agrees with the
\* provider's decision: no money taken for a FAILED or CANCELLED order.
THEOREM ChargeCorrect == Spec => []ChargeMatchesStatus
<1>1. IInv => ChargeMatchesStatus
  BY DEF IInv
<1>2. QED
  BY <1>1, Invariance, PTL

\* runOnce's record of a message is there exactly when the message's effect
\* on its order is.
THEOREM InboxCorrect == Spec => []InboxMatchesStatus
<1>1. IInv => InboxMatchesStatus
  BY DEF IInv
<1>2. QED
  BY <1>1, Invariance, PTL

\* reserve takes an order's stock once and cancelOrder gives it back at most
\* once, for any number of orders, products and concurrent cancels.
THEOREM StockCorrect == Spec => []StockMatchesStatus
<1>1. IInv => StockMatchesStatus
  BY DEF IInv
<1>2. QED
  BY <1>1, Invariance, PTL

\* reserve's conditional decrements never sell what is not in stock.
THEOREM StockNeverOversold == Spec => []NeverOversold
<1>1. IInv => NeverOversold
  BY DEF IInv
<1>2. QED
  BY <1>1, Invariance, PTL

\* An event drainOnce marked published has reached the broker, and a message
\* runOnce has not recorded is not acknowledged.
THEOREM EventsKept == Spec => []NoEventLost
<1>1. IInv => NoEventLost
  BY DEF IInv
<1>2. QED
  BY <1>1, Invariance, PTL

\* notify writes to an order's owner only after the order has ended, and of a
\* failure only when it failed.
THEOREM MailCorrect == Spec => []MailAfterOutcome
<1>1. IInv => MailAfterOutcome
  BY DEF IInv
<1>2. QED
  BY <1>1, Invariance, PTL

LEMMA MoveAllowed ==
  ASSUME NEW from, NEW next, StatusMove(from, next), next # from
  PROVE  \/ from = "NONE" /\ next = "PENDING"
         \/ from # "NONE" /\ isTransitionAllowed(from, next)
  BY DEF StatusMove, isTransitionAllowed, ORDER_TRANSITIONS

\* Every status write, by transitionOrder, initiatePayment or cancelOrder,
\* is a move of order-state-machine.ts's table.
THEOREM StatusCorrect == Spec => StatusFollowsFSM
<1>1. ASSUME IInv, [Next]_vars
      PROVE  [StatusMovesOnTable]_vars
  BY <1>1, StatusMoves, MoveAllowed DEF StatusMovesOnTable
<1>2. QED
  BY <1>1, Invariance, PTL DEF Spec, StatusFollowsFSM

(***************************************************************************)
(* Refinement                                                              *)
(***************************************************************************)

LEMMA LifecycleInit == Init => Lifecycle!Init
  BY DEF Init, Lifecycle!Init

LEMMA LifecycleStep ==
  ASSUME IInv, [Next]_vars
  PROVE  [Lifecycle!Next]_(Lifecycle!vars)
<1> DEFINE Step ==
             \/ \E o \in Order :
                  \/ Lifecycle!Place(o) \/ Lifecycle!Reserve(o)
                  \/ Lifecycle!Reject(o) \/ Lifecycle!Cancel(o)
                  \/ Lifecycle!Confirm(o) \/ Lifecycle!Decide(o)
                  \/ Lifecycle!Settle(o) \/ Lifecycle!Complete(o)
             \/ UNCHANGED <<status, paymentInitiated, charge>>
<1>1. ASSUME NEW d \in Delivery, Authorize(d)
      PROVE  Step
  <2>1. d[2] \in Order /\ d[2] \in paymentInitiated
    BY <1>1, DeliveryParts, DeliveredPayment DEF Authorize
  <2>2. UNCHANGED <<status, paymentInitiated>>
    BY <1>1 DEF Authorize, orderVars
  <2>3. PICK answer \in Answers(d[2]) :
          charge' = [charge EXCEPT ![d[2]] = answer]
    BY <1>1 DEF Authorize
  <2>4. CASE charge[d[2]] # "none"
    BY <2>2, <2>3, <2>4, OrderFacts DEF Answers
  <2>5. CASE charge[d[2]] = "none"
    <3>1. status[d[2]] = "RESERVED"
      BY <2>1, <2>5 DEF IInv, ChargeMatchesStatus, ChargeOf
    <3>2. answer \in {"authorized", "declined"}
      BY <2>5 DEF Answers
    <3>3. Lifecycle!Decide(d[2])
      BY <2>1, <2>2, <2>3, <2>5, <3>1, <3>2 DEF Lifecycle!Decide
    <3>4. QED
      BY <2>1, <3>3
  <2>6. QED
    BY <2>4, <2>5
<1>2. ASSUME NEW o \in Order, CreateOrder(o), charge' = charge
      PROVE  Step
  <2>1. Lifecycle!Place(o)
    BY <1>2 DEF CreateOrder, Lifecycle!Place, Lifecycle!Move
  <2>2. QED
    BY <2>1
<1>3. ASSUME NEW s \in PaySession, PayClaim(s), PayClaimable(s[1]),
             charge' = charge
      PROVE  Step
  <2>1. Lifecycle!Confirm(s[1])
    BY <1>3 DEF PayClaim, PayClaimable, Lifecycle!Confirm
  <2>2. QED
    BY <2>1, SessionParts
<1>4. ASSUME NEW s \in CancelSession, CancelClaim(s), CancelClaimable(s[1]),
             charge' = charge
      PROVE  Step
  <2>1. s[1] \in Order
    BY SessionParts
  <2>2. s[1] \notin paymentInitiated
    BY <1>4, <2>1
       DEF CancelClaimable, IInv, ChargeMatchesStatus, ChargeOf
  <2>3. Lifecycle!Cancel(s[1])
    BY <1>4, <2>2
       DEF CancelClaim, CancelClaimable, Lifecycle!Cancel, Lifecycle!Move
  <2>4. QED
    BY <2>1, <2>3
<1>5. ASSUME NEW d \in Delivery,
             ReserveCommit(d) \/ PaymentCommit(d) \/ CompleteCommit(d)
      PROVE  Step
  <2>1. d[2] \in Order
    BY DeliveryParts
  <2>2. CASE Transition(d, "Created", "PENDING", "RESERVED")
    <3>1. Lifecycle!Reserve(d[2])
      BY <2>2 DEF Transition, Lifecycle!Reserve, Lifecycle!Move
    <3>2. QED
      BY <2>1, <3>1
  <2>3. CASE Transition(d, "Created", "PENDING", "FAILED")
    <3>1. Lifecycle!Reject(d[2])
      BY <2>3 DEF Transition, Lifecycle!Reject, Lifecycle!Move
    <3>2. QED
      BY <2>1, <3>1
  <2>4. CASE \/ /\ Transition(d, "InventoryReserved", "RESERVED", "PAID")
                /\ charge[d[2]] = "authorized"
             \/ /\ Transition(d, "InventoryReserved", "RESERVED", "FAILED")
                /\ charge[d[2]] = "declined"
    <3>1. Lifecycle!Settle(d[2])
      BY <2>4 DEF Transition, Lifecycle!Settle, Lifecycle!Move
    <3>2. QED
      BY <2>1, <3>1
  <2>5. CASE Transition(d, "PaymentProcessed", "PAID", "COMPLETED")
    <3>1. Lifecycle!Complete(d[2])
      BY <2>5 DEF Transition, Lifecycle!Complete, Lifecycle!Move
    <3>2. QED
      BY <2>1, <3>1
  <2>6. QED
    BY <1>5, <2>2, <2>3, <2>4, <2>5, CommitSteps
<1>6. ASSUME NEW d \in Delivery, NotifyCommit(d)
      PROVE  Step
  BY <1>6 DEF NotifyCommit, orderVars
<1>7. ASSUME charge' = charge,
             UNCHANGED <<status, paymentInitiated, emitted, inbox>>
      PROVE  Step
  BY <1>7
<1>8. Step
  <2> HIDE DEF Step
  <2> QED
    BY <1>1, <1>2, <1>3, <1>4, <1>5, <1>6, <1>7, OrderSteps, ChargeSteps
<1>9. QED
  BY <1>8 DEF Lifecycle!Next, Lifecycle!vars

\* The whole pipeline, with its queues, retries and crashes, does nothing to
\* an order that the abstract lifecycle does not.
THEOREM ImplementsLifecycle == Spec => LifecycleSpec
  BY LifecycleInit, LifecycleStep, Invariance, PTL
     DEF Spec, LifecycleSpec, Lifecycle!Spec


(***************************************************************************)
(* The ledger of stock                                                     *)
(***************************************************************************)

\* Before the first order is created, the ledger has its initial stock.
LEMMA LedgerInit == Init => Ledger!Init
  BY StockAssumption, LinesAssumption DEF Init, Ledger!Init, Outcome

\* An order's reservation is decided by the commit of its one handler, and is
\* not decided again.
LEMMA OutcomeSteps ==
  ASSUME IInv, [Next]_vars, NEW x \in Order
  PROVE  \/ Outcome'[x] = Outcome[x]
         \/ \E d \in Delivery : ReserveCommit(d) /\ d[2] = x
<1> DEFINE Kept == Outcome'[x] = Outcome[x]
<1>1. InboxOf(x) /\ ChargeOf(x)
  BY DEF IInv, InboxMatchesStatus, ChargeMatchesStatus
<1>2. ASSUME UNCHANGED <<status, paymentInitiated, inbox>>
      PROVE  Kept
  BY <1>2 DEF Outcome
<1>3. ASSUME <<"Created", x>> \notin inbox, <<"Created", x>> \notin inbox'
      PROVE  Kept
  BY <1>3 DEF Outcome
<1>4. ASSUME <<"Created", x>> \in inbox, <<"Created", x>> \in inbox',
             status[x] = "FAILED" <=> status'[x] = "FAILED",
             status[x] = "FAILED" => paymentInitiated' = paymentInitiated
      PROVE  Kept
  BY <1>4 DEF Outcome
<1>5. ASSUME NEW o \in Order, CreateOrder(o)
      PROVE  Kept
  <2>1. inbox' = inbox /\ paymentInitiated' = paymentInitiated
    BY <1>5 DEF CreateOrder
  <2>2. status[o] = "NONE" /\ status' = [status EXCEPT ![o] = "PENDING"]
    BY <1>5 DEF CreateOrder
  <2>3. QED
    BY <1>1, <1>3, <1>4, <2>1, <2>2, OrderFacts DEF InboxOf
<1>6. ASSUME NEW s \in PaySession, PayClaim(s), PayClaimable(s[1])
      PROVE  Kept
  <2>1. /\ inbox' = inbox /\ status' = status /\ status[s[1]] = "RESERVED"
        /\ paymentInitiated' = paymentInitiated \cup {s[1]}
    BY <1>6 DEF PayClaim, PayClaimable
  <2>2. CASE x = s[1]
    BY <1>3, <1>4, <2>1, <2>2
  <2>3. CASE x # s[1]
    BY <2>1, <2>3 DEF Outcome
  <2>4. QED
    BY <2>2, <2>3
<1>7. ASSUME NEW s \in CancelSession, CancelClaim(s), CancelClaimable(s[1])
      PROVE  Kept
  <2>1. /\ inbox' = inbox /\ paymentInitiated' = paymentInitiated
        /\ status' = [status EXCEPT ![s[1]] = "CANCELLED"]
        /\ status[s[1]] \in {"PENDING", "RESERVED"}
    BY <1>7 DEF CancelClaim, CancelClaimable
  <2>2. QED
    BY <1>3, <1>4, <2>1, OrderFacts
<1> DEFINE Moved(d, from, target) ==
             /\ status[d[2]] = from /\ status'[d[2]] = target
             /\ \A o \in Order : o # d[2] => status'[o] = status[o]
             /\ inbox' = inbox \cup {<<d[1], d[2]>>}
             /\ paymentInitiated' = paymentInitiated
<1>8. ASSUME NEW d \in Delivery, NEW key, NEW from, NEW target,
              Transition(d, key, from, target)
       PROVE  d[1] = key /\ Moved(d, from, target)
  BY <1>8, OrderFacts DEF Transition
<1>9. ASSUME NEW d \in Delivery, PaymentCommit(d) \/ CompleteCommit(d)
      PROVE  Kept
  <2>1. d[1] # "Created"
    BY <1>9 DEF PaymentCommit, CompleteCommit
  <2>2. \E from, target :
          /\ Moved(d, from, target) /\ from # "FAILED"
          /\ target = "FAILED" => d[2] \in paymentInitiated
    <3> HIDE DEF Moved
    <3>1. \/ \E target \in {"RESERVED", "FAILED"} :
               Transition(d, "Created", "PENDING", target)
          \/ Transition(d, "InventoryReserved", "RESERVED", "PAID")
          \/ /\ Transition(d, "InventoryReserved", "RESERVED", "FAILED")
             /\ d[2] \in paymentInitiated
          \/ Transition(d, "PaymentProcessed", "PAID", "COMPLETED")
      BY <1>9, CommitSteps
    <3>2. QED
      BY <1>8, <2>1, <3>1
  <2>3. /\ d[2] \in paymentInitiated \/ status'[d[2]] # "FAILED"
        /\ status[d[2]] # "FAILED"
        /\ \A o \in Order : o # d[2] => status'[o] = status[o]
        /\ inbox' = inbox \cup {<<d[1], d[2]>>}
        /\ paymentInitiated' = paymentInitiated
    BY <2>2
  <2>4. <<"Created", x>> \in inbox <=> <<"Created", x>> \in inbox'
    BY <2>1, <2>3
  <2>5. QED
    BY <2>3, <2>4 DEF Outcome
<1>10. ASSUME NEW d \in Delivery, NotifyCommit(d)
      PROVE  Kept
  <2>1. /\ inbox' = inbox \cup {<<d[1], d[2]>>} /\ d[1] # "Created"
        /\ UNCHANGED <<status, paymentInitiated>>
    BY <1>10 DEF NotifyCommit, RecordInbox, MsgOf, orderVars
  <2>2. <<"Created", x>> \in inbox <=> <<"Created", x>> \in inbox'
    BY <2>1
  <2>3. QED
    BY <2>1, <2>2 DEF Outcome
<1>11. ASSUME NEW d \in Delivery, ReserveCommit(d), d[2] # x
       PROVE  Kept
  <2>1. /\ inbox' = inbox \cup {<<"Created", d[2]>>}
        /\ UNCHANGED paymentInitiated
        /\ status'[x] = status[x]
    <3> HIDE DEF Moved
    <3>1. PICK target : Transition(d, "Created", "PENDING", target)
      BY <1>11, ReserveEffect
    <3>2. d[1] = "Created" /\ Moved(d, "PENDING", target)
      BY <1>8, <3>1
    <3>3. QED
      BY <1>11, <3>2 DEF Moved
  <2>2. <<"Created", x>> \in inbox <=> <<"Created", x>> \in inbox'
    BY <1>11, <2>1
  <2>3. QED
    BY <2>1, <2>2 DEF Outcome
<1>12. QED
  <2> HIDE DEF Kept
  <2>1. Kept \/ \E d \in Delivery : ReserveCommit(d) /\ d[2] = x
    BY <1>2, <1>5, <1>6, <1>7, <1>9, <1>10, <1>11, OrderSteps
  <2>2. QED
    BY <2>1 DEF Kept

\* A commit of a reservation is a reservation or a refusal of the ledger, a
\* restored line or a restock only adds stock, and no other step touches it.
LEMMA LedgerStep ==
  ASSUME IInv, [Next]_vars
  PROVE  [Ledger!Next]_(Ledger!ledgerVars)
<1>1. stock \in [Product -> Int] /\ stock' \in [Product -> Int]
  BY TypeStep DEF IInv, TypeOK, StockTypes
<1>2. /\ DOMAIN Outcome = Order /\ DOMAIN Outcome' = Order
      /\ Outcome = [o \in Order |-> Outcome[o]]
      /\ Outcome' = [o \in Order |-> Outcome'[o]]
  BY DEF Outcome
<1>3. ASSUME NEW d \in Delivery, ReserveCommit(d)
      PROVE  Ledger!Next
  <2>1. d[2] \in Order
    BY DeliveryParts
  <2>2. \A x \in Order : x # d[2] => Outcome'[x] = Outcome[x]
    <3>1. SUFFICES ASSUME NEW x \in Order, x # d[2],
                          NEW e \in Delivery, ReserveCommit(e), e[2] = x
                   PROVE  FALSE
      BY OutcomeSteps
    <3>2. /\ inbox' = inbox \cup {<<"Created", d[2]>>}
          /\ inbox' = inbox \cup {<<"Created", x>>} /\ <<"Created", x>> \notin inbox
      BY <1>3, <3>1, ReserveEffect DEF Transition
    <3>3. QED
      BY <3>1, <3>2
  <2>3. \A target :
          Transition(d, "Created", "PENDING", target) =>
            /\ Outcome[d[2]] = "open" /\ <<"Created", d[2]>> \in inbox'
            /\ status'[d[2]] = target
            /\ d[2] \notin paymentInitiated'
    BY <2>1, OrderFacts
       DEF Transition, Outcome, IInv, ChargeMatchesStatus, ChargeOf
  <2>4. CASE /\ Transition(d, "Created", "PENDING", "RESERVED") /\ HoldsRows(d)
             /\ \A p \in Product : stock'[p] = stock[p] - Lines[d[2]][p]
    <3>1. Outcome[d[2]] = "open" /\ Outcome'[d[2]] = "reserved"
      BY <2>1, <2>3, <2>4 DEF Outcome
    <3>2. Outcome' = [Outcome EXCEPT ![d[2]] = "reserved"]
      BY <1>2, <2>1, <2>2, <3>1
    <3>3. \A p \in Product : stock[p] >= Lines[d[2]][p]
      BY <2>4 DEF IInv, Rows, InStock
    <3>4. stock' = [p \in Product |-> stock[p] - Lines[d[2]][p]]
      BY <1>1, <2>4
    <3>5. Ledger!Reserve(d[2])
      BY <3>1, <3>2, <3>3, <3>4 DEF Ledger!Reserve
    <3>6. QED
      BY <2>1, <3>5 DEF Ledger!Next
  <2>5. CASE /\ Transition(d, "Created", "PENDING", "FAILED")
             /\ UNCHANGED <<stock, held>>
    <3>1. Outcome[d[2]] = "open" /\ Outcome'[d[2]] = "failed"
      BY <2>1, <2>3, <2>5 DEF Outcome
    <3>2. Outcome' = [Outcome EXCEPT ![d[2]] = "failed"]
      BY <1>2, <2>1, <2>2, <3>1
    <3>3. Ledger!GiveUp(d[2])
      BY <2>5, <3>1, <3>2 DEF Ledger!GiveUp
    <3>4. QED
      BY <2>1, <3>3 DEF Ledger!Next
  <2>6. QED
    BY <1>3, <2>4, <2>5, ReserveEffect
<1>4. ASSUME \A d \in Delivery : ~ReserveCommit(d)
      PROVE  Outcome' = Outcome
  BY <1>2, <1>4, OutcomeSteps
<1>5. ASSUME Outcome' = Outcome, NEW p \in Product, NEW n \in Nat,
             stock' = [stock EXCEPT ![p] = @ + n]
      PROVE  Ledger!Next
  <2>1. stock'[p] >= stock[p] /\ stock' = [stock EXCEPT ![p] = stock'[p]]
    BY <1>1, <1>5
  <2>2. Ledger!Add(p)
    BY <1>5, <2>1 DEF Ledger!Add
  <2>3. QED
    BY <2>2 DEF Ledger!Next
<1>6. ASSUME Outcome' = Outcome, NEW s \in CancelSession, NEW p \in Product,
             CancelRestore(s, p)
      PROVE  Ledger!Next
  <2>1. Lines[s[1]][p] \in Nat
    BY SessionParts, StockFacts
  <2>2. stock' = [stock EXCEPT ![p] = @ + Lines[s[1]][p]]
    BY <1>6 DEF CancelRestore, Return
  <2>3. QED
    BY <1>5, <1>6, <2>1, <2>2
<1>7. ASSUME Outcome' = Outcome, NEW p \in Product, ReplenishProduct(p)
      PROVE  Ledger!Next
  BY <1>5, <1>7, BoundsAssumption DEF ReplenishProduct, TopUp
<1>8. ASSUME Outcome' = Outcome, UNCHANGED <<stock, held>>
      PROVE  UNCHANGED Ledger!ledgerVars
  BY <1>8 DEF Ledger!ledgerVars
<1>9. QED
  BY <1>3, <1>4, <1>6, <1>7, <1>8, StockSteps

\* With its retries, crashes, cancels and payments, the pipeline does nothing
\* to stock that the ledger does not: every order takes all its lines at once,
\* once, or none (reserve, cancelOrder, replenishLowStock).
THEOREM ImplementsLedger == Spec => LedgerSpec
  BY LedgerInit, LedgerStep, Invariance, PTL
     DEF Spec, LedgerSpec, Ledger!Spec

(***************************************************************************)
(* The promise of the outbox                                               *)
(***************************************************************************)

\* A message reaches the broker when the relay publishes it, not before.
LEMMA ReachedSteps ==
  ASSUME IInv, [Next]_vars, NEW m \in Msg
  PROVE  Reached(m)' <=> Reached(m) \/ RelayPublish(m)
<1>1. at \in [Delivery -> Place] /\ CopiesOf(m) \subseteq Delivery
  BY MessageParts DEF IInv, TypeOK, DeliveryTypes
<1>2. Reached(m) => Reached(m)'
  BY <1>1, Places DEF Reached, CopiesOf
<1>3. RelayPublish(m) => Reached(m)'
  BY <1>1 DEF RelayPublish, Reached, CopiesOf
<1>4. ASSUME NEW x \in CopiesOf(m), at'[x] # "none", at[x] = "none"
      PROVE  Reached(m) \/ RelayPublish(m)
  <2>1. x \in Delivery /\ MsgOf(x) = m
    BY MessageParts
  <2>2. ASSUME NEW n \in Msg, RelayPublish(n)
        PROVE  RelayPublish(m)
    <3>1. PICK d \in CopiesOf(n) : at' = [at EXCEPT ![d] = "queued"]
      BY <2>2 DEF RelayPublish
    <3>2. d = x /\ MsgOf(d) = n
      BY <1>1, <1>4, <2>1, <3>1, MessageParts
    <3>3. QED
      BY <2>1, <2>2, <3>2
  <2>3. ASSUME NEW d \in Delivery, RetryCrash(d)
        PROVE  Reached(m)
    <3>1. PICK e \in CopiesOf(MsgOf(d)) :
            at' = [at EXCEPT ![d] = "queued", ![e] = "queued"]
      BY <2>3 DEF RetryCrash
    <3>2. at[d] # "none" /\ MsgOf(e) = MsgOf(d) /\ e \in Delivery
      BY <2>3, DeliveryParts, MessageParts DEF RetryCrash
    <3>3. x = e
      BY <1>1, <1>4, <2>1, <3>1, <3>2
    <3>4. d \in CopiesOf(m)
      BY <2>1, <3>2, <3>3, DeliveryParts DEF CopiesOf, MsgOf
    <3>5. QED
      BY <3>2, <3>4 DEF Reached
  <2>4. ASSUME NEW d \in Delivery, NEW where, at[d] # "none",
               at' = [at EXCEPT ![d] = where]
        PROVE  FALSE
    BY <1>1, <1>4, <2>1, <2>4
  <2>5. ASSUME NEW d \in Delivery,
               \/ Leave(d, "queued") /\ at[d] \in {"queued", "charged",
                                                  "working", "done"}
               \/ Leave(d, "dead") /\ at[d] \in {"queued", "charged", "working"}
               \/ Skip(d) \/ Ack(d)
        PROVE  FALSE
    BY <2>4, <2>5 DEF Leave, Skip, Ack
  <2>6. ASSUME NEW d \in Delivery,
               \/ Authorize(d) \/ NotifySend(d) \/ NotifyCommit(d)
               \/ ReserveCommit(d) \/ PaymentCommit(d) \/ CompleteCommit(d)
        PROVE  FALSE
    BY <2>4, <2>6 DEF Authorize, NotifySend, NotifyCommit, ReserveCommit,
                      PaymentCommit, CompleteCommit, TransitionCommit, Leave
  <2>7. ASSUME NEW d \in Delivery,
               ReserveRead(d) \/ PaymentRead(d) \/ CompleteRead(d)
        PROVE  FALSE
    BY <2>4, <2>7 DEF ReserveRead, PaymentRead, CompleteRead, TransitionRead,
                      Retry, Leave
  <2>8. QED
    BY <1>4, <2>2, <2>3, <2>5, <2>6, <2>7, DeliverySteps
<1>5. QED
  BY <1>2, <1>3, <1>4 DEF Reached, CopiesOf

\* Only an event that is not in the outbox is enqueued.
LEMMA EnqueuesAbsent ==
  ASSUME IInv, [Next]_vars, NEW m \in Msg, Enqueue(m)
  PROVE  outbox[m] = "none"
<1>1. m[1] \in Key /\ m[2] \in Order /\ m = <<m[1], m[2]>>
  BY DEF Msg
<1>2. emitted'[m] = emitted[m] + 1 /\ emitted[m] \in Nat
  BY DEF Enqueue, IInv, TypeOK, MessageTypes
<1>3. emitted'[<<m[1], m[2]>>] \in {0, 1}
  BY <1>1, EventsStep DEF EventsMatchStatus, EventsOf, Key
<1>4. emitted[m] = 0
  BY <1>1, <1>2, <1>3
<1>5. QED
  BY <1>4 DEF IInv, Messages

LEMMA RelayInit == Init => Relay!Init
  BY MessageParts DEF Init, Relay!Init, Reached

\* The first copy of a message that reaches the broker is its sending, a
\* committed batch is its marking, and no other step touches the outbox.
LEMMA RelayStep ==
  ASSUME IInv, [Next]_vars
  PROVE  [Relay!Next]_(Relay!vars)
<1> DEFINE row == [m \in Msg |-> IF outbox[m] = "none" THEN "absent" ELSE outbox[m]]
           sent == [m \in Msg |-> IF Reached(m) THEN 1 ELSE 0]
<1>1. /\ outbox \in [Msg -> {"none", "pending", "published"}]
      /\ relaying \subseteq Msg
      /\ \A m \in relaying : outbox[m] = "pending" /\ Reached(m)
  BY DEF IInv, TypeOK, MessageTypes, Messages, NoEventLost, Reached
<1>2. ASSUME \A m \in Msg : ~RelayPublish(m)
      PROVE  sent' = sent
  BY <1>2, ReachedSteps
<1>3. ASSUME UNCHANGED <<outbox, relaying>>
      PROVE  UNCHANGED Relay!vars
  <2>1. \A m \in Msg : ~RelayPublish(m)
    BY <1>3 DEF RelayPublish
  <2>2. row' = row
    BY <1>3
  <2>3. QED
    BY <1>2, <2>1, <2>2 DEF Relay!vars
<1>4. ASSUME relaying' = relaying, NEW m \in Msg, Enqueue(m)
      PROVE  Relay!Next
  <2>1. \A n \in Msg : ~RelayPublish(n)
    BY <1>4 DEF RelayPublish
  <2>2. outbox[m] = "none" /\ outbox' = [outbox EXCEPT ![m] = "pending"]
    BY <1>4, EnqueuesAbsent DEF Enqueue
  <2>3. row[m] = "absent" /\ row' = [row EXCEPT ![m] = "pending"]
    BY <1>1, <2>2
  <2>4. Relay!Enqueue(m)
    BY <1>2, <2>1, <2>3 DEF Relay!Enqueue
  <2>5. QED
    BY <2>4 DEF Relay!Next
<1>5. ASSUME NEW m \in Msg, RelayPublish(m)
      PROVE  [Relay!Next]_(Relay!vars)
  <2>1. outbox[m] = "pending" /\ outbox' = outbox
    BY <1>5 DEF RelayPublish, outboxVars
  <2>2. \A n \in Msg : RelayPublish(n) => n = m
    BY <1>5 DEF RelayPublish
  <2>3. \A n \in Msg : Reached(n)' <=> Reached(n) \/ n = m
    BY <1>5, <2>2, ReachedSteps
  <2>4. row' = row /\ row[m] = "pending"
    BY <2>1
  <2>5. CASE Reached(m)
    <3>1. sent' = sent
      BY <2>3, <2>5
    <3>2. QED
      BY <2>4, <3>1 DEF Relay!vars
  <2>6. CASE ~Reached(m)
    <3> DEFINE before == [n \in Msg |-> IF Reached(n) THEN 1 ELSE 0]
               after == [n \in Msg |-> IF Reached(n)' THEN 1 ELSE 0]
    <3>a. before[m] = 0 /\ after[m] = 1
      BY <2>3, <2>6
    <3>b. \A n \in Msg \ {m} : after[n] = before[n]
      BY <2>3
    <3>c. after = [n \in Msg |-> after[n]] /\ before = [n \in Msg |-> before[n]]
      OBVIOUS
    <3>d. after = [before EXCEPT ![m] = @ + 1]
      <4> HIDE DEF before, after
      <4> QED
        BY <3>a, <3>b, <3>c
    <3>1. sent' = [sent EXCEPT ![m] = @ + 1]
      BY <3>d
    <3>2. Relay!Send(m)
      BY <2>4, <3>1 DEF Relay!Send
    <3>3. QED
      BY <3>2 DEF Relay!Next
  <2>7. QED
    BY <2>5, <2>6
<1>6. CASE RelayCommit
  <2>1. \A n \in Msg : ~RelayPublish(n)
    BY <1>6 DEF RelayPublish, RelayCommit
  <2>2. \A m \in relaying : row[m] = "pending" /\ sent[m] > 0
    BY <1>1
  <2>3. row' = [m \in Msg |-> IF m \in relaying THEN "published" ELSE row[m]]
    BY <1>6 DEF RelayCommit
  <2>4. Relay!Mark(relaying)
    BY <1>2, <2>1, <2>2, <2>3 DEF Relay!Mark
  <2>5. relaying \in SUBSET Msg
    BY <1>1
  <2>6. \E rows \in SUBSET Msg : Relay!Mark(rows)
    BY <2>4, <2>5, Zenon DEF Relay!Mark
  <2>7. QED
    BY <2>6, Zenon DEF Relay!Next
<1>7. CASE RelayCrash
  <2>1. \A n \in Msg : ~RelayPublish(n)
    BY <1>7 DEF RelayPublish, RelayCrash
  <2>2. row' = row
    BY <1>7 DEF RelayCrash, outboxVars
  <2>3. QED
    BY <1>2, <2>1, <2>2 DEF Relay!vars
<1>8. QED
  BY <1>3, <1>4, <1>5, <1>6, <1>7, OutboxSteps

\* Each of the pipeline's events is enqueued once, published while it is
\* pending and marked only after it reached the broker (enqueue, drainOnce).
THEOREM ImplementsRelay == Spec => RelaySpec
  BY RelayInit, RelayStep, Invariance, PTL DEF Spec, RelaySpec, Relay!Spec

=============================================================================

-------------------------- MODULE OrderCacheProofs --------------------------
(***************************************************************************)
(* What is proved of OrderCache, for any number of orders, concurrent      *)
(* reads and deletions that fail.                                          *)
(***************************************************************************)
EXTENDS OrderCache, TLAPS

(***************************************************************************)
(* The inductive invariant                                                 *)
(***************************************************************************)

\* A snapshot that only holds orders in a status they will never leave.
Final(snapshot) ==
  \A o \in Order :
    snapshot[o] # Absent => snapshot[o] = db[o] /\ isTerminalStatus(db[o])

\* What is cached, or about to be, is settled.
Snapshots ==
  /\ Final(byId) /\ Final(list)
  /\ \A r \in Reader : Final(got[r])

\* An open transaction has written a status its order may still move to.
Writing ==
  \A o \in Order : wrote[o] # Absent =>
    /\ db[o] \in OrderStatus /\ wrote[o] \in OrderStatus
    /\ isTransitionAllowed(db[o], wrote[o])

\* createOrder is done with o.
Announced(o) == db[o] # Absent /\ <<o, "create">> \notin due

\* A list without an order that was announced, in the cache or on its way
\* there, is explained.
Explained ==
  \A o \in Order : Announced(o) =>
    /\ listCached /\ list[o] = Absent => o \in missed
    /\ \A r \in Reader :
         reading[r] = "store" /\ want[r] = List /\ got[r][o] = Absent => o \in missed

OrderCacheInv ==
  OrderCacheTypeOK /\ Writing /\ Snapshots /\ Explained

\* An order that can still move is not in a terminal status.
LEMMA MovesFromNonTerminal ==
  ASSUME NEW from \in OrderStatus, NEW to \in OrderStatus,
         isTransitionAllowed(from, to)
  PROVE  ~isTerminalStatus(from)
  BY DEF isTransitionAllowed, isTerminalStatus

LEMMA CancellableNotTerminal ==
  ~isTerminalStatus("PENDING") /\ ~isTerminalStatus("RESERVED")
  BY DEF isTerminalStatus, OrderStatus, ORDER_TRANSITIONS

LEMMA OrderCacheInvInit == OrderCacheInit => OrderCacheInv
<1> SUFFICES ASSUME OrderCacheInit PROVE OrderCacheInv
  OBVIOUS
<1> USE DEF OrderCacheInit, Nothing
<1>1. Nothing \in [Order -> Value]
  BY DEF Value
<1>2. OrderCacheTypeOK
  <2>1. cacheFaults \in 0..MaxCacheFaults
    BY OrderCacheAssumption
  <2>2. /\ want \in [Reader -> Want]
        /\ reading \in [Reader -> {"idle", "query", "store"}]
        /\ got \in [Reader -> [Order -> Value]]
    BY <1>1 DEF Want
  <2>3. due \in SUBSET (Order \X Dids) /\ missed \in SUBSET Order
    OBVIOUS
  <2>4. QED
    BY <1>1, <2>1, <2>2, <2>3 DEF OrderCacheTypeOK
<1>3. Writing /\ Snapshots /\ Explained
  BY DEF Writing, Snapshots, Final, Explained, Announced
<1>4. QED
  BY <1>2, <1>3 DEF OrderCacheInv

(***************************************************************************)
(* Steps                                                                   *)
(***************************************************************************)

LEMMA CacheStepCases ==
  ASSUME [OrderCacheNext]_orderCacheVars
  PROVE  \/ \E o \in Order :
              \/ Create(o) \/ TxDrop(o) \/ TxEnd(o) \/ Cancel(o) \/ Pay(o)
              \/ ExpireOrder(o)
         \/ \E o \in Order, to \in OrderStatus : TxWrite(o, to)
         \/ \E o \in Order, did \in Dids : Drop(o, did) \/ DropFails(o, did)
         \/ \E r \in Reader : Query(r) \/ Store(r)
         \/ \E r \in Reader, key \in Want : Miss(r, key)
         \/ ExpireList
         \/ UNCHANGED orderCacheVars
  BY DEF OrderCacheNext, WriterStep, ReadOn

LEMMA CacheTypeStep ==
  ASSUME OrderCacheTypeOK, Writing, [OrderCacheNext]_orderCacheVars
  PROVE  OrderCacheTypeOK'
<1> USE OrderCacheAssumption
    DEF OrderCacheTypeOK, Value, Want, Dids, Nothing, cacheKeys, readers, DropList
<1>1. ASSUME NEW o \in Order, Create(o) PROVE OrderCacheTypeOK'
  BY <1>1 DEF Create, OrderStatus
<1>2. ASSUME NEW o \in Order, TxDrop(o) \/ ExpireOrder(o) PROVE OrderCacheTypeOK'
  BY <1>2 DEF TxDrop, ExpireOrder
<1>3. ASSUME NEW o \in Order, TxEnd(o) PROVE OrderCacheTypeOK'
  BY <1>3 DEF TxEnd
<1>4. ASSUME NEW o \in Order, Cancel(o) \/ Pay(o) PROVE OrderCacheTypeOK'
  BY <1>4 DEF Cancel, Pay, OrderStatus
<1>5. ASSUME NEW o \in Order, NEW to \in OrderStatus, TxWrite(o, to)
      PROVE  OrderCacheTypeOK'
  BY <1>5 DEF TxWrite
<1>6. ASSUME NEW o \in Order, NEW did \in Dids, Drop(o, did)
      PROVE  OrderCacheTypeOK'
  BY <1>6 DEF Drop
<1>7. ASSUME NEW o \in Order, NEW did \in Dids, DropFails(o, did)
      PROVE  OrderCacheTypeOK'
  BY <1>7 DEF DropFails
<1>8. ASSUME NEW r \in Reader, NEW key \in Want, Miss(r, key)
      PROVE  OrderCacheTypeOK'
  BY <1>8 DEF Miss
<1>9. ASSUME NEW r \in Reader, Query(r) PROVE OrderCacheTypeOK'
  <2> DEFINE read == [o \in Order |-> IF want[r] \in {List, o} THEN db[o] ELSE Absent]
  <2>1. read \in [Order -> Value]
    OBVIOUS
  <2>2. /\ got' = [got EXCEPT ![r] = read] \/ got' = got
        /\ \E now \in {"store", "idle"} : reading' = [reading EXCEPT ![r] = now]
        /\ want' = [want EXCEPT ![r] = List] \/ want' = want
    BY <1>9 DEF Query
  <2> HIDE DEF read
  <2>3. /\ got' \in [Reader -> [Order -> Value]]
        /\ reading' \in [Reader -> {"idle", "query", "store"}]
        /\ want' \in [Reader -> Want]
    BY <2>1, <2>2
  <2>4. QED
    BY <1>9, <2>3 DEF Query
<1>10. ASSUME NEW r \in Reader, Store(r) PROVE OrderCacheTypeOK'
  <2>1. Nothing \in [Order -> Value] /\ got[r] \in [Order -> Value]
    OBVIOUS
  <2>2. want[r] # List => want[r] \in Order
    OBVIOUS
  <2>3. /\ got' \in [Reader -> [Order -> Value]]
        /\ reading' \in [Reader -> {"idle", "query", "store"}]
        /\ want' \in [Reader -> Want]
    BY <1>10, <2>1 DEF Store
  <2>4. byId' \in [Order -> Value] /\ list' \in [Order -> Value] /\ listCached' \in BOOLEAN
    BY <1>10, <2>1, <2>2 DEF Store
  <2>5. QED
    BY <1>10, <2>3, <2>4 DEF Store
<1>11. CASE ExpireList
  BY <1>11 DEF ExpireList
<1>12. CASE UNCHANGED orderCacheVars
  BY <1>12 DEF orderCacheVars
<1>13. QED
  BY <1>1, <1>2, <1>3, <1>4, <1>5, <1>6, <1>7, <1>8, <1>9, <1>10, <1>11,
     <1>12, CacheStepCases

LEMMA WritingStep ==
  ASSUME OrderCacheTypeOK, Writing, [OrderCacheNext]_orderCacheVars
  PROVE  Writing'
<1> USE OrderCacheAssumption
    DEF OrderCacheTypeOK, Value, Writing, cacheKeys, readers
<1>1. ASSUME NEW o \in Order, Create(o) \/ Cancel(o) \/ Pay(o) PROVE Writing'
  BY <1>1 DEF Create, Cancel, Pay
<1>2. ASSUME NEW o \in Order, TxDrop(o) \/ ExpireOrder(o) PROVE Writing'
  BY <1>2 DEF TxDrop, ExpireOrder
<1>3. ASSUME NEW o \in Order, TxEnd(o) PROVE Writing'
  BY <1>3 DEF TxEnd
<1>4. ASSUME NEW o \in Order, NEW to \in OrderStatus, TxWrite(o, to)
      PROVE  Writing'
  BY <1>4 DEF TxWrite
<1>5. ASSUME NEW o \in Order, NEW did \in Dids, Drop(o, did) \/ DropFails(o, did)
      PROVE  Writing'
  BY <1>5 DEF Drop, DropFails
<1>6. ASSUME NEW r \in Reader, Query(r) \/ Store(r) PROVE Writing'
  BY <1>6 DEF Query, Store
<1>7. ASSUME NEW r \in Reader, NEW key \in Want, Miss(r, key) PROVE Writing'
  BY <1>7 DEF Miss
<1>8. CASE ExpireList \/ UNCHANGED orderCacheVars
  BY <1>8 DEF ExpireList, orderCacheVars
<1>9. QED
  BY <1>1, <1>2, <1>3, <1>4, <1>5, <1>6, <1>7, <1>8, CacheStepCases

\* No write touches an order that a settled snapshot holds.
LEMMA TerminalStays ==
  ASSUME OrderCacheInv, [OrderCacheNext]_orderCacheVars,
         NEW o \in Order, db[o] # Absent, isTerminalStatus(db[o])
  PROVE  db'[o] = db[o]
<1> USE DEF OrderCacheInv, OrderCacheTypeOK, Writing, cacheKeys, readers
<1>1. ASSUME NEW p \in Order, Create(p) PROVE db'[o] = db[o]
  BY <1>1 DEF Create
<1>2. ASSUME NEW p \in Order, TxEnd(p) PROVE db'[o] = db[o]
  BY <1>2, MovesFromNonTerminal DEF TxEnd
<1>3. ASSUME NEW p \in Order, Cancel(p) PROVE db'[o] = db[o]
  BY <1>3, CancellableNotTerminal DEF Cancel
<1>4. ASSUME db' = db PROVE db'[o] = db[o]
  BY <1>4
<1>5. QED
  BY <1>1, <1>2, <1>3, <1>4, CacheStepCases
     DEF TxDrop, Pay, ExpireOrder, TxWrite, Drop, DropFails, Query, Store,
         Miss, ExpireList, orderCacheVars

LEMMA FinalStays ==
  ASSUME OrderCacheInv, [OrderCacheNext]_orderCacheVars,
         NEW s, Final(s)
  PROVE  \A o \in Order :
           s[o] # Absent => s[o] = db'[o] /\ isTerminalStatus(db'[o])
  BY TerminalStays DEF Final

LEMMA SnapshotsStep ==
  ASSUME OrderCacheInv, [OrderCacheNext]_orderCacheVars
  PROVE  Snapshots'
<1> USE DEF OrderCacheInv, OrderCacheTypeOK, Snapshots, Nothing, cacheKeys,
            readers, DropList
<1>1. /\ \A o \in Order :
           byId[o] # Absent => byId[o] = db'[o] /\ isTerminalStatus(db'[o])
      /\ \A o \in Order :
           list[o] # Absent => list[o] = db'[o] /\ isTerminalStatus(db'[o])
      /\ \A r \in Reader, o \in Order :
           got[r][o] # Absent => got[r][o] = db'[o] /\ isTerminalStatus(db'[o])
  BY FinalStays
<1>2. ASSUME NEW o \in Order, TxDrop(o) \/ ExpireOrder(o) PROVE Snapshots'
  BY <1>1, <1>2 DEF TxDrop, ExpireOrder, Final
<1>3. ASSUME NEW o \in Order, NEW did \in Dids, Drop(o, did) PROVE Snapshots'
  BY <1>1, <1>3 DEF Drop, Final
<1>4. ASSUME NEW r \in Reader, Query(r) PROVE Snapshots'
  BY <1>1, <1>4 DEF Query, Cacheable, Final
<1>5. ASSUME NEW r \in Reader, Store(r) PROVE Snapshots'
  BY <1>1, <1>5 DEF Store, Final, Want
<1>6. CASE ExpireList
  BY <1>1, <1>6 DEF ExpireList, Final
<1>7. ASSUME UNCHANGED <<cacheKeys, got>> PROVE Snapshots'
  BY <1>1, <1>7 DEF Final
<1>8. QED
  BY <1>2, <1>3, <1>4, <1>5, <1>6, <1>7, CacheStepCases
     DEF Create, Cancel, Pay, TxEnd, TxWrite, DropFails, Miss, orderCacheVars

LEMMA ExplainedStep ==
  ASSUME OrderCacheInv, [OrderCacheNext]_orderCacheVars
  PROVE  Explained'
<1> USE OrderCacheAssumption
    DEF OrderCacheInv, OrderCacheTypeOK, Explained, Announced, Nothing,
        cacheKeys, readers, DropList
<1>1. ASSUME NEW o \in Order, Create(o) PROVE Explained'
  BY <1>1 DEF Create
<1>2. ASSUME NEW o \in Order, TxDrop(o) \/ ExpireOrder(o) PROVE Explained'
  BY <1>2 DEF TxDrop, ExpireOrder
<1>3. ASSUME NEW o \in Order, TxEnd(o) PROVE Explained'
  BY <1>3 DEF TxEnd, Writing
<1>4. ASSUME NEW o \in Order, Cancel(o) \/ Pay(o) PROVE Explained'
  BY <1>4 DEF Cancel, Pay, OrderStatus
<1>5. ASSUME NEW o \in Order, NEW to \in OrderStatus, TxWrite(o, to)
      PROVE  Explained'
  BY <1>5 DEF TxWrite
<1>6. ASSUME NEW o \in Order, NEW did \in Dids, Drop(o, did) PROVE Explained'
  <2> SUFFICES ASSUME NEW p \in Order, Announced(p)'
               PROVE  /\ listCached' /\ list'[p] = Absent => p \in missed'
                      /\ \A r \in Reader :
                           reading'[r] = "store" /\ want'[r] = List /\ got'[r][p] = Absent
                           => p \in missed'
    OBVIOUS
  <2>1. CASE <<p, "create">> \in due
    <3>1. o = p /\ did = "create"
      BY <1>6, <2>1 DEF Drop
    <3>2. QED
      BY <1>6, <3>1 DEF Drop, DropsList, ReadTooEarly
  <2>2. CASE <<p, "create">> \notin due
    BY <1>6, <2>2 DEF Drop
  <2>3. QED
    BY <2>1, <2>2
<1>7. ASSUME NEW o \in Order, NEW did \in Dids, DropFails(o, did)
      PROVE  Explained'
  BY <1>7 DEF DropFails
<1>8. ASSUME NEW r \in Reader, NEW key \in Want, Miss(r, key) PROVE Explained'
  BY <1>8 DEF Miss
<1>9. ASSUME NEW r \in Reader, Query(r) PROVE Explained'
  BY <1>9 DEF Query
<1>10. ASSUME NEW r \in Reader, Store(r) PROVE Explained'
  BY <1>10 DEF Store
<1>11. CASE ExpireList \/ UNCHANGED orderCacheVars
  BY <1>11 DEF ExpireList, orderCacheVars
<1>12. QED
  BY <1>1, <1>2, <1>3, <1>4, <1>5, <1>6, <1>7, <1>8, <1>9, <1>10, <1>11,
     CacheStepCases

LEMMA OrderCacheInvStep ==
  ASSUME OrderCacheInv, [OrderCacheNext]_orderCacheVars
  PROVE  OrderCacheInv'
  BY CacheTypeStep, WritingStep, SnapshotsStep, ExplainedStep DEF OrderCacheInv

(***************************************************************************)
(* Theorems                                                                *)
(***************************************************************************)

\* Every reachable state keeps the invariant (OrdersService, CacheService).
THEOREM OrderCacheInvariance == OrderCacheSpec => []OrderCacheInv
  BY OrderCacheInvInit, OrderCacheInvStep, PTL DEF OrderCacheSpec

\* No read serves an order in a status it no longer has, for any number of
\* readers, transactions and failed deletions (getOrderForUser,
\* listOrdersForUser).
THEOREM CacheTruthfulCorrect == OrderCacheSpec => []CacheTruthful
<1>1. OrderCacheInv => CacheTruthful
  BY DEF OrderCacheInv, Snapshots, Final, CacheTruthful
<1>2. QED
  BY <1>1, OrderCacheInvariance, PTL

\* A cached list lacks an order only for a failed deletion or a read that was
\* too early (createOrder).
THEOREM ListMissesCorrect == OrderCacheSpec => []ListMissesExplained
<1>1. OrderCacheInv => ListMissesExplained
  BY DEF OrderCacheInv, Explained, Announced, ListMissesExplained, Unlisted
<1>2. QED
  BY <1>1, OrderCacheInvariance, PTL

\* Every reachable state is well typed (CacheService).
THEOREM CacheTypesCorrect == OrderCacheSpec => []OrderCacheTypeOK
<1>1. OrderCacheInv => OrderCacheTypeOK
  BY DEF OrderCacheInv
<1>2. QED
  BY <1>1, OrderCacheInvariance, PTL

=============================================================================

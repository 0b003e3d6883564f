----------------------------- MODULE OrderCache -----------------------------
(***************************************************************************)
(* The cache-aside reads of one user's orders, by id and as a list, against *)
(* the writers that delete the keys: createOrder after its commit,         *)
(* transitionOrder before its caller's, cancelOrder after its claim.       *)
(*                                                                         *)
(* Redis is fail-open: a call that fails, or a process that dies before    *)
(* it, leaves the keys as they are.                                        *)
(***************************************************************************)
EXTENDS OrderFSM, Naturals

CONSTANTS
  Order,          \* orders of the user
  Absent,         \* no order, or nothing cached
  Reader,         \* concurrent reads
  MaxCacheFaults  \* bound on the deletions that fail

ASSUME OrderCacheAssumption == Absent \notin OrderStatus /\ MaxCacheFaults \in Nat

Value == OrderStatus \cup {Absent}
List == "list"

\* The key a read is about: orders:user:{userId}, or order:{id}.
Want == {List} \cup Order

ASSUME WantAssumption == List \notin Order

VARIABLES
  db,           \* [Order -> committed status]
  wrote,        \* [Order -> status a consumer's open transaction has written]
  due,          \* deletions a writer still owes: <<order, what it did>>
  byId,         \* [Order -> status cached under order:{id}]
  list,         \* [Order -> status in the cached list]
  listCached,   \* whether there is one
  reading,      \* [Reader -> "idle", "query" or "store"]
  want,         \* [Reader -> the key it missed]
  got,          \* [Reader -> what it read from the database]
  cacheFaults,
  missed        \* history: orders whose deletion failed, or came while a read
                \* of before their creation was about to be stored

cacheKeys == <<byId, list, listCached>>
readers == <<reading, want, got>>
orderCacheVars ==
  <<db, wrote, due, cacheKeys, readers, cacheFaults, missed>>

Nothing == [o \in Order |-> Absent]

OrderCacheInit ==
  /\ db = Nothing /\ wrote = Nothing
  /\ due = {}
  /\ byId = Nothing /\ list = Nothing /\ listCached = FALSE
  /\ reading = [r \in Reader |-> "idle"]
  /\ want = [r \in Reader |-> List]
  /\ got = [r \in Reader |-> Nothing]
  /\ cacheFaults = 0
  /\ missed = {}

(***************************************************************************)
(* Writers                                                                 *)
(***************************************************************************)

\* createOrder commits.
Create(o) ==
  /\ db[o] = Absent
  /\ db' = [db EXCEPT ![o] = "PENDING"]
  /\ due' = due \cup {<<o, "create">>}
  /\ UNCHANGED <<wrote, cacheKeys, readers, cacheFaults, missed>>

\* Seeded fault: createOrder drops the key of the order, not of the list.
DropsListAfterCancel(did) == did = "cancel"

\* Which keys a writer's deletion names.
DropsList(did) == did \in {"create", "cancel"}
DropsById(did) == did \in {"cancel", "pay"}

DropList == list' = Nothing /\ listCached' = FALSE

\* A read of before o was created is about to be stored.
ReadTooEarly(o) ==
  \E r \in Reader : reading[r] = "store" /\ want[r] = List /\ got[r][o] = Absent

\* The deletion a writer owes reaches Redis.
Drop(o, did) ==
  /\ <<o, did>> \in due
  /\ due' = due \ {<<o, did>>}
  /\ IF DropsList(did) THEN DropList ELSE UNCHANGED <<list, listCached>>
  /\ byId' = IF DropsById(did) THEN [byId EXCEPT ![o] = Absent] ELSE byId
  /\ missed' = IF did = "create" /\ ReadTooEarly(o) THEN missed \cup {o} ELSE missed
  /\ UNCHANGED <<db, wrote, readers, cacheFaults>>

\* It does not: Redis is down, or the process died first.
DropFails(o, did) ==
  /\ cacheFaults < MaxCacheFaults
  /\ <<o, did>> \in due
  /\ due' = due \ {<<o, did>>}
  /\ cacheFaults' = cacheFaults + 1
  /\ missed' = IF did = "create" THEN missed \cup {o} ELSE missed
  /\ UNCHANGED <<db, wrote, cacheKeys, readers>>

\* transitionOrder: the compare-and-set in its caller's transaction.
TxWrite(o, to) ==
  /\ wrote[o] = Absent
  /\ db[o] # Absent /\ isTransitionAllowed(db[o], to)
  /\ wrote' = [wrote EXCEPT ![o] = to]
  /\ UNCHANGED <<db, due, cacheKeys, readers, cacheFaults, missed>>

\* It deletes both keys, the transaction still open. Best effort.
TxDrop(o) ==
  /\ wrote[o] # Absent
  /\ byId' = [byId EXCEPT ![o] = Absent]
  /\ DropList
  /\ UNCHANGED <<db, wrote, due, readers, cacheFaults, missed>>

\* The caller's transaction ends, committed or rolled back.
TxEnd(o) ==
  /\ wrote[o] # Absent
  /\ wrote' = [wrote EXCEPT ![o] = Absent]
  /\ db' \in {db, [db EXCEPT ![o] = wrote[o]]}
  /\ UNCHANGED <<due, cacheKeys, readers, cacheFaults, missed>>

\* cancelOrder's claim; it waits for the row while a transaction holds it.
Cancel(o) ==
  /\ wrote[o] = Absent
  /\ db[o] \in {"PENDING", "RESERVED"}
  /\ db' = [db EXCEPT ![o] = "CANCELLED"]
  /\ due' = due \cup {<<o, "cancel">>}
  /\ UNCHANGED <<wrote, cacheKeys, readers, cacheFaults, missed>>

\* initiatePayment's claim, which changes no status.
Pay(o) ==
  /\ wrote[o] = Absent
  /\ db[o] = "RESERVED"
  /\ due' = due \cup {<<o, "pay">>}
  /\ UNCHANGED <<db, wrote, cacheKeys, readers, cacheFaults, missed>>

(***************************************************************************)
(* Readers                                                                 *)
(***************************************************************************)

Cached(key) == IF key = List THEN listCached ELSE byId[key] # Absent

\* cache.get misses, or fails. A hit is served and changes nothing.
Miss(r, key) ==
  /\ reading[r] = "idle"
  /\ ~Cached(key) \/ cacheFaults < MaxCacheFaults
  /\ cacheFaults' = IF Cached(key) THEN cacheFaults + 1 ELSE cacheFaults
  /\ reading' = [reading EXCEPT ![r] = "query"]
  /\ want' = [want EXCEPT ![r] = key]
  /\ UNCHANGED <<db, wrote, due, cacheKeys, got, missed>>

\* Seeded fault: a list is cached as soon as one of its orders is terminal.
CacheableIfAny(key, read) ==
  \E o \in Order : read[o] # Absent /\ isTerminalStatus(read[o])

\* What listOrdersForUser and getOrderForUser store: only terminal orders,
\* and the empty list. An order that is not there is a 404.
Cacheable(key, read) ==
  /\ \A o \in Order : read[o] # Absent => isTerminalStatus(read[o])
  /\ key # List => read[key] # Absent

\* The query, which sees what is committed.
Query(r) ==
  /\ reading[r] = "query"
  /\ LET read == [o \in Order |-> IF want[r] \in {List, o} THEN db[o] ELSE Absent]
     IN \/ /\ Cacheable(want[r], read)
           /\ got' = [got EXCEPT ![r] = read]
           /\ reading' = [reading EXCEPT ![r] = "store"]
           /\ UNCHANGED want
        \/ /\ ~Cacheable(want[r], read)
           /\ reading' = [reading EXCEPT ![r] = "idle"]
           /\ want' = [want EXCEPT ![r] = List]
           /\ UNCHANGED got
  /\ UNCHANGED <<db, wrote, due, cacheKeys, cacheFaults, missed>>

\* cache.set, or its failure, or the end of the reader.
Store(r) ==
  /\ reading[r] = "store"
  /\ \/ /\ want[r] = List
        /\ list' = got[r] /\ listCached' = TRUE /\ byId' = byId
     \/ /\ want[r] # List
        /\ byId' = [byId EXCEPT ![want[r]] = got[r][want[r]]]
        /\ UNCHANGED <<list, listCached>>
     \/ UNCHANGED cacheKeys
  /\ reading' = [reading EXCEPT ![r] = "idle"]
  /\ want' = [want EXCEPT ![r] = List]
  /\ got' = [got EXCEPT ![r] = Nothing]
  /\ UNCHANGED <<db, wrote, due, cacheFaults, missed>>

\* Seeded fault: SET without EX.
NeverExpires == FALSE

\* SET ... EX ttlSeconds.
HasTtl == TRUE

ExpireList ==
  /\ HasTtl /\ listCached
  /\ DropList
  /\ UNCHANGED <<db, wrote, due, byId, readers, cacheFaults, missed>>

ExpireOrder(o) ==
  /\ HasTtl /\ byId[o] # Absent
  /\ byId' = [byId EXCEPT ![o] = Absent]
  /\ UNCHANGED <<db, wrote, due, list, listCached, readers, cacheFaults, missed>>

Dids == {"create", "cancel", "pay"}

WriterStep(o) ==
  \/ Create(o) \/ TxDrop(o) \/ TxEnd(o) \/ Cancel(o) \/ Pay(o)
  \/ \E to \in OrderStatus : TxWrite(o, to)
  \/ \E did \in Dids : Drop(o, did) \/ DropFails(o, did)

ReadOn(r) == Query(r) \/ Store(r)

OrderCacheNext ==
  \/ \E o \in Order : WriterStep(o) \/ ExpireOrder(o)
  \/ \E r \in Reader : ReadOn(r) \/ \E key \in Want : Miss(r, key)
  \/ ExpireList

OrderCacheSpec == OrderCacheInit /\ [][OrderCacheNext]_orderCacheVars

(***************************************************************************)
(* Properties                                                              *)
(***************************************************************************)

OrderCacheTypeOK ==
  /\ db \in [Order -> Value] /\ wrote \in [Order -> Value]
  /\ due \in SUBSET (Order \X Dids)
  /\ byId \in [Order -> Value] /\ list \in [Order -> Value]
  /\ listCached \in BOOLEAN
  /\ reading \in [Reader -> {"idle", "query", "store"}]
  /\ want \in [Reader -> Want]
  /\ got \in [Reader -> [Order -> Value]]
  /\ cacheFaults \in 0..MaxCacheFaults
  /\ missed \in SUBSET Order

\* No read serves an order in a status it no longer has, whatever read, write,
\* deletion or rollback falls between the query and the store
\* (listOrdersForUser, getOrderForUser, transitionOrder).
CacheTruthful ==
  \A o \in Order :
    /\ byId[o] \in {Absent, db[o]}
    /\ list[o] \in {Absent, db[o]}

\* Order o exists, its createOrder has returned, and the cached list lacks it.
Unlisted(o) ==
  listCached /\ db[o] # Absent /\ <<o, "create">> \notin due /\ list[o] = Absent

\* A cached list lacks an order only where its deletion failed or a read of
\* before the order was stored after the deletion (createOrder).
ListMissesExplained == \A o \in Order : Unlisted(o) => o \in missed

\* However an order came to be missing, the lists served end up having it
\* (listOrdersForUser, the TTL behind the explicit invalidation).
EventuallyListed == \A o \in Order : <>[]~Unlisted(o)

\* The key is invalidated whenever the user's set of orders changes
\* (listOrdersForUser).
CachedListCurrent == \A o \in Order : ~Unlisted(o)

=============================================================================

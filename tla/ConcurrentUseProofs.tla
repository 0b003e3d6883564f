------------------------ MODULE ConcurrentUseProofs ------------------------
(***************************************************************************)
(* What is proved of Cart, of RefreshTokens and of LiveGauges, for any     *)
(* number of carts, products, tokens, families, loads, queues, channels    *)
(* and concurrent requests. They share nothing: each has its own invariant *)
(* and its own theorems, and MCConcurrentUse, their composition, has all.  *)
(***************************************************************************)
EXTENDS MCConcurrentUse, OrderCacheProofs, OutboxRelayProofs

(***************************************************************************)
(* The inductive invariant of RefreshTokens                                *)
(***************************************************************************)

\* A row exists exactly when it has a family, and logins start families.
Rows ==
  /\ \A k \in Token : token[k] = "none" <=> familyId[k] = NoFamily
  /\ \A k \in Token : token[k] # "none" => familyId[k] \in started
  /\ \A c \in Client : doing[c] # "idle" => session[c] \in started
  /\ reused \subseteq started

\* The token a request is working on is a row of its session.
Working(c) == doing[c] \in {"claim", "revoke"}

Shown ==
  \A c \in Client : Working(c) =>
    /\ shown[c] \in Token /\ token[shown[c]] # "none"
    /\ familyId[shown[c]] = session[c]
    /\ shown[c] \in presented

\* Where a token is revoked, or about to be by a request that will not claim
\* it, it has been presented before or its family has seen a repeat.
Reuse ==
  /\ \A k \in Token : token[k] = "revoked" =>
       k \in presented \/ familyId[k] \in repeated
  /\ \A c, d \in Client :
       c # d /\ doing[c] = "claim" /\ doing[d] = "claim" /\ shown[c] = shown[d]
       => session[c] \in repeated
  /\ \A c \in Client : doing[c] = "claim" =>
       token[shown[c]] = "live" \/ session[c] \in repeated
  /\ \A c \in Client : doing[c] = "revoke" => session[c] \in repeated

\* A revoked family goes on only through the request that was ahead of it.
Outlived ==
  \A f \in reused : Live(f) # {} \/ Issuing(f) # {} => f \in overtaken

TokenInv ==
  /\ TokenTypeOK /\ Rows /\ Shown /\ Reuse /\ Outlived
  /\ OneLivePerFamily /\ SessionEndExplained

LEMMA TokenInvInit == TokenInit => TokenInv
  BY TokenAssumption
     DEF TokenInit, TokenInv, TokenTypeOK, Rows, Working, Shown, Reuse,
         Outlived, OneLivePerFamily, SessionEndExplained, Live, Issuing

(***************************************************************************)
(* Steps of RefreshTokens                                                  *)
(***************************************************************************)

LEMMA TokenStepCases ==
  ASSUME [TokenNext]_tokenVars
  PROVE  \/ \E c \in Client, f \in Family : Login(c, f)
         \/ \E c \in Client, k \in Token : Present(c, k)
         \/ \E c \in Client :
              ClaimToken(c) \/ Issue(c) \/ RevokeFamily(c) \/ CallDies(c)
         \/ \E k \in Token : Expire(k)
         \/ SetDisabled
         \/ UNCHANGED tokenVars
  BY DEF TokenNext

\* What rotate does next follows from the row it has read.
LEMMA NextForCases ==
  ASSUME NEW k, NextFor(k) # "refuse"
  PROVE  \/ NextFor(k) = "revoke" /\ token[k] = "revoked"
         \/ NextFor(k) = "claim" /\ token[k] = "live"
  BY DEF NextFor

LEMMA TokenTypeStep ==
  ASSUME TokenInv, [TokenNext]_tokenVars
  PROVE  TokenTypeOK'
<1> USE DEF TokenInv, TokenTypeOK, rows, calls, past
<1>1. ASSUME NEW c \in Client, NEW f \in Family, Login(c, f)
      PROVE  TokenTypeOK'
  BY <1>1 DEF Login
<1>2. ASSUME NEW c \in Client, NEW k \in Token, Present(c, k)
      PROVE  TokenTypeOK'
  <2>1. NextFor(k) \in {"claim", "revoke"}
    BY <1>2, NextForCases DEF Present
  <2>2. familyId[k] \in Family
    BY <1>2 DEF Present, Rows
  <2>3. QED
    BY <1>2, <2>1, <2>2 DEF Present
<1>3. ASSUME NEW c \in Client, ClaimToken(c) PROVE TokenTypeOK'
  BY <1>3 DEF ClaimToken
<1>4. ASSUME NEW c \in Client, Issue(c) PROVE TokenTypeOK'
  BY <1>4 DEF Issue, Finish
<1>5. ASSUME NEW c \in Client, RevokeFamily(c) PROVE TokenTypeOK'
  <2>1. session[c] \in Family
    BY <1>5 DEF RevokeFamily, Rows
  <2>2. QED
    BY <1>5, <2>1 DEF RevokeFamily, Finish
<1>6. ASSUME NEW c \in Client, CallDies(c) PROVE TokenTypeOK'
  <2>1. session[c] \in Family
    BY <1>6 DEF CallDies, Rows
  <2>2. QED
    BY <1>6, <2>1 DEF CallDies, Finish
<1>7. ASSUME NEW k \in Token, Expire(k) PROVE TokenTypeOK'
  BY <1>7 DEF Expire
<1>8. CASE SetDisabled
  BY <1>8 DEF SetDisabled
<1>9. CASE UNCHANGED tokenVars
  BY <1>9 DEF tokenVars
<1>10. QED
  BY <1>1, <1>2, <1>3, <1>4, <1>5, <1>6, <1>7, <1>8, <1>9, TokenStepCases

LEMMA RowsStep ==
  ASSUME TokenInv, [TokenNext]_tokenVars
  PROVE  Rows' /\ Shown'
<1> USE TokenAssumption
    DEF TokenInv, TokenTypeOK, Rows, Shown, Working, rows, calls, past
<1>1. ASSUME NEW c \in Client, NEW f \in Family, Login(c, f)
      PROVE  Rows' /\ Shown'
  BY <1>1 DEF Login
<1>2. ASSUME NEW c \in Client, NEW k \in Token, Present(c, k)
      PROVE  Rows' /\ Shown'
  BY <1>2, NextForCases DEF Present
<1>3. ASSUME NEW c \in Client, ClaimToken(c) PROVE Rows' /\ Shown'
  BY <1>3 DEF ClaimToken, ClaimMatches
<1>4. ASSUME NEW c \in Client, Issue(c) PROVE Rows' /\ Shown'
  BY <1>4 DEF Issue, Finish
<1>5. ASSUME NEW c \in Client, RevokeFamily(c) PROVE Rows' /\ Shown'
  BY <1>5 DEF RevokeFamily, RevokedWith, Finish
<1>6. ASSUME NEW c \in Client, CallDies(c) PROVE Rows' /\ Shown'
  BY <1>6 DEF CallDies, Finish
<1>7. ASSUME NEW k \in Token, Expire(k) PROVE Rows' /\ Shown'
  BY <1>7 DEF Expire
<1>8. CASE SetDisabled \/ UNCHANGED tokenVars
  BY <1>8 DEF SetDisabled, tokenVars
<1>9. QED
  BY <1>1, <1>2, <1>3, <1>4, <1>5, <1>6, <1>7, <1>8, TokenStepCases

LEMMA ReuseStep ==
  ASSUME TokenInv, [TokenNext]_tokenVars
  PROVE  Reuse'
<1> USE TokenAssumption
    DEF TokenInv, TokenTypeOK, Rows, Shown, Working, Reuse, rows, calls, past
<1>1. ASSUME NEW c \in Client, NEW f \in Family, Login(c, f) PROVE Reuse'
  BY <1>1 DEF Login
<1>2. ASSUME NEW c \in Client, NEW k \in Token, Present(c, k) PROVE Reuse'
  BY <1>2, NextForCases DEF Present
<1>3. ASSUME NEW c \in Client, ClaimToken(c) PROVE Reuse'
  BY <1>3 DEF ClaimToken, ClaimMatches
<1>4. ASSUME NEW c \in Client, Issue(c) PROVE Reuse'
  BY <1>4 DEF Issue, Finish
<1>5. ASSUME NEW c \in Client, RevokeFamily(c) PROVE Reuse'
  BY <1>5 DEF RevokeFamily, RevokedWith, Finish
<1>6. ASSUME NEW c \in Client, CallDies(c) PROVE Reuse'
  BY <1>6 DEF CallDies, Finish
<1>7. ASSUME NEW k \in Token, Expire(k) PROVE Reuse'
  BY <1>7 DEF Expire
<1>8. CASE SetDisabled \/ UNCHANGED tokenVars
  BY <1>8 DEF SetDisabled, tokenVars
<1>9. QED
  BY <1>1, <1>2, <1>3, <1>4, <1>5, <1>6, <1>7, <1>8, TokenStepCases

LEMMA OneLiveStep ==
  ASSUME TokenInv, [TokenNext]_tokenVars
  PROVE  OneLivePerFamily' /\ Outlived'
<1> USE TokenAssumption
    DEF TokenInv, TokenTypeOK, Rows, Shown, Working, Outlived,
        OneLivePerFamily, Live, Issuing, rows, calls, past
<1> DEFINE Goal == OneLivePerFamily' /\ Outlived'
<1>1. ASSUME NEW c \in Client, NEW f \in Family, Login(c, f) PROVE Goal
  BY <1>1 DEF Login, SessionEndExplained
<1>2. ASSUME NEW c \in Client, NEW k \in Token, Present(c, k) PROVE Goal
  BY <1>2, NextForCases DEF Present
<1>3. ASSUME NEW c \in Client, ClaimToken(c) PROVE Goal
  BY <1>3 DEF ClaimToken, ClaimMatches
<1>4. ASSUME NEW c \in Client, Issue(c) PROVE Goal
  BY <1>4 DEF Issue, Finish
<1>5. ASSUME NEW c \in Client, RevokeFamily(c) PROVE Goal
  BY <1>5 DEF RevokeFamily, RevokedWith, Finish
<1>6. ASSUME NEW c \in Client, CallDies(c) PROVE Goal
  BY <1>6 DEF CallDies, Finish
<1>7. ASSUME NEW k \in Token, Expire(k) PROVE Goal
  BY <1>7 DEF Expire
<1>8. CASE SetDisabled \/ UNCHANGED tokenVars
  BY <1>8 DEF SetDisabled, tokenVars
<1>9. QED
  BY <1>1, <1>2, <1>3, <1>4, <1>5, <1>6, <1>7, <1>8, TokenStepCases

LEMMA SessionEndStep ==
  ASSUME TokenInv, [TokenNext]_tokenVars
  PROVE  SessionEndExplained'
<1> USE TokenAssumption
    DEF TokenInv, TokenTypeOK, Rows, Shown, Working, Reuse,
        SessionEndExplained, Live, Issuing, rows, calls, past
<1> DEFINE Goal == SessionEndExplained'
<1>0. Outlived'
  BY OneLiveStep
<1>1. ASSUME NEW c \in Client, NEW f \in Family, Login(c, f) PROVE Goal
  BY <1>0, <1>1 DEF Login, Outlived
<1>2. ASSUME NEW c \in Client, NEW k \in Token, Present(c, k) PROVE Goal
  BY <1>0, <1>2, NextForCases DEF Present, Outlived
<1>3. ASSUME NEW c \in Client, ClaimToken(c) PROVE Goal
  BY <1>0, <1>3 DEF ClaimToken, ClaimMatches, Outlived
<1>4. ASSUME NEW c \in Client, Issue(c) PROVE Goal
  BY <1>0, <1>4 DEF Issue, Finish, Outlived
<1>5. ASSUME NEW c \in Client, RevokeFamily(c) PROVE Goal
  <2> SUFFICES ASSUME NEW f \in started
               PROVE  /\ Live(f)' = {} /\ Issuing(f)' = {} => f \in (reused \cup dropped)'
                      /\ f \in reused' => f \in repeated'
                      /\ f \in reused' /\ Live(f)' # {} => f \in overtaken'
    BY <1>5 DEF RevokeFamily
  <2>1. Issuing(f)' = Issuing(f)
    BY <1>5 DEF RevokeFamily, Finish
  <2>2. reused' = reused \cup {session[c]} /\ repeated' = repeated /\ dropped' = dropped
    BY <1>5 DEF RevokeFamily
  <2>3. session[c] \in repeated
    BY <1>5 DEF RevokeFamily
  <2>4. f # session[c] => Live(f)' = Live(f)
    BY <1>5 DEF RevokeFamily, RevokedWith
  <2>5. f \in reused' /\ Live(f)' # {} => f \in overtaken'
    BY <1>0, <2>2 DEF Outlived
  <2>6. QED
    BY <2>1, <2>2, <2>3, <2>4, <2>5
<1>6. ASSUME NEW c \in Client, CallDies(c) PROVE Goal
  BY <1>0, <1>6 DEF CallDies, Finish, Outlived
<1>7. ASSUME NEW k \in Token, Expire(k) PROVE Goal
  BY <1>7 DEF Expire
<1>8. CASE SetDisabled \/ UNCHANGED tokenVars
  BY <1>8 DEF SetDisabled, tokenVars
<1>9. QED
  BY <1>1, <1>2, <1>3, <1>4, <1>5, <1>6, <1>7, <1>8, TokenStepCases

LEMMA TokenInvStep ==
  ASSUME TokenInv, [TokenNext]_tokenVars
  PROVE  TokenInv'
  BY TokenTypeStep, RowsStep, ReuseStep, OneLiveStep, SessionEndStep DEF TokenInv

(***************************************************************************)
(* Theorems about RefreshTokens                                            *)
(***************************************************************************)

\* Every reachable state keeps the invariant (rotate, issueTokens,
\* revokeFamilyOnReuse).
THEOREM TokenInvariance == TokenSpec => []TokenInv
  BY TokenInvInit, TokenInvStep, PTL DEF TokenSpec

\* Every reachable state is well typed (RefreshTokenEntity).
THEOREM TokenTypesCorrect == TokenSpec => []TokenTypeOK
<1>1. TokenInv => TokenTypeOK
  BY DEF TokenInv
<1>2. QED
  BY <1>1, TokenInvariance, PTL

\* However many requests refresh at once, a session has one live token or one
\* about to be issued (rotate).
THEOREM OneLiveCorrect == TokenSpec => []OneLivePerFamily
<1>1. TokenInv => OneLivePerFamily
  BY DEF TokenInv
<1>2. QED
  BY <1>1, TokenInvariance, PTL

\* A session ends for a repeat or a lost request only, and outlives its
\* revocation only through a rotation under way (revokeFamilyOnReuse).
THEOREM SessionEndCorrect == TokenSpec => []SessionEndExplained
<1>1. TokenInv => SessionEndExplained
  BY DEF TokenInv
<1>2. QED
  BY <1>1, TokenInvariance, PTL


(***************************************************************************)
(* The inductive invariant of Cart                                         *)
(***************************************************************************)

\* A request past getOpenCart has a cart that exists.
Holding ==
  /\ \A s \in Session : at[s] \in {"write", "claim", "order"} =>
       mine[s] \in CartId /\ cart[mine[s]] # "none"
  /\ \A s \in Session : at[s] = "write" => ask[s] \in Writes
  /\ \A c \in CartId : cart[c] = "none" => lines[c] = NoLines

\* A cart being ordered, or lost on the way, is out and has no order.
Claimed ==
  /\ \A s \in Session : at[s] = "order" =>
       /\ cart[mine[s]] = "out"
       /\ placed[mine[s]] = 0
       /\ mine[s] \notin lost
  /\ \A c \in lost : cart[c] = "out" /\ placed[c] = 0

\* A checkout holds the lines of its cart, unless they changed since.
Fresh ==
  \A s \in Session : at[s] \in {"claim", "order"} =>
    seen[s] = lines[mine[s]] \/ mine[s] \in raced

\* A set of a retired product was asked for before the retirement.
Early ==
  /\ boot # "old" => onSale \cap Retired = {}
  /\ \A s \in Session :
       ask[s] \in Writes /\ ask[s].quantity > 0 /\ ask[s].product \in Retired
       => ask[s].early

CartInv ==
  /\ CartTypeOK /\ Holding /\ OneOpenCart
  /\ Claimed /\ OrderedOnce
  /\ Fresh /\ OrderMatchesCart
  /\ Early /\ RetiredLinesGone

\* An idle request, or a checkout, writes nothing.
LEMMA RequestsDiffer ==
  /\ Idle \notin Writes /\ Checkout \notin Writes /\ Idle # Checkout
  /\ Idle.op # "write" /\ Checkout.op # "write"
  /\ NoLines \in Lines
  BY CartAssumption DEF Idle, Checkout, Writes, NoLines, Lines

LEMMA CartInvInit == CartInit => CartInv
<1> SUFFICES ASSUME CartInit PROVE CartInv
  OBVIOUS
<1> USE RequestsDiffer DEF CartInit
<1>1. CartTypeOK
  BY DEF CartTypeOK
<1>2. Holding /\ OneOpenCart /\ Claimed /\ OrderedOnce
  BY DEF Holding, OneOpenCart, Open, Claimed, OrderedOnce, Ordering
<1>3. Fresh /\ OrderMatchesCart /\ Early /\ RetiredLinesGone
  BY DEF Fresh, OrderMatchesCart, Early, RetiredLinesGone
<1>4. QED
  BY <1>1, <1>2, <1>3 DEF CartInv

(***************************************************************************)
(* Steps of Cart                                                           *)
(***************************************************************************)

LEMMA CartStepCases ==
  ASSUME [CartNext]_cartVars
  PROVE  \/ \E s \in Session :
              \/ Ask(s) \/ Find(s) \/ FindNone(s) \/ Insert(s)
              \/ InsertRejected(s) \/ WriteLine(s) \/ Claim(s)
              \/ PlaceOrder(s) \/ RequestDies(s)
         \/ Hide \/ DropLines \/ BootDies
         \/ UNCHANGED cartVars
  BY DEF CartNext, SessionStep

\* What getOpenCart's caller goes on to, and with what in its hands.
LEMMA ObtainCases ==
  ASSUME CartTypeOK, NEW s \in Session, NEW c \in CartId, NEW found \in Lines,
         Obtain(s, c, found)
  PROVE  \/ Reply(s)
         \/ /\ ask[s] \in Writes /\ ask' = ask /\ seen' = seen
            /\ mine' = [mine EXCEPT ![s] = c]
            /\ at' = [at EXCEPT ![s] = "write"]
         \/ /\ ask[s] = Checkout /\ ask' = ask /\ found # NoLines
            /\ mine' = [mine EXCEPT ![s] = c]
            /\ seen' = [seen EXCEPT ![s] = found]
            /\ at' = [at EXCEPT ![s] = "claim"]
  BY RequestsDiffer DEF Obtain, CartTypeOK

\* Types of what a request keeps.
RequestTypes ==
  /\ ask \in [Session -> {Idle, Checkout} \cup Writes]
  /\ at \in [Session -> {"idle", "find", "refind", "insert", "write", "claim", "order"}]
  /\ mine \in [Session -> CartId \cup {NoCart}]
  /\ seen \in [Session -> Lines]

LEMMA ReplyTypes ==
  ASSUME RequestTypes, NEW s \in Session, Reply(s)
  PROVE  RequestTypes'
  BY RequestsDiffer DEF RequestTypes, Reply

LEMMA ObtainTypes ==
  ASSUME CartTypeOK, NEW s \in Session, NEW c \in CartId, NEW found \in Lines,
         Obtain(s, c, found)
  PROVE  RequestTypes'
<1>1. RequestTypes
  BY DEF CartTypeOK, RequestTypes
<1>2. CASE Reply(s)
  BY <1>1, <1>2, ReplyTypes
<1>3. QED
  BY <1>1, <1>2, ObtainCases DEF RequestTypes

LEMMA RequestTypesStep ==
  ASSUME CartInv, [CartNext]_cartVars
  PROVE  RequestTypes'
<1> USE DEF CartInv, requests, cartVars
<1>0. RequestTypes
  BY DEF CartTypeOK, RequestTypes
<1>1. ASSUME NEW s \in Session, Ask(s) PROVE RequestTypes'
  BY <1>0, <1>1 DEF Ask, AskFor, RequestTypes
<1>2. ASSUME NEW s \in Session, Find(s) PROVE RequestTypes'
  BY <1>2, ObtainTypes DEF Find, Open, CartTypeOK
<1>3. ASSUME NEW s \in Session, FindNone(s) \/ InsertRejected(s)
      PROVE  RequestTypes'
  BY <1>0, <1>3, ReplyTypes DEF FindNone, InsertRejected, RequestTypes
<1>4. ASSUME NEW s \in Session, Insert(s) PROVE RequestTypes'
  BY <1>4, ObtainTypes, RequestsDiffer DEF Insert
<1>5. ASSUME NEW s \in Session, WriteLine(s) PROVE RequestTypes'
  BY <1>0, <1>5 DEF WriteLine, RequestTypes
<1>6. ASSUME NEW s \in Session, Claim(s) PROVE RequestTypes'
  BY <1>0, <1>6, ReplyTypes DEF Claim, RequestTypes
<1>7. ASSUME NEW s \in Session, PlaceOrder(s) \/ RequestDies(s)
      PROVE  RequestTypes'
  BY <1>0, <1>7, ReplyTypes DEF PlaceOrder, RequestDies
<1>8. CASE Hide \/ DropLines \/ BootDies \/ UNCHANGED cartVars
  BY <1>0, <1>8 DEF Hide, DropLines, BootDies, RequestTypes
<1>9. QED
  BY <1>1, <1>2, <1>3, <1>4, <1>5, <1>6, <1>7, <1>8, CartStepCases

\* What a step does to the tables and the histories.
LEMMA WriteStays ==
  ASSUME CartTypeOK, NEW w \in Writes, NEW c \in CartId
  PROVE  [lines EXCEPT ![c][w.product] = w.quantity] \in [CartId -> Lines]
<1>1. w.product \in Product /\ w.quantity \in Quantity \cup {0}
  BY DEF Writes
<1>2. lines[c] \in Lines
  BY DEF CartTypeOK
<1>3. [lines[c] EXCEPT ![w.product] = w.quantity] \in Lines
  BY <1>1, <1>2 DEF Lines
<1>4. QED
  BY <1>3 DEF CartTypeOK

LEMMA CartTypeStep ==
  ASSUME CartInv, [CartNext]_cartVars
  PROVE  CartTypeOK'
<1> USE DEF CartInv, CartTypeOK, tables, history
<1>0. RequestTypes'
  BY RequestTypesStep
<1> DEFINE Goal ==
      /\ cart' \in [CartId -> {"none", "open", "out"}]
      /\ lines' \in [CartId -> Lines]
      /\ onSale' \in SUBSET Product
      /\ boot' \in {"old", "hidden", "cleaned", "skipped"}
      /\ placed' \in [CartId -> Nat]
      /\ bought' \in [CartId -> Lines]
      /\ lost' \in SUBSET CartId /\ raced' \in SUBSET CartId
      /\ late' \in SUBSET CartId
<1>1. ASSUME NEW s \in Session,
             Ask(s) \/ Find(s) \/ FindNone(s) \/ InsertRejected(s)
      PROVE  Goal
  BY <1>1 DEF Ask, AskFor, Find, FindNone, InsertRejected
<1>2. ASSUME NEW s \in Session, Insert(s) PROVE Goal
  BY <1>2 DEF Insert
<1>3. ASSUME NEW s \in Session, WriteLine(s) PROVE Goal
  <2>1. ask[s] \in Writes /\ mine[s] \in CartId
    BY <1>3 DEF WriteLine, Holding
  <2>2. lines' \in [CartId -> Lines]
    BY <1>3, <2>1, WriteStays DEF WriteLine, QuantityAfter
  <2>3. QED
    BY <1>3, <2>1, <2>2 DEF WriteLine
<1>4. ASSUME NEW s \in Session, Claim(s) PROVE Goal
  BY <1>4 DEF Claim
<1>5. ASSUME NEW s \in Session, PlaceOrder(s) PROVE Goal
  BY <1>5 DEF PlaceOrder, Holding
<1>6. ASSUME NEW s \in Session, RequestDies(s) PROVE Goal
  BY <1>6 DEF RequestDies, Holding
<1>7. ASSUME Hide \/ BootDies PROVE Goal
  BY <1>7 DEF Hide, BootDies
<1>8. ASSUME DropLines PROVE Goal
  <2>1. \A c \in CartId :
          [p \in Product |-> IF DropsLine(c, p) THEN 0 ELSE lines[c][p]] \in Lines
    BY DEF Lines
  <2>2. lines' \in [CartId -> Lines]
    BY <1>8, <2>1 DEF DropLines
  <2>3. QED
    BY <1>8, <2>2 DEF DropLines, Open
<1>9. ASSUME UNCHANGED cartVars PROVE Goal
  BY <1>9 DEF cartVars
<1>10. QED
  BY <1>0, <1>1, <1>2, <1>3, <1>4, <1>5, <1>6, <1>7, <1>8, <1>9,
     CartStepCases DEF RequestTypes

LEMMA HoldingStep ==
  ASSUME CartInv, [CartNext]_cartVars
  PROVE  Holding' /\ OneOpenCart'
<1> USE CartAssumption, RequestsDiffer
    DEF CartInv, CartTypeOK, Holding, OneOpenCart, Open, tables, history, requests
<1> DEFINE Goal == Holding' /\ OneOpenCart'
<1>1. ASSUME NEW s \in Session, Ask(s) PROVE Goal
  BY <1>1 DEF Ask, AskFor
<1>2. ASSUME NEW s \in Session, Find(s) PROVE Goal
  <2>1. PICK c \in CartId : cart[c] = "open" /\ Obtain(s, c, lines[c])
    BY <1>2 DEF Find
  <2>2. lines[c] \in Lines /\ UNCHANGED <<tables, history>>
    BY <1>2 DEF Find
  <2>3. CASE Reply(s)
    BY <2>1, <2>2, <2>3 DEF Reply
  <2>4. CASE /\ ask[s] \in Writes /\ ask' = ask
             /\ mine' = [mine EXCEPT ![s] = c]
             /\ at' = [at EXCEPT ![s] = "write"]
    BY <2>1, <2>2, <2>4
  <2>5. CASE /\ ask' = ask
             /\ mine' = [mine EXCEPT ![s] = c]
             /\ at' = [at EXCEPT ![s] = "claim"]
    BY <2>1, <2>2, <2>5
  <2>6. QED
    BY <2>1, <2>2, <2>3, <2>4, <2>5, ObtainCases
<1>3. ASSUME NEW s \in Session, FindNone(s) \/ InsertRejected(s) PROVE Goal
  BY <1>3 DEF FindNone, InsertRejected, Reply
<1>4. ASSUME NEW s \in Session, Insert(s) PROVE Goal
  <2>1. PICK c \in CartId :
          /\ cart[c] = "none" /\ cart' = [cart EXCEPT ![c] = "open"]
          /\ Obtain(s, c, NoLines)
    BY <1>4 DEF Insert
  <2>2. \A d \in CartId : cart[d] # "open"
    BY <1>4 DEF Insert, InsertAccepted
  <2>3. lines' = lines
    BY <1>4 DEF Insert
  <2>4. CASE Reply(s)
    BY <2>1, <2>2, <2>3, <2>4 DEF Reply
  <2>5. CASE /\ ask[s] \in Writes /\ ask' = ask
             /\ mine' = [mine EXCEPT ![s] = c]
             /\ at' = [at EXCEPT ![s] = "write"]
    BY <2>1, <2>2, <2>3, <2>5
  <2>6. QED
    BY <2>1, <2>4, <2>5, ObtainCases
<1>5. ASSUME NEW s \in Session, WriteLine(s) PROVE Goal
  BY <1>5 DEF WriteLine
<1>6. ASSUME NEW s \in Session, Claim(s) PROVE Goal
  BY <1>6 DEF Claim, Claimable, Reply
<1>7. ASSUME NEW s \in Session, PlaceOrder(s) \/ RequestDies(s) PROVE Goal
  BY <1>7 DEF PlaceOrder, RequestDies, Reply
<1>8. CASE Hide \/ BootDies \/ UNCHANGED cartVars
  BY <1>8 DEF Hide, BootDies, cartVars
<1>9. CASE DropLines
  BY <1>9 DEF DropLines, DropsLine, NoLines
<1>10. QED
  BY <1>1, <1>2, <1>3, <1>4, <1>5, <1>6, <1>7, <1>8, <1>9, CartStepCases

LEMMA OrderedStep ==
  ASSUME CartInv, [CartNext]_cartVars
  PROVE  Claimed' /\ OrderedOnce'
<1> USE CartAssumption
    DEF CartInv, CartTypeOK, Holding, Claimed, OrderedOnce, Ordering, tables,
        history, requests
<1> DEFINE Goal == Claimed' /\ OrderedOnce'
<1>1. ASSUME NEW s \in Session, Ask(s) PROVE Goal
  BY <1>1 DEF Ask, AskFor
<1>2. ASSUME NEW s \in Session, Find(s) PROVE Goal
  <2>1. PICK c \in CartId : cart[c] = "open" /\ Obtain(s, c, lines[c])
    BY <1>2 DEF Find, Open
  <2>2. lines[c] \in Lines /\ at[s] # "order" /\ UNCHANGED <<tables, history>>
    BY <1>2 DEF Find
  <2>3. CASE Reply(s)
    BY <2>1, <2>2, <2>3 DEF Reply
  <2>4. CASE /\ ask[s] \in Writes /\ ask' = ask
             /\ mine' = [mine EXCEPT ![s] = c]
             /\ at' = [at EXCEPT ![s] = "write"]
    BY <2>1, <2>2, <2>4
  <2>5. CASE /\ ask' = ask
             /\ mine' = [mine EXCEPT ![s] = c]
             /\ at' = [at EXCEPT ![s] = "claim"]
    BY <2>1, <2>2, <2>5
  <2>6. QED
    BY <2>1, <2>2, <2>3, <2>4, <2>5, ObtainCases
<1>3. ASSUME NEW s \in Session, FindNone(s) \/ InsertRejected(s) PROVE Goal
  BY <1>3 DEF FindNone, InsertRejected, Reply
<1>4. ASSUME NEW s \in Session, Insert(s) PROVE Goal
  <2>1. PICK c \in CartId :
          /\ cart[c] = "none" /\ cart' = [cart EXCEPT ![c] = "open"]
          /\ Obtain(s, c, NoLines)
    BY <1>4 DEF Insert
  <2>2. at[s] # "order" /\ UNCHANGED <<lines, history>>
    BY <1>4 DEF Insert
  <2>3. CASE Reply(s)
    BY <2>1, <2>2, <2>3 DEF Reply
  <2>4. CASE /\ ask[s] \in Writes /\ ask' = ask
             /\ mine' = [mine EXCEPT ![s] = c]
             /\ at' = [at EXCEPT ![s] = "write"]
    BY <2>1, <2>2, <2>4
  <2>5. QED
    BY <2>1, <2>3, <2>4, ObtainCases, RequestsDiffer
<1>5. ASSUME NEW s \in Session, WriteLine(s) PROVE Goal
  BY <1>5 DEF WriteLine
<1>6. ASSUME NEW s \in Session, Claim(s) PROVE Goal
  BY <1>6 DEF Claim, Claimable, Reply
<1>7. ASSUME NEW s \in Session, PlaceOrder(s) PROVE Goal
  BY <1>7 DEF PlaceOrder, Reply
<1>8. ASSUME NEW s \in Session, RequestDies(s) PROVE Goal
  BY <1>8 DEF RequestDies, Reply
<1>9. CASE Hide \/ BootDies \/ DropLines \/ UNCHANGED cartVars
  BY <1>9 DEF Hide, BootDies, DropLines, cartVars
<1>10. QED
  BY <1>1, <1>2, <1>3, <1>4, <1>5, <1>6, <1>7, <1>8, <1>9, CartStepCases

\* Lines of an order come from the cart it closed.
LEMMA MatchStep ==
  ASSUME CartInv, [CartNext]_cartVars
  PROVE  Fresh' /\ OrderMatchesCart'
<1> USE CartAssumption
    DEF CartInv, CartTypeOK, Holding, Claimed, OrderedOnce, Fresh,
        OrderMatchesCart, tables, history, requests
<1> DEFINE Goal == Fresh' /\ OrderMatchesCart'
<1>1. ASSUME NEW s \in Session, Ask(s) PROVE Goal
  BY <1>1 DEF Ask, AskFor
<1>2. ASSUME NEW s \in Session, Find(s) PROVE Goal
  <2>1. PICK c \in CartId : Obtain(s, c, lines[c])
    BY <1>2 DEF Find, Open
  <2>2. lines[c] \in Lines /\ UNCHANGED <<tables, history>>
    BY <1>2 DEF Find
  <2>3. CASE Reply(s)
    BY <2>1, <2>2, <2>3 DEF Reply
  <2>4. CASE /\ seen' = seen
             /\ mine' = [mine EXCEPT ![s] = c]
             /\ at' = [at EXCEPT ![s] = "write"]
    BY <2>1, <2>2, <2>4
  <2>5. CASE /\ seen' = [seen EXCEPT ![s] = lines[c]]
             /\ mine' = [mine EXCEPT ![s] = c]
             /\ at' = [at EXCEPT ![s] = "claim"]
    BY <2>1, <2>2, <2>5
  <2>6. QED
    BY <2>1, <2>2, <2>3, <2>4, <2>5, ObtainCases
<1>3. ASSUME NEW s \in Session, FindNone(s) \/ InsertRejected(s) PROVE Goal
  BY <1>3 DEF FindNone, InsertRejected, Reply
<1>4. ASSUME NEW s \in Session, Insert(s) PROVE Goal
  <2>1. PICK c \in CartId : Obtain(s, c, NoLines)
    BY <1>4 DEF Insert
  <2>2. UNCHANGED <<lines, history>>
    BY <1>4 DEF Insert
  <2>3. CASE Reply(s)
    BY <2>1, <2>2, <2>3 DEF Reply
  <2>4. CASE /\ seen' = seen
             /\ mine' = [mine EXCEPT ![s] = c]
             /\ at' = [at EXCEPT ![s] = "write"]
    BY <2>1, <2>2, <2>4
  <2>5. QED
    BY <2>1, <2>3, <2>4, ObtainCases, RequestsDiffer
<1>5. ASSUME NEW s \in Session, WriteLine(s) PROVE Goal
  <2>1. PICK c \in CartId :
          /\ c = mine[s]
          /\ \A d \in CartId \ {c} : lines'[d] = lines[d]
          /\ raced' = IF Overtaken(c) THEN raced \cup {c} ELSE raced
    BY <1>5 DEF WriteLine
  <2>2. placed[c] > 0 => c \in raced'
    BY <2>1 DEF Overtaken
  <2>3. \A t \in Session : at[t] \in {"claim", "order"} /\ mine[t] = c => c \in raced'
    BY <2>1 DEF Overtaken
  <2>4. \A t \in Session : at'[t] \in {"claim", "order"} =>
          at'[t] = at[t] /\ mine'[t] = mine[t] /\ seen'[t] = seen[t]
    BY <1>5 DEF WriteLine
  <2>5. UNCHANGED <<placed, bought>> /\ raced \subseteq raced'
    BY <1>5, <2>1 DEF WriteLine
  <2>6. QED
    BY <2>1, <2>2, <2>3, <2>4, <2>5
<1>6. ASSUME NEW s \in Session, Claim(s) PROVE Goal
  BY <1>6 DEF Claim, Reply
<1>7. ASSUME NEW s \in Session, PlaceOrder(s) PROVE Goal
  BY <1>7 DEF PlaceOrder, Reply
<1>8. ASSUME NEW s \in Session, RequestDies(s) PROVE Goal
  BY <1>8 DEF RequestDies, Reply
<1>9. ASSUME Hide \/ BootDies \/ UNCHANGED cartVars PROVE Goal
  BY <1>9 DEF Hide, BootDies, cartVars
<1>10. ASSUME DropLines PROVE Goal
  <2>1. \A c \in CartId : cart[c] # "open" => lines'[c] = lines[c]
    <3>1. ASSUME NEW c \in CartId, cart[c] # "open"
          PROVE  [p \in Product |-> IF DropsLine(c, p) THEN 0 ELSE lines[c][p]] = lines[c]
      BY <3>1 DEF DropsLine, Lines
    <3>2. QED
      BY <1>10, <3>1 DEF DropLines
  <2>2. \A t \in Session : at[t] = "claim" =>
          cart[mine[t]] = "out" \/ mine[t] \in raced'
    BY <1>10 DEF DropLines, Open, Overtaken
  <2>3. raced \subseteq raced' /\ UNCHANGED <<at, mine, seen, placed, bought>>
    BY <1>10 DEF DropLines
  <2>4. QED
    BY <2>1, <2>2, <2>3
<1>11. QED
  BY <1>1, <1>2, <1>3, <1>4, <1>5, <1>6, <1>7, <1>8, <1>9, <1>10, CartStepCases

\* The retirement reaches every line but those asked for before it.
LEMMA EarlyStep ==
  ASSUME CartInv, [CartNext]_cartVars
  PROVE  Early'
<1> USE CartAssumption, RequestsDiffer
    DEF CartInv, CartTypeOK, Early, tables, history, requests
<1>1. ASSUME NEW s \in Session, Ask(s) PROVE Early'
  BY <1>1 DEF Ask, AskFor, Sellable
<1>2. ASSUME NEW s \in Session,
             Find(s) \/ FindNone(s) \/ Insert(s) \/ InsertRejected(s)
      PROVE  Early'
  BY <1>2 DEF Find, FindNone, Insert, InsertRejected, Obtain, Reply
<1>3. ASSUME NEW s \in Session,
             WriteLine(s) \/ Claim(s) \/ PlaceOrder(s) \/ RequestDies(s)
      PROVE  Early'
  BY <1>3 DEF WriteLine, Claim, PlaceOrder, RequestDies, Reply
<1>4. CASE Hide \/ BootDies \/ DropLines \/ UNCHANGED cartVars
  BY <1>4 DEF Hide, BootDies, DropLines, cartVars
<1>5. QED
  BY <1>1, <1>2, <1>3, <1>4, CartStepCases

LEMMA QuantityPositive ==
  ASSUME NEW q \in Quantity \cup {0}
  PROVE  q = 0 \/ q > 0
<1>1. q \in Nat
  BY CartAssumption
<1>2. QED
  BY <1>1

LEMMA RetiredStep ==
  ASSUME CartInv, [CartNext]_cartVars
  PROVE  RetiredLinesGone'
<1> USE CartAssumption, RequestsDiffer
    DEF CartInv, CartTypeOK, Holding, Early, RetiredLinesGone, Open, tables,
        history, requests
<1>1. ASSUME NEW s \in Session,
             Ask(s) \/ Find(s) \/ FindNone(s) \/ InsertRejected(s)
      PROVE  RetiredLinesGone'
  BY <1>1 DEF Ask, AskFor, Find, FindNone, InsertRejected
<1>2. ASSUME NEW s \in Session, Insert(s) PROVE RetiredLinesGone'
  BY <1>2 DEF Insert, NoLines
<1>3. ASSUME NEW s \in Session, WriteLine(s) PROVE RetiredLinesGone'
  <2>1. ask[s] \in Writes /\ mine[s] \in CartId
    BY <1>3 DEF WriteLine
  <2>2. ask[s].product \in Product /\ ask[s].quantity \in Quantity \cup {0}
    BY <2>1 DEF Writes
  <2>3. /\ lines' = [lines EXCEPT ![mine[s]][ask[s].product] = ask[s].quantity]
        /\ late' = IF ask[s].early /\ boot # "old" THEN late \cup {mine[s]} ELSE late
        /\ UNCHANGED <<cart, boot>>
    BY <1>3 DEF WriteLine, QuantityAfter
  <2>4. \A c \in CartId, p \in Product :
          \/ lines'[c][p] = lines[c][p]
          \/ c = mine[s] /\ p = ask[s].product /\ lines'[c][p] = ask[s].quantity
    <3> DEFINE line == [lines[mine[s]] EXCEPT ![ask[s].product] = ask[s].quantity]
    <3>1. lines[mine[s]] \in Lines
      BY <2>1
    <3>2. \A p \in Product :
            line[p] = IF p = ask[s].product THEN ask[s].quantity ELSE lines[mine[s]][p]
      BY <2>2, <3>1 DEF Lines
    <3>3. lines' = [lines EXCEPT ![mine[s]] = line]
      BY <2>3
    <3> HIDE DEF line
    <3>4. \A c \in CartId : lines'[c] = IF c = mine[s] THEN line ELSE lines[c]
      BY <2>1, <3>3
    <3>5. QED
      BY <3>2, <3>4
  <2>5. ask[s].quantity = 0 \/ ask[s].quantity > 0
    BY <2>2, QuantityPositive
  <2>6. QED
    BY <2>1, <2>3, <2>4, <2>5
<1>4. ASSUME NEW s \in Session, Claim(s) PROVE RetiredLinesGone'
  BY <1>4 DEF Claim
<1>5. ASSUME NEW s \in Session, PlaceOrder(s) \/ RequestDies(s)
      PROVE  RetiredLinesGone'
  BY <1>5 DEF PlaceOrder, RequestDies
<1>6. CASE Hide \/ BootDies \/ UNCHANGED cartVars
  BY <1>6 DEF Hide, BootDies, cartVars
<1>7. CASE DropLines
  BY <1>7 DEF DropLines, DropsLine
<1>8. QED
  BY <1>1, <1>2, <1>3, <1>4, <1>5, <1>6, <1>7, CartStepCases

LEMMA CartInvStep ==
  ASSUME CartInv, [CartNext]_cartVars
  PROVE  CartInv'
  BY CartTypeStep, HoldingStep, OrderedStep, MatchStep, EarlyStep, RetiredStep
     DEF CartInv

(***************************************************************************)
(* Theorems about Cart                                                     *)
(***************************************************************************)

\* Every reachable state keeps the invariant (CartService, SeedService).
THEOREM CartInvariance == CartSpec => []CartInv
  BY CartInvInit, CartInvStep, PTL DEF CartSpec

\* Every reachable state is well typed (CartEntity, CartItemEntity).
THEOREM CartTypesCorrect == CartSpec => []CartTypeOK
<1>1. CartInv => CartTypeOK
  BY DEF CartInv
<1>2. QED
  BY <1>1, CartInvariance, PTL

\* A user never has two open carts, however many requests open one
\* (getOpenCart).
THEOREM OneOpenCartCorrect == CartSpec => []OneOpenCart
<1>1. CartInv => OneOpenCart
  BY DEF CartInv
<1>2. QED
  BY <1>1, CartInvariance, PTL

\* However many checkouts race, a cart gives one order at most, and gives none
\* only if its one winner died (checkout).
THEOREM OrderedOnceCorrect == CartSpec => []OrderedOnce
<1>1. CartInv => OrderedOnce
  BY DEF CartInv
<1>2. QED
  BY <1>1, CartInvariance, PTL

\* An order has the lines of its cart but for an overlapping write (setItem,
\* checkout).
THEOREM OrderMatchesCorrect == CartSpec => []OrderMatchesCart
<1>1. CartInv => OrderMatchesCart
  BY DEF CartInv
<1>2. QED
  BY <1>1, CartInvariance, PTL

\* A retirement that ran to its end leaves no retired line but those asked for
\* before it (retireOldProducts).
THEOREM RetiredLinesCorrect == CartSpec => []RetiredLinesGone
<1>1. CartInv => RetiredLinesGone
  BY DEF CartInv
<1>2. QED
  BY <1>1, CartInvariance, PTL

(***************************************************************************)
(* LiveGauges                                                              *)
(***************************************************************************)

Place ==
  [step : {"ended", "open", "check"}, queue : 1..Queues,
   channel : Channel \cup {NoChannel}]

\* What is open is known to someone, and what is used is open.
Channels ==
  /\ current # NoChannel => channels[current] = "open"
  /\ \A l \in Load : place[l].step = "check" =>
       place[l].channel \in Channel /\ channels[place[l].channel] = "open"

\* A load that nobody disturbed has answered all it came past and expected.
Answers ==
  /\ \A l \in Load : expected[l] \subseteq declared
  /\ \A l \in Load \ disturbed : \A q \in expected[l] :
       q \in answered[l] \/ (place[l].step # "ended" /\ q >= place[l].queue)

\* While no two loads have met, the one under way works on this.channel.
Alone ==
  ~overlapped =>
    /\ \A l, m \in UnderWay : l = m
    /\ \A c \in Channel : channels[c] = "open" => c = current
    /\ \A l \in Load : place[l].step = "open" => current = NoChannel
    /\ \A l \in Load : place[l].step = "check" => place[l].channel = current

GaugesInv == GaugesTypeOK /\ Channels /\ Answers /\ Alone

\* The loop ends, or goes on at q with c.
LEMMA GoingOn ==
  ASSUME NEW q \in 1..(Queues + 1), NEW c \in Channel \cup {NoChannel}
  PROVE  /\ GoOn(q, c) \in Place
         /\ q = Queues + 1 => GoOn(q, c).step = "ended"
         /\ q <= Queues => /\ GoOn(q, c).queue = q /\ GoOn(q, c).channel = c
                           /\ GoOn(q, c).step = IF c = NoChannel THEN "open" ELSE "check"
  BY GaugesAssumption DEF GoOn, Ended, Place

LEMMA GaugesInvInit == GaugesInit => GaugesInv
<1> SUFFICES ASSUME GaugesInit PROVE GaugesInv
  OBVIOUS
<1> USE GaugesAssumption DEF GaugesInit, Ended
<1>1. GaugesTypeOK
  <2>1. cached \in BOOLEAN /\ up \in BOOLEAN /\ overlapped \in BOOLEAN
    OBVIOUS
  <2>2. Ended \in Place
    BY DEF Place
  <2>3. place \in [Load -> Place]
    BY <2>2
  <2>4. declared \in SUBSET (1..Queues) /\ disturbed \in SUBSET Load
    OBVIOUS
  <2>5. /\ channels \in [Channel -> {"unused", "open", "closed"}]
        /\ current \in Channel \cup {NoChannel}
        /\ answered \in [Load -> SUBSET (1..Queues)]
        /\ expected \in [Load -> SUBSET (1..Queues)]
    OBVIOUS
  <2>6. QED
    BY <2>1, <2>3, <2>4, <2>5 DEF GaugesTypeOK, Place
<1>2. Channels /\ Answers
  BY DEF Channels, Answers
<1>3. Alone
  BY DEF Alone, UnderWay
<1>4. QED
  BY <1>1, <1>2, <1>3 DEF GaugesInv

\* Every check under way on a channel that closes was of an open one.
LEMMA ClosesKeeps ==
  ASSUME GaugesInv, NEW c \in Channel, channels[c] = "open", Closes(c),
         NEW hit \in SUBSET Load,
         \A l \in CheckingOn(c) \ hit : place[l].queue \notin declared,
         disturbed' = disturbed \cup hit,
         cached' \in BOOLEAN, up' \in BOOLEAN
  PROVE  GaugesInv'
<1> USE GaugesAssumption DEF GaugesInv, GaugesTypeOK
<1>1. /\ channels' = [channels EXCEPT ![c] = "closed"]
      /\ UNCHANGED <<declared, answered, expected, overlapped>>
      /\ current' = CurrentAfter(c) /\ current' \in {NoChannel, current}
      /\ current' = current => (current # c /\ CheckingOn(c) = {}) \/ current = NoChannel
  BY DEF Closes, CurrentAfter
<1>2. /\ place' \in [Load -> Place]
      /\ \A l \in Load \ CheckingOn(c) : place'[l] = place[l]
      /\ \A l \in CheckingOn(c) : place'[l] = GoOn(place[l].queue + 1, NoChannel)
  <2>1. \A l \in CheckingOn(c) :
          CurrentAfter(c) = NoChannel /\ GoOn(place[l].queue + 1, NoChannel) \in Place
    BY GoingOn DEF CurrentAfter, CheckingOn
  <2>2. QED
    BY <2>1 DEF Closes, Place, CheckingOn
<1>3. \A l \in CheckingOn(c) :
        \/ place'[l].step = "ended" /\ place[l].queue = Queues
        \/ /\ place'[l].step = "open"
           /\ place'[l].queue = place[l].queue + 1
  <2> SUFFICES ASSUME NEW l \in CheckingOn(c)
               PROVE  \/ place'[l].step = "ended" /\ place[l].queue = Queues
                      \/ /\ place'[l].step = "open"
                         /\ place'[l].queue = place[l].queue + 1
    OBVIOUS
  <2>1. place[l].queue \in 1..Queues
    BY DEF CheckingOn
  <2>2. PICK q \in 1..(Queues + 1) : q = place[l].queue + 1
    BY <2>1
  <2>3. place'[l] = GoOn(q, NoChannel)
    BY <1>2, <2>2
  <2>4. CASE q <= Queues
    BY <2>2, <2>3, <2>4, GoingOn
  <2>5. CASE q = Queues + 1
    <3>1. place[l].queue = Queues
      <4>1. PICK k \in 1..Queues : k = place[l].queue
        BY <2>1
      <4>2. k + 1 = Queues + 1
        BY <2>2, <2>5, <4>1
      <4>3. k = Queues
        BY <4>2
      <4>4. QED
        BY <4>1, <4>3
    <3>2. GoOn(q, NoChannel).step = "ended"
      BY <2>5, GoingOn
    <3>3. QED
      BY <2>3, <3>1, <3>2
  <2>6. QED
    BY <2>4, <2>5
<1>4. GaugesTypeOK'
  BY <1>1, <1>2 DEF Place
<1>5. Channels'
  BY <1>1, <1>2, <1>3 DEF Channels, CheckingOn
<1>6. Answers'
  <2>1. \A l \in Load : expected'[l] \subseteq declared'
    BY <1>1 DEF Answers
  <2>2. ASSUME NEW l \in Load \ disturbed', NEW q \in expected'[l]
        PROVE  q \in answered'[l] \/ (place'[l].step # "ended" /\ q >= place'[l].queue)
    <3>1. q \in expected[l] /\ q \in declared /\ q \in 1..Queues /\ l \notin hit
      BY <1>1, <2>2 DEF Answers
    <3>2. q \in answered[l] \/ (place[l].step # "ended" /\ q >= place[l].queue)
      BY <2>2, <3>1 DEF Answers
    <3>3. CASE l \in CheckingOn(c)
      <4>1. q # place[l].queue
        BY <3>1, <3>3
      <4>2. QED
        BY <1>1, <1>3, <3>1, <3>2, <3>3, <4>1
    <3>4. CASE l \notin CheckingOn(c)
      BY <1>1, <1>2, <3>2, <3>4
    <3>5. QED
      BY <3>3, <3>4
  <2>3. QED
    BY <2>1, <2>2 DEF Answers
<1>7. Alone'
  BY <1>1, <1>2, <1>3 DEF Alone, UnderWay, CheckingOn
<1>8. QED
  BY <1>4, <1>5, <1>6, <1>7

LEMMA GaugesInvStep ==
  ASSUME GaugesInv, [GaugesNext]_gaugesVars
  PROVE  GaugesInv'
<1> USE GaugesAssumption DEF GaugesInv, GaugesTypeOK, broker
<1>1. ASSUME NEW l \in Load, Begin(l) PROVE GaugesInv'
  <2>1. /\ GoOn(1, current) \in Place /\ GoOn(1, current).queue = 1
        /\ GoOn(1, current).channel = current
        /\ GoOn(1, current).step = IF current = NoChannel THEN "open" ELSE "check"
    BY GoingOn
  <2>2. place' = [place EXCEPT ![l] = GoOn(1, current)]
    BY <1>1 DEF Begin
  <2>3. GaugesTypeOK'
    BY <1>1, <2>1, <2>2 DEF Begin, Place
  <2>4. Channels'
    BY <1>1, <2>1, <2>2 DEF Begin, Channels
  <2>5. Answers'
    <3>1. /\ place'[l].step # "ended" /\ place'[l].queue = 1 /\ expected'[l] = declared
          /\ declared' = declared /\ declared \subseteq 1..Queues
      BY <1>1, <2>1, <2>2 DEF Begin
    <3>2. \A q \in expected'[l] : place'[l].step # "ended" /\ q >= place'[l].queue
      <4>1. \A q \in declared : q >= 1
        BY <3>1
      <4>2. QED
        BY <3>1, <4>1
    <3>3. \A m \in Load \ {l} :
            /\ expected'[m] = expected[m] /\ answered'[m] = answered[m]
            /\ place'[m] = place[m] /\ (m \in disturbed <=> m \in disturbed')
      BY <1>1 DEF Begin
    <3>4. QED
      BY <3>1, <3>2, <3>3 DEF Answers
  <2>6. Alone'
    <3> SUFFICES ASSUME ~overlapped' PROVE Alone'
      BY DEF Alone
    <3>1. ~overlapped /\ \A m \in Load : place[m].step = "ended"
      BY <1>1 DEF Begin, UnderWay
    <3>2. UNCHANGED <<channels, current>>
      BY <1>1 DEF Begin
    <3>3. \A m \in Load \ {l} : place'[m].step = "ended"
      BY <2>2, <3>1
    <3>4. /\ place'[l].channel = current
          /\ place'[l].step = "open" => current = NoChannel
      BY <2>1, <2>2
    <3>5. \A c \in Channel : channels[c] = "open" => c = current
      BY <3>1 DEF Alone
    <3>6. QED
      BY <3>2, <3>3, <3>4, <3>5 DEF Alone, UnderWay
  <2>7. QED
    BY <2>3, <2>4, <2>5, <2>6
<1>2. ASSUME NEW l \in Load, NEW c \in Channel, Opened(l, c) PROVE GaugesInv'
  <2>1. /\ GoOn(place[l].queue, c) \in Place
        /\ GoOn(place[l].queue, c).queue = place[l].queue
        /\ GoOn(place[l].queue, c).channel = c
        /\ GoOn(place[l].queue, c).step = "check"
    BY GoingOn
  <2>2. place' = [place EXCEPT ![l] = GoOn(place[l].queue, c)]
    BY <1>2 DEF Opened
  <2>3. GaugesTypeOK'
    BY <1>2, <2>1, <2>2 DEF Opened, Place
  <2>4. Channels'
    BY <1>2, <2>1, <2>2 DEF Opened, Channels
  <2>5. Answers'
    BY <1>2, <2>1, <2>2 DEF Opened, Answers
  <2>6. Alone'
    BY <1>2, <2>1, <2>2 DEF Opened, Alone, UnderWay
  <2>7. QED
    BY <2>3, <2>4, <2>5, <2>6
<1>3. ASSUME NEW l \in Load, OpenFails(l) PROVE GaugesInv'
  BY <1>3 DEF OpenFails, Ended, Channels, Answers, Alone, UnderWay
<1>4. ASSUME NEW l \in Load, Checked(l) PROVE GaugesInv'
  <2>1. PICK q \in 1..(Queues + 1) : q = place[l].queue + 1
    OBVIOUS
  <2>2. /\ GoOn(q, current) \in Place
        /\ \/ q = Queues + 1 /\ GoOn(q, current).step = "ended"
           \/ /\ GoOn(q, current).queue = q /\ GoOn(q, current).channel = current
              /\ GoOn(q, current).step = IF current = NoChannel THEN "open" ELSE "check"
    BY GoingOn
  <2>3. /\ place' = [place EXCEPT ![l] = GoOn(q, current)]
        /\ answered' = [answered EXCEPT ![l] = answered[l] \cup {place[l].queue}]
    BY <1>4, <2>1 DEF Checked
  <2>4. GaugesTypeOK'
    BY <1>4, <2>2, <2>3 DEF Checked, Answerable, Place
  <2>5. Channels'
    BY <1>4, <2>2, <2>3 DEF Checked, Channels
  <2>6. Answers'
    <3>1. /\ UNCHANGED <<expected, declared, disturbed>>
          /\ place[l].queue \in answered'[l] /\ answered[l] \subseteq answered'[l]
          /\ place[l].queue \in Nat /\ expected[l] \subseteq 1..Queues
      BY <1>4, <2>3 DEF Checked, Answers
    <3>2. \/ q = Queues + 1 /\ place'[l].step = "ended"
          \/ place'[l].step # "ended" /\ place'[l].queue = q
      BY <2>2, <2>3
    <3>3. \A m \in Load \ {l} : place'[m] = place[m] /\ answered'[m] = answered[m]
      BY <2>3
    <3>4. ASSUME l \notin disturbed, NEW e \in expected[l]
          PROVE  e \in answered'[l] \/ (place'[l].step # "ended" /\ e >= place'[l].queue)
      <4>1. e \in answered[l] \/ e >= place[l].queue
        BY <3>4 DEF Answers
      <4>2. e \in answered'[l] \/ e > place[l].queue
        BY <3>1, <4>1
      <4>3. e \in 1..Queues
        BY <3>1
      <4>4. QED
        BY <2>1, <3>1, <3>2, <4>2, <4>3
    <3>5. QED
      BY <3>1, <3>3, <3>4 DEF Answers
  <2>7. Alone'
    BY <1>4, <2>2, <2>3 DEF Checked, Alone, UnderWay
  <2>8. QED
    BY <2>4, <2>5, <2>6, <2>7
<1>5. ASSUME NEW l \in Load, CheckFails(l) PROVE GaugesInv'
  <2>1. /\ place[l].channel \in Channel /\ channels[place[l].channel] = "open"
        /\ place[l].queue \notin declared
    BY <1>5 DEF CheckFails, Channels, Answerable
  <2>2. CheckingOn(place[l].channel) \ {l} \in SUBSET Load
    BY DEF CheckingOn
  <2>3. /\ Closes(place[l].channel) /\ cached' \in BOOLEAN /\ up' \in BOOLEAN
        /\ disturbed' = disturbed \cup (CheckingOn(place[l].channel) \ {l})
    BY <1>5 DEF CheckFails
  <2>4. QED
    <3> HIDE DEF GaugesInv, GaugesTypeOK
    <3>1. QED
      BY <2>1, <2>2, <2>3, ClosesKeeps
<1>6. ASSUME NEW c \in Channel, BrokerCloses(c) PROVE GaugesInv'
  <2>1. CheckingOn(c) \in SUBSET Load
    BY DEF CheckingOn
  <2>2. /\ channels[c] = "open" /\ Closes(c)
        /\ cached' \in BOOLEAN /\ up' \in BOOLEAN
        /\ disturbed' = disturbed \cup CheckingOn(c)
    BY <1>6 DEF BrokerCloses
  <2>3. QED
    <3> HIDE DEF GaugesInv, GaugesTypeOK
    <3>1. QED
      BY <2>1, <2>2, ClosesKeeps
<1>7. ASSUME NEW q \in 1..Queues, Declare(q) PROVE GaugesInv'
  BY <1>7 DEF Declare, Channels, Answers, Alone, UnderWay
<1>8. CASE StopGauges
  <2>1. CASE current = NoChannel
    BY <1>8, <2>1 DEF StopGauges, Channels, Answers, Alone, UnderWay
  <2>2. CASE current # NoChannel
    <3>1. current \in Channel /\ channels[current] = "open"
      BY <2>2 DEF Channels
    <3>2. CheckingOn(current) \in SUBSET Load
      BY DEF CheckingOn
    <3>3. /\ Closes(current) /\ cached' \in BOOLEAN /\ up' \in BOOLEAN
          /\ disturbed' = disturbed \cup CheckingOn(current)
      BY <1>8, <2>2 DEF StopGauges
    <3>4. QED
      <4> HIDE DEF GaugesInv, GaugesTypeOK
      <4>1. QED
        BY <3>1, <3>2, <3>3, ClosesKeeps
  <2>3. QED
    BY <2>1, <2>2
<1>9. CASE SnapshotAges \/ UNCHANGED gaugesVars
  BY <1>9 DEF SnapshotAges, gaugesVars, Channels, Answers, Alone, UnderWay
<1>10. QED
  BY <1>1, <1>2, <1>3, <1>4, <1>5, <1>6, <1>7, <1>8, <1>9 DEF GaugesNext

\* Every reachable state keeps the invariant (LiveGaugesService).
THEOREM GaugesInvariance == GaugesSpec => []GaugesInv
  BY GaugesInvInit, GaugesInvStep, PTL DEF GaugesSpec

\* A queue that was there is missing only where its load was disturbed, and
\* only loads that overlap leak a channel (queues, queueChannel).
THEOREM GaugesCorrect == GaugesSpec => []GaugesExplained
<1>1. GaugesInv => GaugesExplained
  BY DEF GaugesInv, Answers, Alone, GaugesExplained, UnderWay, Leaked
<1>2. QED
  BY <1>1, GaugesInvariance, PTL

\* Loads, channels and answers keep their types (LiveGaugesService).
THEOREM GaugesTypesCorrect == GaugesSpec => []GaugesTypeOK
<1>1. GaugesInv => GaugesTypeOK
  BY DEF GaugesInv
<1>2. QED
  BY <1>1, GaugesInvariance, PTL

(***************************************************************************)
(* MCConcurrentUse                                                         *)
(***************************************************************************)

\* Side by side, the shopper's requests, the tabs, the dashboards, the readers
\* of orders and the relays each do what they do alone, so what is proved of
\* one holds of the whole (CartService, AuthService, LiveGaugesService,
\* OrdersService, OutboxRelayService).
THEOREM ActorsRunAlone ==
  Spec => CartSpec /\ TokenSpec /\ GaugesSpec /\ OrderCacheSpec /\ RelaySpec
<1>1. Init => CartInit /\ TokenInit /\ GaugesInit /\ OrderCacheInit /\ RelayInit
  BY DEF Init
<1>2. ASSUME [Next]_useVars
      PROVE  /\ [CartNext]_cartVars /\ [TokenNext]_tokenVars
             /\ [GaugesNext]_gaugesVars /\ [OrderCacheNext]_orderCacheVars
             /\ [RelayNext]_relayVars
  BY <1>2 DEF Next, CartMoves, TokensMove, GaugesMove, CacheMoves, RelayMoves,
              Moves, useVars
<1>3. QED
  BY <1>1, <1>2, PTL
     DEF Spec, CartSpec, TokenSpec, GaugesSpec, OrderCacheSpec, RelaySpec

\* Every variable of the composition keeps its type (CartService, AuthService,
\* LiveGaugesService, OrdersService, OutboxRelayService).
THEOREM ActorsTypesCorrect == Spec => []TypeOK
  BY ActorsRunAlone, CartTypesCorrect, TokenTypesCorrect, GaugesTypesCorrect,
     CacheTypesCorrect, RelayTypesCorrect, PTL DEF TypeOK

=============================================================================

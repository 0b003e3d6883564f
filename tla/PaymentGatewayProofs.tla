------------------------ MODULE PaymentGatewayProofs ------------------------
(***************************************************************************)
(* Proofs about PaymentGateway, for any number of deliveries, any delays   *)
(* and any number of faults.                                               *)
(***************************************************************************)
EXTENDS PaymentGateway, TLAPS, WellFoundedInduction

(***************************************************************************)
(* The backoff                                                             *)
(***************************************************************************)

\* Induction over the naturals, for a set in place of a predicate.
LEMMA SetInduction ==
  ASSUME NEW S, 0 \in S, \A n \in Nat : n \in S => n + 1 \in S
  PROVE  Nat \subseteq S
<1> DEFINE T == {n \in Nat : n \notin S}
<1>1. SUFFICES ASSUME T # {} PROVE FALSE
  OBVIOUS
<1>2. T \subseteq Nat
  OBVIOUS
<1>3. PICK x \in T : \A y \in T : ~ (<<y, x>> \in OpToRel(<, Nat))
  <2> HIDE DEF T
  <2> QED BY <1>1, <1>2, NatLessThanWellFounded, WFMin
<1>4. x # 0 /\ x \in Nat
  OBVIOUS
<1>5. x - 1 \in T /\ x - 1 < x
  BY <1>4
<1>6. QED
  BY <1>3, <1>5 DEF OpToRel

\* g lists the first delays of the backoff, up to the one after n retries.
Doubles(g, n) ==
  g[0] = BaseDelay /\ \A k \in 1..n : g[k] = 2 * g[k - 1]

\* However many retries, their delays can be listed.
LEMMA Prefixes == \A n \in Nat : \E g \in [0..n -> Nat] : Doubles(g, n)
<1> DEFINE S == {n \in Nat : \E g \in [0..n -> Nat] : Doubles(g, n)}
<1>1. 0 \in S
  <2> DEFINE g == [k \in 0..0 |-> BaseDelay]
  <2>1. g \in [0..0 -> Nat] /\ g[0] = BaseDelay
    BY GatewayAssumption
  <2>2. Doubles(g, 0)
    BY <2>1 DEF Doubles
  <2>3. QED
    BY <2>1, <2>2
<1>2. ASSUME NEW n \in Nat, n \in S
      PROVE  n + 1 \in S
  <2>1. PICK g \in [0..n -> Nat] : Doubles(g, n)
    BY <1>2
  <2> DEFINE h == [k \in 0..(n + 1) |-> IF k = n + 1 THEN 2 * g[n] ELSE g[k]]
  <2>2. h \in [0..(n + 1) -> Nat]
    OBVIOUS
  <2>3. h[0] = BaseDelay
    BY <2>1 DEF Doubles
  <2>4. ASSUME NEW k \in 1..(n + 1)
        PROVE  h[k] = 2 * h[k - 1]
    <3>1. CASE k = n + 1
      BY <3>1
    <3>2. CASE k # n + 1
      <4>1. k \in 1..n /\ k \in 0..(n + 1) /\ k - 1 \in 0..(n + 1) /\ k - 1 # n + 1
        BY <3>2
      <4>2. h[k] = g[k] /\ h[k - 1] = g[k - 1]
        BY <3>2, <4>1
      <4>3. QED
        BY <2>1, <4>1, <4>2 DEF Doubles
    <3>3. QED
      BY <3>1, <3>2
  <2>5. Doubles(h, n + 1)
    <3> HIDE DEF h
    <3> QED BY <2>3, <2>4 DEF Doubles
  <2>6. QED
    BY <2>2, <2>5
<1>3. QED
  <2> HIDE DEF S
  <2>1. Nat \subseteq S
    BY <1>1, <1>2, SetInduction
  <2>2. QED
    BY <2>1 DEF S

\* Two such lists agree where both reach.
LEMMA PrefixesAgree ==
  ASSUME NEW m \in Nat, NEW n \in Nat,
         NEW g \in [0..m -> Nat], NEW h \in [0..n -> Nat],
         Doubles(g, m), Doubles(h, n)
  PROVE  \A k \in Nat : k <= m /\ k <= n => g[k] = h[k]
<1> DEFINE S == {k \in Nat : k <= m /\ k <= n => g[k] = h[k]}
<1>1. 0 \in S
  BY DEF Doubles
<1>2. ASSUME NEW k \in Nat, k \in S
      PROVE  k + 1 \in S
  BY <1>2 DEF Doubles
<1>3. QED
  <2> HIDE DEF S
  <2>1. Nat \subseteq S
    BY <1>1, <1>2, SetInduction
  <2>2. QED
    BY <2>1 DEF S

\* The recursive definition of the backoff defines a function.
LEMMA BackoffDoubles ==
  Backoff = [before \in Nat |->
               IF before = 0 THEN BaseDelay ELSE 2 * Backoff[before - 1]]
<1> DEFINE Prefix(n) == CHOOSE g \in [0..n -> Nat] : Doubles(g, n)
           whole == [n \in Nat |-> Prefix(n)[n]]
           Step(f) == [before \in Nat |->
                        IF before = 0 THEN BaseDelay ELSE 2 * f[before - 1]]
<1>1. \A n \in Nat : Prefix(n) \in [0..n -> Nat] /\ Doubles(Prefix(n), n)
  BY Prefixes
<1>2. ASSUME NEW n \in Nat
      PROVE  whole[n] = IF n = 0 THEN BaseDelay ELSE 2 * whole[n - 1]
  <2> HIDE DEF Prefix
  <2>1. CASE n = 0
    BY <1>1, <2>1 DEF Doubles
  <2>2. CASE n # 0
    <3>1. n - 1 \in Nat /\ n - 1 <= n /\ n \in 1..n
      BY <2>2
    <3>2. Prefix(n)[n - 1] = Prefix(n - 1)[n - 1]
      <4>1. Prefix(n) \in [0..n -> Nat] /\ Doubles(Prefix(n), n)
        BY <1>1
      <4>2. /\ Prefix(n - 1) \in [0..(n - 1) -> Nat]
            /\ Doubles(Prefix(n - 1), n - 1)
        BY <1>1, <3>1
      <4>3. \A k \in Nat :
              k <= n /\ k <= n - 1 => Prefix(n)[k] = Prefix(n - 1)[k]
        BY <3>1, <4>1, <4>2, PrefixesAgree
      <4>4. QED
        BY <3>1, <4>3
    <3>3. QED
      BY <1>1, <2>2, <3>1, <3>2 DEF Doubles
  <2>3. QED
    BY <2>1, <2>2
<1>3. whole = Step(whole)
  <2> HIDE DEF Prefix
  <2> QED BY <1>2
<1>4. Backoff = CHOOSE f : f = Step(f)
  BY DEF Backoff
<1>5. QED
  <2> HIDE DEF whole, Step
  <2>1. Backoff = Step(Backoff)
    BY <1>3, <1>4
  <2>2. QED
    BY <2>1 DEF Step

\* Every delay of retryDelayMs is a number.
LEMMA BackoffType == Backoff \in [Nat -> Nat]
<1> DEFINE S == {n \in Nat : Backoff[n] \in Nat}
<1>1. 0 \in S
  BY BackoffDoubles, GatewayAssumption
<1>2. ASSUME NEW n \in Nat, n \in S PROVE n + 1 \in S
  <2>1. Backoff[n + 1] = 2 * Backoff[(n + 1) - 1]
    BY BackoffDoubles
  <2>2. QED
    BY <1>2, <2>1
<1>3. Nat \subseteq S
  <2> HIDE DEF S
  <2> QED BY <1>1, <1>2, SetInduction
<1>4. QED
  BY <1>3, BackoffDoubles

(***************************************************************************)
(* Invariance                                                              *)
(***************************************************************************)

LEMMA InvInit == GatewayInit => GatewayInv
  BY GatewayAssumption DEF GatewayInit, GatewayInv, LedgerTypes, HandlerTypes,
                           Claims, Owns, Recorded, LiveClaimChargedOnce,
                           LedgerTruthful, Decision

\* A message that a handler has thrown back holds no claim and no decision.
LEMMA RetryKeeps ==
  ASSUME GatewayInv, NEW d \in Delivery, Retry(d),
         UNCHANGED <<ledgerVars, providerVars>>, faults' \in 0..MaxFaults
  PROVE  GatewayInv'
<1>1. PICK where \in {"waiting", "dead"} :
        /\ pc' = [pc EXCEPT ![d] = where]
        /\ result' = [result EXCEPT ![d] = "none"]
  BY DEF Retry
<1>2. HandlerTypes'
  BY GatewayAssumption DEF GatewayInv, HandlerTypes, Retry, RetriesLeft,
                           queueVars
<1>3. LedgerTypes' /\ LiveClaimChargedOnce'
  BY DEF GatewayInv, LedgerTypes, LiveClaimChargedOnce, ledgerVars, providerVars
<1>4. LedgerTruthful' /\ Claims' /\ Recorded'
  BY <1>1 DEF GatewayInv, HandlerTypes, LedgerTruthful, Claims, Owns, Recorded,
              ledgerVars, providerVars
<1>5. QED
  BY <1>2, <1>3, <1>4 DEF GatewayInv

LEMMA InvStep ==
  ASSUME GatewayInv, [GatewayNext]_gatewayVars
  PROVE  GatewayInv'
<1> USE GatewayAssumption DEF ledgerVars, providerVars, queueVars, Move
<1>1. ASSUME NEW d \in Delivery,
             Arrive(d) \/ Finish(d) \/ Expire(d)
      PROVE  GatewayInv'
  BY <1>1 DEF Arrive, Finish, Expire, GatewayInv, LedgerTypes, HandlerTypes,
              Claims, Owns, Recorded, LiveClaimChargedOnce, LedgerTruthful,
              InHandler
<1>2. ASSUME NEW d \in Delivery, Claim(d)
      PROVE  GatewayInv'
  BY <1>2 DEF Claim, GatewayInv, LedgerTypes, HandlerTypes, Claims, Owns,
              Recorded, LiveClaimChargedOnce, LedgerTruthful, InHandler,
              Decision
<1>3. ASSUME NEW d \in Delivery, ReadDecision(d)
      PROVE  GatewayInv'
  BY <1>3 DEF ReadDecision, StoredDecision, GatewayInv, LedgerTypes,
              HandlerTypes, Claims, Owns, Recorded, LiveClaimChargedOnce,
              LedgerTruthful, InHandler, Decision
<1>4. ASSUME NEW d \in Delivery, TakeOver(d)
      PROVE  GatewayInv'
  BY <1>4 DEF TakeOver, ClaimStale, GatewayInv, LedgerTypes, HandlerTypes,
              Claims, Owns, Recorded, LiveClaimChargedOnce, LedgerTruthful,
              InHandler
<1>5. ASSUME NEW d \in Delivery, Charge(d)
      PROVE  GatewayInv'
  BY <1>5 DEF Charge, GatewayInv, LedgerTypes, HandlerTypes, Claims, Owns,
              Recorded, LiveClaimChargedOnce, LedgerTruthful, InHandler
<1>6. CASE ProviderDecides
  BY <1>6 DEF ProviderDecides, GatewayInv, LedgerTypes, HandlerTypes, Claims,
              Owns, Recorded, LiveClaimChargedOnce, LedgerTruthful, Decision
<1>7. ASSUME NEW d \in Delivery, ChargeReturns(d)
      PROVE  GatewayInv'
  BY <1>7 DEF ChargeReturns, GatewayInv, LedgerTypes, HandlerTypes, Claims,
              Owns, Recorded, LiveClaimChargedOnce, LedgerTruthful, InHandler,
              Decision
<1>8. ASSUME NEW d \in Delivery, RecordDecision(d)
      PROVE  GatewayInv'
  BY <1>8 DEF RecordDecision, GatewayInv, LedgerTypes, HandlerTypes, Claims,
              Owns, Recorded, LiveClaimChargedOnce, LedgerTruthful, InHandler,
              Decision
<1>9. ASSUME NEW d \in Delivery, InFlight(d) \/ HandlerThrows(d)
      PROVE  GatewayInv'
  <2>1. faults' \in 0..MaxFaults
    BY <1>9 DEF InFlight, HandlerThrows, GatewayInv, HandlerTypes
  <2>2. QED
    BY <1>9, <2>1, RetryKeeps DEF InFlight, HandlerThrows
<1>10. ASSUME NEW d \in Delivery, Crash(d)
       PROVE  GatewayInv'
  BY <1>10 DEF Crash, GatewayInv, LedgerTypes, HandlerTypes, Claims, Owns,
               Recorded, LiveClaimChargedOnce, LedgerTruthful, InHandler
<1>11. CASE Tick
  BY <1>11 DEF Tick, Ageing, GatewayInv, LedgerTypes, HandlerTypes, Claims,
               Owns, Recorded, LiveClaimChargedOnce, LedgerTruthful
<1>12. CASE UNCHANGED gatewayVars
  BY <1>12 DEF gatewayVars, GatewayInv, LedgerTypes, HandlerTypes, Claims, Owns,
               Recorded, LiveClaimChargedOnce, LedgerTruthful
<1>13. QED
  BY <1>1, <1>2, <1>3, <1>4, <1>5, <1>6, <1>7, <1>8, <1>9, <1>10, <1>11,
     <1>12 DEF GatewayNext, HandlerStep

\* Every claim, answer, retry, crash and second that passes preserves
\* GatewayInv: authorize and its retries keep the ledger and the provider in
\* step.
THEOREM GatewayInvariance == GatewaySpec => []GatewayInv
  BY InvInit, InvStep, PTL DEF GatewaySpec

\* What a retry waits for is a number: the delay of the attempt it starts.
LEMMA WaitStep ==
  ASSUME GatewayTypeOK, [GatewayNext]_gatewayVars
  PROVE  wait' \in [Delivery -> Nat]
<1> USE DEF GatewayTypeOK
<1>1. ASSUME NEW d \in Delivery, Retry(d)
      PROVE  wait' \in [Delivery -> Nat]
  <2>1. RetryDelay(xAttempts[d] + 1) \in Nat
    <3>1. (xAttempts[d] + 1) - 1 \in Nat
      BY GatewayAssumption DEF HandlerTypes
    <3>2. QED
      BY <3>1, BackoffType DEF RetryDelay
  <2>2. QED
    BY <1>1, <2>1 DEF Retry, queueVars
<1>2. CASE Tick
  BY <1>2 DEF Tick
<1>3. CASE UNCHANGED wait
  BY <1>3
<1>4. QED
  BY <1>1, <1>2, <1>3 DEF GatewayNext, HandlerStep, InFlight, HandlerThrows,
                          Arrive, Claim, ReadDecision, TakeOver, Charge,
                          ChargeReturns, RecordDecision, Finish, Expire, Crash,
                          ProviderDecides, queueVars, gatewayVars

\* Every variable of authorize and its retries keeps its type: attempts stay
\* within MaxRetries, and every wait of createRetryErrorHandler is a number.
THEOREM GatewayTypesCorrect == GatewaySpec => []GatewayTypeOK
<1>1. GatewayInit => GatewayTypeOK
  BY InvInit DEF GatewayInit, GatewayInv, GatewayTypeOK
<1>2. GatewayInv /\ GatewayTypeOK /\ [GatewayNext]_gatewayVars => GatewayTypeOK'
  BY InvStep, WaitStep DEF GatewayInv, GatewayTypeOK
<1>3. QED
  BY <1>1, <1>2, GatewayInvariance, PTL DEF GatewaySpec

\* While the claim of authorize is live, at most one call reaches the
\* provider, however many deliveries, retries and crashes there are.
THEOREM ChargedOnce == GatewaySpec => []LiveClaimChargedOnce
<1>1. GatewayInv => LiveClaimChargedOnce
  BY DEF GatewayInv
<1>2. QED
  BY <1>1, GatewayInvariance, PTL

\* What authorize stores and returns is the provider's decision.
THEOREM Truthful == GatewaySpec => []LedgerTruthful
<1>1. GatewayInv => LedgerTruthful
  BY DEF GatewayInv
<1>2. QED
  BY <1>1, GatewayInvariance, PTL

(***************************************************************************)
(* Refinement                                                              *)
(***************************************************************************)

LEMMA PromiseInit == GatewayInit => Promise!Init
  BY DEF GatewayInit, Promise!Init

LEMMA PromiseStep ==
  ASSUME GatewayInv, [GatewayNext]_gatewayVars
  PROVE  [Promise!Next]_(Promise!vars)
<1> USE DEF ledgerVars, providerVars
<1>1. ASSUME NEW d \in Delivery, result' = [result EXCEPT ![d] = "none"],
             provider' = provider
      PROVE  Promise!Next
  BY <1>1 DEF Promise!Next, Promise!Forget
<1>2. ASSUME NEW d \in Delivery, provider # "none", provider' = provider,
             result' = [result EXCEPT ![d] = provider]
      PROVE  Promise!Next
  BY <1>2 DEF Promise!Next, Promise!Answer
<1>3. CASE \E d \in Delivery :
             Finish(d) \/ InFlight(d) \/ HandlerThrows(d) \/ Crash(d)
  BY <1>1, <1>3 DEF Finish, InFlight, HandlerThrows, Crash, Retry
<1>4. CASE \E d \in Delivery : ReadDecision(d)
  <2>1. PICK d \in Delivery : ReadDecision(d)
    BY <1>4
  <2>2. CASE StoredDecision = {}
    BY <2>1, <2>2 DEF ReadDecision, Promise!vars
  <2>3. CASE StoredDecision # {}
    <3>1. ledger \in Decision /\ result' = [result EXCEPT ![d] = ledger]
      BY <2>1, <2>3 DEF ReadDecision, StoredDecision
    <3>2. ledger = provider /\ provider # "none"
      BY <3>1 DEF GatewayInv, LedgerTruthful, Decision
    <3>3. QED
      BY <1>2, <2>1, <3>1, <3>2 DEF ReadDecision
  <2>4. QED
    BY <2>2, <2>3
<1>5. CASE \E d \in Delivery : ChargeReturns(d)
  BY <1>2, <1>5 DEF ChargeReturns
<1>6. CASE ProviderDecides
  BY <1>6 DEF ProviderDecides, Decision, Promise!Next, Promise!Decide
<1>7. CASE \/ \E d \in Delivery :
                \/ Arrive(d) \/ Claim(d) \/ TakeOver(d) \/ Charge(d)
                \/ RecordDecision(d) \/ Expire(d)
           \/ Tick
           \/ UNCHANGED gatewayVars
  BY <1>7 DEF Arrive, Claim, TakeOver, Charge, RecordDecision, Expire, Tick,
              gatewayVars, Promise!vars
<1>8. QED
  BY <1>3, <1>4, <1>5, <1>6, <1>7 DEF GatewayNext, HandlerStep

\* authorize keeps the promise OrderPipeline's payment consumer builds on: one
\* decision, and the same answer to every caller.
THEOREM KeepsPromise == GatewaySpec => PromiseSpec
  BY PromiseInit, PromiseStep, GatewayInvariance, PTL
     DEF GatewaySpec, PromiseSpec, Promise!Spec

=============================================================================

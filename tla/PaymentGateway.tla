--------------------------- MODULE PaymentGateway ---------------------------
(***************************************************************************)
(* PaymentGateway.authorize for one order: the ledger row claimed before   *)
(* the provider is called, the callers that lose the claim, the takeover   *)
(* of a claim that has grown stale, and the retry handler's backoff, which *)
(* decides how long a caller keeps asking.                                 *)
(*                                                                         *)
(* Rows of different orders never meet, so one order is enough.  Time is a *)
(* tick of one second by which the claim ages and the wait queues count    *)
(* down; handlers, the broker and the provider may take any time.          *)
(***************************************************************************)
EXTENDS Naturals

CONSTANTS
  Delivery,      \* copies of the order's InventoryReserved message
  StaleAfter,    \* STALE_CLAIM_SECONDS
  BaseDelay,     \* DEFAULT_BASE_DELAY_MS, in seconds
  MaxRetries,    \* createRetryErrorHandler's maxRetries
  MaxFaults      \* bound on the crashes and errors of a behaviour

ASSUME GatewayAssumption ==
  /\ StaleAfter \in Nat /\ BaseDelay \in Nat
  /\ MaxRetries \in Nat /\ MaxFaults \in Nat

VARIABLES
  ledger,    \* the order's payment_authorizations row
  claimAge,  \* now() - createdAt of that row, StaleAfter + 1 for any more
  provider,  \* what the provider has decided for the idempotency key
  calls,     \* provider calls made for it
  pc,        \* [Delivery -> where the message or its handler is]
  result,    \* [Delivery -> the decision its handler holds]
  xAttempts,  \* [Delivery -> the x-attempts header]
  wait,      \* [Delivery -> what is left of its wait queue's TTL]
  faults

ledgerVars == <<ledger, claimAge>>
providerVars == <<provider, calls>>
queueVars == <<xAttempts, wait>>
gatewayVars == <<ledgerVars, providerVars, pc, result, queueVars, faults>>

Decision == {"authorized", "declined"}

InHandler ==
  {"lost", "checking", "claimed", "charging", "recording", "answered"}

GatewayInit ==
  /\ ledger = "absent"
  /\ claimAge = 0
  /\ provider = "none"
  /\ calls = 0
  /\ pc = [d \in Delivery |-> "away"]
  /\ result = [d \in Delivery |-> "none"]
  /\ xAttempts = [d \in Delivery |-> 0]
  /\ wait = [d \in Delivery |-> 0]
  /\ faults = 0

Move(d, from, next) == pc[d] = from /\ pc' = [pc EXCEPT ![d] = next]

(***************************************************************************)
(* authorize                                                               *)
(***************************************************************************)

\* The relay publishes the message, the first time or again.
Arrive(d) ==
  /\ Move(d, "away", "queued")
  /\ UNCHANGED <<ledgerVars, providerVars, result, queueVars, faults>>

\* Seeded fault: ON CONFLICT DO UPDATE, stamping the row again.
ClaimRestamped(d) ==
  /\ \/ /\ ledger = "absent"
        /\ ledger' = "undecided"
        /\ Move(d, "queued", "claimed")
     \/ ledger # "absent" /\ Move(d, "queued", "lost") /\ ledger' = ledger
  /\ claimAge' = 0
  /\ UNCHANGED <<providerVars, result, queueVars, faults>>

\* claim: INSERT ... ON CONFLICT DO NOTHING has one winner.
Claim(d) ==
  /\ \/ /\ ledger = "absent"
        /\ ledger' = "undecided"
        /\ claimAge' = 0
        /\ Move(d, "queued", "claimed")
     \/ ledger # "absent" /\ Move(d, "queued", "lost") /\ UNCHANGED ledgerVars
  /\ UNCHANGED <<providerVars, result, queueVars, faults>>

\* Seeded fault: a row that exists is read as decided, NULL as declined.
StoredDecisionOfAny == IF ledger = "authorized" THEN {"authorized"}
                                                ELSE {"declined"}

\* The decision a caller finds on the row, if there is one.
StoredDecision == {ledger} \cap Decision

\* findOneBy after a lost claim: return the stored decision, or go on.
ReadDecision(d) ==
  /\ \/ /\ Move(d, "lost", "answered")
        /\ \E stored \in StoredDecision :
             result' = [result EXCEPT ![d] = stored]
     \/ /\ StoredDecision = {}
        /\ Move(d, "lost", "checking")
        /\ result' = result
  /\ UNCHANGED <<ledgerVars, providerVars, queueVars, faults>>

\* Seeded fault: any undecided claim may be taken over.
UndecidedIsStale == ledger = "undecided"

\* isClaimStale, by the database's clock.
ClaimStale == ledger = "undecided" /\ claimAge > StaleAfter

\* The stale claim is taken over as it is: nothing is written to the row.
TakeOver(d) ==
  /\ ClaimStale
  /\ Move(d, "checking", "claimed")
  /\ UNCHANGED <<ledgerVars, providerVars, result, queueVars, faults>>

\* charge: the call leaves with the order's idempotency key.
Charge(d) ==
  /\ Move(d, "claimed", "charging")
  /\ calls' = calls + 1
  /\ UNCHANGED <<ledgerVars, provider, result, queueVars, faults>>

\* The provider decides a key once, whether or not its caller still waits.
ProviderDecides ==
  /\ calls > 0
  /\ provider = "none"
  /\ provider' \in Decision
  /\ UNCHANGED <<ledgerVars, calls, pc, result, queueVars, faults>>

\* The provider answers this call, or an earlier one with the same key.
ChargeReturns(d) ==
  /\ provider # "none"
  /\ Move(d, "charging", "recording")
  /\ result' = [result EXCEPT ![d] = provider]
  /\ UNCHANGED <<ledgerVars, providerVars, queueVars, faults>>

\* The decision is stored where none is yet.
RecordDecision(d) ==
  /\ Move(d, "recording", "answered")
  /\ ledger' = IF ledger = "undecided" THEN result[d] ELSE ledger
  /\ UNCHANGED <<claimAge, providerVars, result, queueVars, faults>>

\* The consumer's transaction commits or is skipped, and the broker is told.
Finish(d) ==
  /\ Move(d, "answered", "acked")
  /\ result' = [result EXCEPT ![d] = "none"]
  /\ UNCHANGED <<ledgerVars, providerVars, queueVars, faults>>

(***************************************************************************)
(* Retries, faults and time                                                *)
(***************************************************************************)

\* The base delay, doubled for every attempt before.
Backoff[before \in Nat] ==
  IF before = 0 THEN BaseDelay ELSE 2 * Backoff[before - 1]

\* retryDelayMs.
RetryDelay(attempt) == Backoff[attempt - 1]

RetriesLeft(d) == xAttempts[d] < MaxRetries

\* createRetryErrorHandler: to the wait queue of this attempt's delay, or to
\* the dead-letter queue.
Retry(d) ==
  /\ \/ /\ RetriesLeft(d)
        /\ pc' = [pc EXCEPT ![d] = "waiting"]
        /\ xAttempts' = [xAttempts EXCEPT ![d] = @ + 1]
        /\ wait' = [wait EXCEPT ![d] = RetryDelay(xAttempts[d] + 1)]
     \/ /\ ~RetriesLeft(d)
        /\ pc' = [pc EXCEPT ![d] = "dead"]
        /\ UNCHANGED queueVars
  /\ result' = [result EXCEPT ![d] = "none"]

\* PaymentInFlightError: no stored decision was read, and no stale claim.
InFlight(d) ==
  /\ pc[d] = "checking"
  /\ ~ClaimStale
  /\ Retry(d)
  /\ UNCHANGED <<ledgerVars, providerVars, faults>>

\* The broker moves an expired message back to its queue.
Expire(d) ==
  /\ wait[d] = 0
  /\ Move(d, "waiting", "queued")
  /\ UNCHANGED <<ledgerVars, providerVars, result, queueVars, faults>>

\* The database, the provider or the consumer's own transaction fails.
HandlerThrows(d) ==
  /\ pc[d] \in InHandler \cup {"queued"}
  /\ faults < MaxFaults
  /\ faults' = faults + 1
  /\ Retry(d)
  /\ UNCHANGED <<ledgerVars, providerVars>>

\* The process or its connection is lost: the broker redelivers, attempts
\* unchanged.
Crash(d) ==
  /\ pc[d] \in InHandler
  /\ faults < MaxFaults
  /\ faults' = faults + 1
  /\ pc' = [pc EXCEPT ![d] = "queued"]
  /\ result' = [result EXCEPT ![d] = "none"]
  /\ UNCHANGED <<ledgerVars, providerVars, queueVars>>

Ageing == ledger # "absent" /\ claimAge <= StaleAfter

\* A second passes for the claim and for every wait queue.
Tick ==
  /\ Ageing \/ \E d \in Delivery : wait[d] > 0
  /\ claimAge' = IF Ageing THEN claimAge + 1 ELSE claimAge
  /\ wait' = [d \in Delivery |-> IF wait[d] > 0 THEN wait[d] - 1 ELSE 0]
  /\ UNCHANGED <<ledger, providerVars, pc, result, xAttempts, faults>>

HandlerStep(d) ==
  \/ Claim(d) \/ ReadDecision(d) \/ TakeOver(d) \/ InFlight(d)
  \/ Charge(d) \/ ChargeReturns(d) \/ RecordDecision(d)
  \/ Finish(d) \/ Expire(d)

GatewayNext ==
  \/ \E d \in Delivery :
       Arrive(d) \/ HandlerStep(d) \/ HandlerThrows(d) \/ Crash(d)
  \/ ProviderDecides
  \/ Tick

GatewaySpec == GatewayInit /\ [][GatewayNext]_gatewayVars

\* Time passes, the provider answers, the broker delivers and an awaited
\* statement returns; nothing obliges faults or a second publication.
GatewayFairness ==
  /\ WF_gatewayVars(Tick)
  /\ WF_gatewayVars(ProviderDecides)
  /\ \A d \in Delivery : WF_gatewayVars(HandlerStep(d))

GatewayFairSpec == GatewaySpec /\ GatewayFairness

(***************************************************************************)
(* Properties                                                              *)
(***************************************************************************)

LedgerTypes ==
  /\ ledger \in {"absent", "undecided"} \cup Decision
  /\ claimAge \in 0..(StaleAfter + 1)
  /\ provider \in {"none"} \cup Decision
  /\ calls \in Nat

HandlerTypes ==
  /\ pc \in [Delivery -> InHandler \cup {"away", "queued", "waiting", "acked",
                                       "dead"}]
  /\ result \in [Delivery -> {"none"} \cup Decision]
  /\ xAttempts \in [Delivery -> 0..MaxRetries]
  /\ faults \in 0..MaxFaults

\* Every variable keeps its type; attempts stay within MaxRetries
\* (createRetryErrorHandler).
GatewayTypeOK == LedgerTypes /\ HandlerTypes /\ wait \in [Delivery -> Nat]

\* While a claim is live, the provider has been called at most once for it,
\* however many deliveries ask and whoever crashes: the hazard is a
\* duplicate that charges beside a running owner (authorize).
LiveClaimChargedOnce == claimAge <= StaleAfter => calls <= 1

\* What the ledger stores, and what any handler holds, is what the provider
\* decided: an undecided row is never taken for an answer (authorize).
LedgerTruthful ==
  /\ ledger \in Decision => ledger = provider
  /\ \A d \in Delivery : result[d] # "none" => result[d] = provider

Promise ==
  INSTANCE ChargeOnce WITH decision <- provider, answer <- result

\* Every caller gets the provider's one decision or an error.
PromiseSpec == Promise!Spec

\* A claim whose owner died is decided by another attempt in the end.
ClaimEventuallyDecided == ledger = "undecided" ~> ledger \in Decision

(***************************************************************************)
(* The inductive invariant                                                 *)
(***************************************************************************)

Owns(d) == pc[d] \in {"claimed", "charging", "recording"}

\* Before the first call there is one owner at most, and no decision; a live
\* claim has at most the owner who may still call.
Claims ==
  /\ ledger = "absent" =>
       calls = 0 /\ claimAge = 0 /\ \A d \in Delivery : ~Owns(d)
  /\ calls = 0 => provider = "none"
  /\ claimAge <= StaleAfter =>
       /\ \A d, e \in Delivery : pc[d] = "claimed" /\ pc[e] = "claimed" => d = e
       /\ \A d \in Delivery : pc[d] = "claimed" => calls = 0

Recorded == \A d \in Delivery : pc[d] = "recording" => result[d] # "none"

\* The type of wait is left to GatewayTypeOK: no other property reads a delay.
GatewayInv ==
  /\ LedgerTypes /\ HandlerTypes /\ Claims /\ Recorded
  /\ LiveClaimChargedOnce /\ LedgerTruthful

=============================================================================

-------------------------- MODULE MCSharedServices --------------------------
(***************************************************************************)
(* StockReservation, MetricsBuffer, MetricsHistory and PaymentGateway for  *)
(* TLC, with OrderCache and OutboxRelay for their liveness.  They share no *)
(* state: each behaviour is about one of them, chosen at the start, and    *)
(* the others stay as they are.                                            *)
(***************************************************************************)
EXTENDS
  StockReservation, MetricsBuffer, MetricsHistory, PaymentGateway,
  OrderCache, OutboxRelay

VARIABLE focus

serviceVars == <<stockVars, bufferVars, historyVars>>
messageVars == <<gatewayVars, relayVars>>
sharedVars == <<serviceVars, messageVars, orderCacheVars, focus>>

\* The stock a reservation starts from is only of interest to reservations.
Init ==
  /\ focus \in {"stock", "buffer", "history", "gateway", "cache", "relay"}
  /\ StockInit /\ BufferInit /\ HistoryInit
  /\ GatewayInit /\ OrderCacheInit /\ RelayInit
  /\ focus # "stock" => /\ stock = [p \in Row |-> 0]
                        /\ need = [t \in Reservation |-> [p \in Row |-> MaxNeed]]

Moves(component, A, rest) == focus = component /\ A /\ UNCHANGED <<rest, focus>>
StockMoves(A) ==
  Moves("stock", A, <<bufferVars, historyVars, messageVars, orderCacheVars>>)
BufferMoves(A) ==
  Moves("buffer", A, <<stockVars, historyVars, messageVars, orderCacheVars>>)
HistoryMoves(A) ==
  Moves("history", A, <<stockVars, bufferVars, messageVars, orderCacheVars>>)
GatewayMoves(A) ==
  Moves("gateway", A, <<serviceVars, orderCacheVars, relayVars>>)
CacheMoves(A) == Moves("cache", A, <<serviceVars, messageVars>>)
RelayMoves(A) ==
  Moves("relay", A, <<serviceVars, gatewayVars, orderCacheVars>>)

Next ==
  \/ StockMoves(StockNext) \/ BufferMoves(BufferNext) \/ HistoryMoves(HistoryNext)
  \/ GatewayMoves(GatewayNext) \/ CacheMoves(OrderCacheNext)
  \/ RelayMoves(RelayNext)

\* Statements return, locks are granted when free, the database detects its
\* deadlocks, the broker delivers; time passes and the provider answers;
\* queries and Redis answer, and keys expire; the event loop runs its
\* callbacks and the relay's timer fires.
Fairness ==
  /\ \A t \in Reservation : WF_sharedVars(StockMoves(ReservationStep(t)))
  /\ WF_sharedVars(GatewayMoves(Tick))
  /\ WF_sharedVars(GatewayMoves(ProviderDecides))
  /\ \A d \in Delivery : WF_sharedVars(GatewayMoves(HandlerStep(d)))
  /\ \A r \in Reader : WF_sharedVars(CacheMoves(ReadOn(r)))
  /\ WF_sharedVars(CacheMoves(ExpireList))
  /\ \A i \in App : /\ WF_sharedVars(RelayMoves(RelayStep(i)))
                    /\ WF_sharedVars(RelayMoves(Poll(i)))

FairSpec == Init /\ [][Next]_sharedVars /\ Fairness

\* The types of the components.
TypeOK ==
  /\ StockTypeOK /\ BufferTypeOK /\ HistoryTypeOK
  /\ GatewayTypeOK /\ OrderCacheTypeOK /\ RelayTypeOK
=============================================================================

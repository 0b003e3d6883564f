-------------------------- MODULE MCConcurrentUse --------------------------
(***************************************************************************)
(* What actors that run side by side do to Cart, RefreshTokens, LiveGauges,*)
(* OrderCache and OutboxRelay, for TLC: the requests of a shopper, the     *)
(* tabs of a browser, the scrapes of dashboards, the readers of a cache,   *)
(* the relays of app instances.  The five share no state, so interleaving  *)
(* them would show nothing: each behaviour is about one of them, chosen at *)
(* the start, and the others stay as they are.                             *)
(***************************************************************************)
EXTENDS Cart, RefreshTokens, LiveGauges, OrderCache, OutboxRelay, TLC

VARIABLE focus

useVars ==
  <<cartVars, tokenVars, gaugesVars, orderCacheVars, relayVars, focus>>

\* The queues the broker has are only of interest to the gauges.
Init ==
  /\ focus \in {"cart", "tokens", "gauges", "cache", "relay"}
  /\ CartInit /\ TokenInit /\ GaugesInit /\ OrderCacheInit /\ RelayInit
  /\ focus # "gauges" => declared = {}

\* Bound: one cart is checked out; the cart after it is opened and filled.
OneOut == \A c, d \in CartId : cart[c] = "out" /\ cart[d] = "out" => c = d

Moves(component, A, rest) == focus = component /\ A /\ UNCHANGED <<rest, focus>>
CartMoves ==
  Moves("cart", CartNext /\ OneOut',
        <<tokenVars, gaugesVars, orderCacheVars, relayVars>>)
TokensMove ==
  Moves("tokens", TokenNext, <<cartVars, gaugesVars, orderCacheVars, relayVars>>)
GaugesMove ==
  Moves("gauges", GaugesNext, <<cartVars, tokenVars, orderCacheVars, relayVars>>)
CacheMoves ==
  Moves("cache", OrderCacheNext, <<cartVars, tokenVars, gaugesVars, relayVars>>)
RelayMoves ==
  Moves("relay", RelayNext, <<cartVars, tokenVars, gaugesVars, orderCacheVars>>)

Next == CartMoves \/ TokensMove \/ GaugesMove \/ CacheMoves \/ RelayMoves

Spec == Init /\ [][Next]_useVars

\* The types of the components.
TypeOK ==
  CartTypeOK /\ TokenTypeOK /\ GaugesTypeOK /\ OrderCacheTypeOK /\ RelayTypeOK

\* No component tells its two actors apart, nor the two things they are about;
\* since one component moves, its permutations are taken along with another's.
Moving(f) == \E x \in DOMAIN f : f[x] # x
Along(F, G) ==
  {p[1] @@ p[2] : p \in {q \in F \X G : Moving(q[1]) <=> Moving(q[2])}}

Swaps ==
  Along(Along(Permutations(Session), Permutations(Client)),
        Along(Permutations(Load), Permutations(App)))
  \cup
  Along(Along(Permutations(CartId), Permutations(Family)),
        Along(Permutations(Channel), Permutations(Order)))
=============================================================================

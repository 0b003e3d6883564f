-------------------------------- MODULE Cart --------------------------------
(***************************************************************************)
(* The carts of one user: requests that find or open the cart, set or      *)
(* remove a line, or check it out, while the boot of another instance      *)
(* retires products. Carts of different users share nothing else.          *)
(*                                                                         *)
(* A step is one statement on the database; a request may die, or have a   *)
(* statement fail, between any two of them.                                *)
(***************************************************************************)
EXTENDS Naturals, FiniteSets

CONSTANTS
  CartId,    \* carts that may be opened; their number bounds the model
  NoCart,
  Product,
  Retired,   \* RETIRED_SKUS
  Quantity,  \* quantities a client sends
  Session    \* concurrent requests of the user

ASSUME CartAssumption ==
  NoCart \notin CartId /\ Retired \subseteq Product /\ Quantity \subseteq Nat \ {0}

VARIABLES
  cart,      \* [CartId -> "none", "open" (checkedOutAt null) or "out"]
  lines,     \* [CartId -> [Product -> quantity, 0 for no line]]
  onSale,    \* products with active = true
  boot,      \* how far retireOldProducts is
  ask,       \* [Session -> what the request wants]
  at,        \* [Session -> its next statement]
  mine,      \* [Session -> the cart getOpenCart gave it]
  seen,      \* [Session -> the lines it came with]
  placed,    \* [CartId -> orders created from it]
  bought,    \* [CartId -> the lines of that order]
  lost,      \* history: carts whose request died between claim and order
  raced,     \* history: carts written to while or after a checkout read them
  late       \* history: carts a set asked for before the retirement wrote to

tables == <<cart, lines, onSale, boot>>
requests == <<ask, at, mine, seen>>
history == <<placed, bought, lost, raced, late>>
cartVars == <<tables, requests, history>>

Lines == [Product -> Quantity \cup {0}]
NoLines == [p \in Product |-> 0]
Idle == [op |-> "get"]
Checkout == [op |-> "checkout"]

\* POST of a quantity, or DELETE of the line (0). early: a retired product,
\* asked for before the retirement (history).
Writes ==
  [op : {"write"}, product : Product, quantity : Quantity \cup {0}, early : BOOLEAN]

CartInit ==
  /\ cart = [c \in CartId |-> "none"]
  /\ lines = [c \in CartId |-> NoLines]
  /\ onSale = Product
  /\ boot = "old"
  /\ ask = [s \in Session |-> Idle]
  /\ at = [s \in Session |-> "idle"]
  /\ mine = [s \in Session |-> NoCart]
  /\ seen = [s \in Session |-> NoLines]
  /\ placed = [c \in CartId |-> 0]
  /\ bought = [c \in CartId |-> NoLines]
  /\ lost = {} /\ raced = {} /\ late = {}

(***************************************************************************)
(* getOpenCart                                                             *)
(***************************************************************************)

Open == {c \in CartId : cart[c] = "open"}

\* Seeded fault: findByIds without its filter on active.
SellableOrNot(p) == TRUE

\* findByIds returns the product. It runs beside getOpenCart: a product that
\* is retired in between turns the request into a mere get, which Ask offers.
Sellable(p) == p \in onSale

AskFor(s, request) ==
  /\ at[s] = "idle"
  /\ ask' = [ask EXCEPT ![s] = request]
  /\ at' = [at EXCEPT ![s] = "find"]
  /\ UNCHANGED <<tables, mine, seen, history>>

Ask(s) ==
  \/ AskFor(s, Idle)
  \/ AskFor(s, Checkout)
  \/ \E w \in Writes :
       /\ w.quantity > 0 => Sellable(w.product)
       /\ w.early = (boot = "old" /\ w.quantity > 0 /\ w.product \in Retired)
       /\ AskFor(s, w)

\* The request is answered, one way or the other.
Reply(s) ==
  /\ at' = [at EXCEPT ![s] = "idle"]
  /\ ask' = [ask EXCEPT ![s] = Idle]
  /\ mine' = [mine EXCEPT ![s] = NoCart]
  /\ seen' = [seen EXCEPT ![s] = NoLines]

\* getOpenCart has returned c with these lines: on to what was asked for. An
\* empty cart cannot be checked out.
Obtain(s, c, found) ==
  \/ /\ \/ ask[s] = Idle
        \/ ask[s] = Checkout /\ found = NoLines
     /\ Reply(s)
  \/ /\ ask[s].op = "write"
     /\ mine' = [mine EXCEPT ![s] = c]
     /\ at' = [at EXCEPT ![s] = "write"]
     /\ UNCHANGED <<ask, seen>>
  \/ /\ ask[s] = Checkout
     /\ found # NoLines
     /\ mine' = [mine EXCEPT ![s] = c]
     /\ seen' = [seen EXCEPT ![s] = found]
     /\ at' = [at EXCEPT ![s] = "claim"]
     /\ UNCHANGED ask

\* findOpenCart finds it, at once or after losing the insert.
Find(s) ==
  /\ at[s] \in {"find", "refind"}
  /\ \E c \in Open : Obtain(s, c, lines[c])
  /\ UNCHANGED <<tables, history>>

\* There is none. After a lost insert that is an error.
FindNone(s) ==
  /\ Open = {}
  /\ \/ /\ at[s] = "find"
        /\ at' = [at EXCEPT ![s] = "insert"]
        /\ UNCHANGED <<ask, mine, seen>>
     \/ at[s] = "refind" /\ Reply(s)
  /\ UNCHANGED <<tables, history>>

\* Seeded fault: no UQ_carts_open_per_user.
InsertAlways == TRUE

\* UQ_carts_open_per_user lets the row in.
InsertAccepted == Open = {}

Insert(s) ==
  /\ at[s] = "insert"
  /\ InsertAccepted
  /\ \E c \in CartId :
       /\ cart[c] = "none"
       /\ cart' = [cart EXCEPT ![c] = "open"]
       /\ Obtain(s, c, NoLines)
  /\ UNCHANGED <<lines, onSale, boot, history>>

InsertRejected(s) ==
  /\ at[s] = "insert"
  /\ ~InsertAccepted
  /\ at' = [at EXCEPT ![s] = "refind"]
  /\ UNCHANGED <<tables, ask, mine, seen, history>>

(***************************************************************************)
(* setItem and removeItem                                                  *)
(***************************************************************************)

\* A checkout holds lines it read from c, or is done with it.
Overtaken(c) ==
  \/ cart[c] = "out"
  \/ \E t \in Session : at[t] = "claim" /\ mine[t] = c

\* Seeded fault: setItem adds to what is there.
QuantityAdded(c, w) == lines[c][w.product] + w.quantity

\* The upsert sets the quantity; removeItem leaves none.
QuantityAfter(c, w) == w.quantity

\* The upsert or the delete, by cart id: nothing asks whether the cart is
\* still open. The answer is the cart of a second getOpenCart.
WriteLine(s) ==
  /\ at[s] = "write"
  /\ LET w == ask[s]
         c == mine[s]
     IN /\ lines' = [lines EXCEPT ![c][w.product] = QuantityAfter(c, w)]
        /\ raced' = IF Overtaken(c) THEN raced \cup {c} ELSE raced
        /\ late' = IF w.early /\ boot # "old" THEN late \cup {c} ELSE late
  /\ ask' = [ask EXCEPT ![s] = Idle]
  /\ at' = [at EXCEPT ![s] = "find"]
  /\ mine' = [mine EXCEPT ![s] = NoCart]
  /\ UNCHANGED <<cart, onSale, boot, seen, placed, bought, lost>>

(***************************************************************************)
(* checkout                                                                *)
(***************************************************************************)

\* Seeded fault: the claim without its condition on checkedOutAt.
AlwaysClaimable(c) == TRUE

\* The UPDATE ... WHERE "checkedOutAt" IS NULL affects the row.
Claimable(c) == cart[c] = "open"

Claim(s) ==
  /\ at[s] = "claim"
  /\ \/ /\ Claimable(mine[s])
        /\ cart' = [cart EXCEPT ![mine[s]] = "out"]
        /\ at' = [at EXCEPT ![s] = "order"]
        /\ UNCHANGED <<ask, mine, seen>>
     \/ ~Claimable(mine[s]) /\ Reply(s) /\ UNCHANGED cart
  /\ UNCHANGED <<lines, onSale, boot, history>>

\* createOrder commits.
PlaceOrder(s) ==
  /\ at[s] = "order"
  /\ placed' = [placed EXCEPT ![mine[s]] = @ + 1]
  /\ bought' = [bought EXCEPT ![mine[s]] = seen[s]]
  /\ Reply(s)
  /\ UNCHANGED <<tables, lost, raced, late>>

\* A statement fails or the process dies. Nothing reopens a claimed cart.
RequestDies(s) ==
  /\ at[s] # "idle"
  /\ lost' = IF at[s] = "order" THEN lost \cup {mine[s]} ELSE lost
  /\ Reply(s)
  /\ UNCHANGED <<tables, placed, bought, raced, late>>

(***************************************************************************)
(* retireOldProducts                                                       *)
(***************************************************************************)

\* The first statement: active = false.
Hide ==
  /\ boot = "old"
  /\ onSale' = onSale \ Retired
  /\ boot' = "hidden"
  /\ UNCHANGED <<cart, lines, requests, history>>

\* Seeded fault: the delete reaches carts already checked out.
DropsAnyLine(c, p) == p \notin onSale

\* The rows the DELETE takes.
DropsLine(c, p) == cart[c] = "open" /\ p \notin onSale

\* The second statement.
DropLines ==
  /\ boot = "hidden"
  /\ boot' = "cleaned"
  /\ lines' = [c \in CartId |->
                 [p \in Product |-> IF DropsLine(c, p) THEN 0 ELSE lines[c][p]]]
  /\ raced' = raced \cup {c \in Open : Overtaken(c)}
  /\ UNCHANGED <<cart, onSale, requests, placed, bought, lost, late>>

\* The instance dies in between: the next boot finds nothing to switch off
\* and returns before the delete.
BootDies ==
  /\ boot = "hidden"
  /\ boot' = "skipped"
  /\ UNCHANGED <<cart, lines, onSale, requests, history>>

SessionStep(s) ==
  \/ Ask(s) \/ Find(s) \/ FindNone(s) \/ Insert(s) \/ InsertRejected(s)
  \/ WriteLine(s) \/ Claim(s) \/ PlaceOrder(s) \/ RequestDies(s)

CartNext ==
  \/ \E s \in Session : SessionStep(s)
  \/ Hide \/ DropLines \/ BootDies

CartSpec == CartInit /\ [][CartNext]_cartVars

(***************************************************************************)
(* Properties                                                              *)
(***************************************************************************)

CartTypeOK ==
  /\ cart \in [CartId -> {"none", "open", "out"}]
  /\ lines \in [CartId -> Lines]
  /\ onSale \in SUBSET Product
  /\ boot \in {"old", "hidden", "cleaned", "skipped"}
  /\ ask \in [Session -> {Idle, Checkout} \cup Writes]
  /\ at \in [Session -> {"idle", "find", "refind", "insert", "write", "claim", "order"}]
  /\ mine \in [Session -> CartId \cup {NoCart}]
  /\ seen \in [Session -> Lines]
  /\ placed \in [CartId -> Nat]
  /\ bought \in [CartId -> Lines]
  /\ lost \in SUBSET CartId /\ raced \in SUBSET CartId /\ late \in SUBSET CartId

Ordering(c) == {s \in Session : at[s] = "order" /\ mine[s] = c}

\* The user has one open cart at most, however many requests open it at once
\* (getOpenCart).
OneOpenCart == \A c, d \in Open : c = d

\* A cart is ordered at most once, and a checked-out cart without an order is
\* either being ordered by the one request that claimed it or was abandoned by
\* it (checkout).
OrderedOnce ==
  \A c \in CartId :
    /\ \A s, t \in Ordering(c) : s = t
    /\ cart[c] # "out" => placed[c] = 0 /\ Ordering(c) = {}
    /\ cart[c] = "out" /\ c \notin lost /\ Ordering(c) = {} => placed[c] = 1
    /\ Ordering(c) # {} \/ c \in lost => placed[c] = 0

\* The order has the lines of the cart it closed, unless a write to the cart
\* overlapped the checkout (setItem, checkout, retireOldProducts).
OrderMatchesCart ==
  \A c \in CartId : placed[c] > 0 => bought[c] = lines[c] \/ c \in raced

\* Once the retirement has cleaned the carts, an open cart has a retired line
\* only where a set asked for before the retirement wrote after it began.
RetiredLinesGone ==
  boot = "cleaned" =>
    \A c \in Open, p \in Retired : lines[c][p] = 0 \/ c \in late

(***************************************************************************)
(* What comments and guides say the code does, and the code does not do    *)
(***************************************************************************)

\* UI-INTEGRATION-GUIDE.md: once checked out, a cart is permanently closed.
\* setItem and removeItem write by the id of the cart they found open.
ClosedCartKept ==
  [][\A c \in CartId : cart[c] = "out" => lines'[c] = lines[c]]_cartVars

\* A request claims its cart to order a retired product the cart has.
ClaimsRetired(s) ==
  /\ at[s] = "claim" /\ at'[s] = "order"
  /\ \E p \in Retired : seen[s][p] > 0 /\ lines[mine[s]][p] > 0

\* seed.service.ts: lines for retired products can't be checked out any more,
\* and the second statement takes them out of open carts. A set that is on its
\* way puts one back, and checkout does not ask whether a product is active.
RetiredNotOrdered ==
  [][boot = "cleaned" => \A s \in Session : ~ClaimsRetired(s)]_cartVars

=============================================================================

---------------------------- MODULE AlpacaAccount ----------------------------
(***************************************************************************)
(* The shared Alpaca account, as the repository uses it: an external        *)
(* service.  Several profiles place orders for one stock through one        *)
(* account; the account knows orders and an aggregate position, and nothing *)
(* of profiles.  The prof field of an order is the ghost of who placed it,  *)
(* and canceler the ghost of who asked for its cancellation; no handler of  *)
(* the program reads either.                                                *)
(*                                                                          *)
(* kind is "entry" (a buy), "exit" (a market sell) or "protective" (a       *)
(* resting sell stop).  Order ids are positions in the sequence orders.     *)
(***************************************************************************)
EXTENDS Integers, Sequences, FiniteSets, FiniteSetsExt, SequencesExt

CONSTANTS
  Profiles,      \* the profiles that share the account
  MaxQty,        \* the largest order, in share lots
  PartialKinds,  \* the kinds of order that may fill in more than one piece
  AsyncCancel    \* may a cancel request rest in pending_cancel before it lands?

Kinds == {"entry", "exit", "protective"}
Exchange == "exchange"
Nobody == "nobody"

ASSUME AccountAssumption ==
  /\ MaxQty \in Nat \ {0}
  /\ PartialKinds \subseteq Kinds
  /\ AsyncCancel \in BOOLEAN
  /\ Exchange \notin Profiles
  /\ Nobody \notin Profiles

VARIABLE orders

Qty == 1..MaxQty
OrderStatus == {"new", "partially_filled", "pending_cancel", "filled", "canceled"}
LiveStatus == {"new", "partially_filled", "pending_cancel"}

Order == [prof : Profiles, kind : Kinds, qty : Qty, filled : 0..MaxQty,
          st : OrderStatus, canceler : Profiles \cup {Exchange, Nobody}]

OrderIds == 1..Len(orders)
NoOrder == 0
Live(o) == orders[o].st \in LiveStatus
Remaining(o) == orders[o].qty - orders[o].filled

NewOrder(p, k, q) ==
  [prof |-> p, kind |-> k, qty |-> q, filled |-> 0, st |-> "new",
   canceler |-> Nobody]

Bought(S) == MapThenSumSet(LAMBDA o : orders[o].filled,
                           {o \in S : orders[o].kind = "entry"})
Sold(S) == MapThenSumSet(LAMBDA o : orders[o].filled,
                         {o \in S : orders[o].kind # "entry"})
\* The account's position: every fill of every profile, netted.
Position == Bought(OrderIds) - Sold(OrderIds)
\* What profile p alone has bought and sold; the broker cannot see this.
OwnOrders(p) == {o \in OrderIds : orders[o].prof = p}
OwnNet(p) == Bought(OwnOrders(p)) - Sold(OwnOrders(p))

\* Working sell orders reserve shares; a sell beyond the free long is
\* rejected ("insufficient qty available").
Reserved == MapThenSumSet(Remaining,
              {o \in OrderIds : orders[o].kind # "entry" /\ Live(o)})
Accepts(k, q) == k = "entry" \/ Position - Reserved >= q

\* The orders after profile p asked to cancel the set asked and the requests
\* of the set landed took effect at once.
AfterCancel(p, asked, landed) ==
  [o \in OrderIds |->
     IF o \in asked /\ Live(o)
       THEN [orders[o] EXCEPT !.st = IF o \in landed THEN "canceled"
                                                    ELSE "pending_cancel",
                              !.canceler = p]
       ELSE orders[o]]
\* The requests of a set of live orders that may take effect at once.
Landings(asked) == IF AsyncCancel THEN SUBSET asked ELSE {asked}

\* k more shares of a working order fill.  An order that is being canceled
\* can still fill.
Fill(o, k) ==
  /\ Live(o) /\ k <= Remaining(o)
  /\ k < Remaining(o) => orders[o].kind \in PartialKinds
  /\ orders' = [orders EXCEPT ![o].filled = @ + k,
                              ![o].st = IF k = Remaining(o) THEN "filled"
                                        ELSE IF @ = "pending_cancel" THEN @
                                        ELSE "partially_filled"]

\* The exchange ends a working order: a DAY order expires, a wash trade or a
\* halt cancels it, or a cancel that was asked for lands.
Terminate(o) ==
  /\ Live(o)
  /\ orders' = [orders EXCEPT ![o].st = "canceled",
                              ![o].canceler = IF @ = Nobody THEN Exchange ELSE @]
==============================================================================

--------------------------- MODULE ProtectiveSweep ---------------------------
(***************************************************************************)
(* The protective orders of one long position, from its filled entry to    *)
(* flat books (bracket_orders.py, and check_exits of trader.py).  The      *)
(* tasks of a profile's cycle come one after the other:                    *)
(*                                                                         *)
(*   freshen -> cover, sweep, poll (check_exits) -> settle (update_fills   *)
(*   and the reconciler) -> orphans -> sync -> rest (the AI may sell)      *)
(*                                                                         *)
(* and the exchange moves between any two.  Orders fill whole and cancels  *)
(* land at once: what partial fills and late cancels do to one stop is in  *)
(* OrderLifecycle.                                                         *)
(***************************************************************************)
EXTENDS Integers, FiniteSets, SequencesExt

CONSTANTS
    Starts,         \* how a position may begin, see Init
    MaxEnds,        \* orders that end unfilled: the day ends, the broker cancels
    MaxReplaced,    \* replacements of a trailing stop by the broker
    FaultKinds, MaxFaults

SweepAssumption ==
    /\ Starts \subseteq {"stamped", "unstamped", "plain", "lingering"}
    /\ {MaxEnds, MaxReplaced, MaxFaults} \subseteq Nat
    /\ FaultKinds \subseteq {"task", "list", "parent", "limited", "refused", "row", "pointer"}

VARIABLES
    shared,     \* siblings on the account hold the symbol, too
    bracket,    \* the entry was a bracket: orders 1 (stop) and 2 (tp) are its children
    trailing,   \* use_trailing_stops
    price,      \* what this check_exits saw of the price, see Prices, or Unseen
    orders,     \* the own sell orders at the broker: kind, status, who replaced it
    lot,        \* the entry's row: open, and its three protective_*_order_id
    pending,    \* order ids of the pending_protective rows, oldest first
    listed,     \* active_protective_coverage, as this sweep read it
    exit,       \* the market exit: none, working, dead or filled
    task,       \* the next task of the cycle
    ends, replaced, errors

desk == [lot |-> lot, pending |-> pending, orders |-> orders]
books == <<lot, pending, orders>>
fixed == <<shared, bracket, trailing>>
vars == <<fixed, books, price, listed, exit, task, ends, replaced, errors>>

None == 0       \* NULL in a pointer column

\* Below the stop; up one stop width, so that a trail is armed; at the AI's profit
\* target, armed as well; fallen back through the trail.
Prices == {"low", "mid", "armed", "target", "back"}
Unseen == "unseen"

Tasks == <<"freshen", "cover", "sweep", "poll", "settle", "orphans", "sync", "rest">>

-----------------------------------------------------------------------------
(* The broker.                                                             *)

Ids == DOMAIN orders
Status(os, o) == IF o \in DOMAIN os THEN os[o].status ELSE "none"
Alive(os) == {o \in DOMAIN os : os[o].status = "new"}

\* The children of a bracket: one fills or ends, and the other is canceled.
Twin(o) == IF bracket /\ o \in {1, 2} THEN 3 - o ELSE o

CancelAll(os, S) ==
    [o \in DOMAIN os |->
        IF os[o].status = "new" /\ {o, Twin(o)} \cap S # {}
        THEN [os[o] EXCEPT !.status = "canceled"] ELSE os[o]]

\* walk_replace_chain_forward: the order that took o's place in the end.
Tip(o) ==
    LET tip[i \in Ids] == IF orders[i].status = "replaced" THEN tip[orders[i].next] ELSE i
    IN  tip[o]

\* The position's shares have been sold by an order of its own.
Sold == exit = "filled" \/ \E o \in Ids : orders[o].status = "filled"

\* The account takes one more sell order if shares of it are held and not reserved;
\* a sibling's shares are as good as the own ones.
Accepts(os) == shared \/ (~Sold /\ exit # "working" /\ Alive(os) = {})

Order(kind) == [kind |-> kind, status |-> "new", next |-> None]

Fill(o) ==
    /\ Status(orders, o) = "new"
    /\ orders' = [CancelAll(orders, {Twin(o)}) EXCEPT ![o].status = "filled"]
    /\ UNCHANGED <<fixed, lot, pending, price, listed, exit, task, ends, replaced, errors>>

\* The day ends a DAY order, or the broker cancels.
Terminate(o) ==
    /\ Status(orders, o) = "new" /\ ends < MaxEnds
    /\ orders' = CancelAll(orders, {o})
    /\ ends' = ends + 1
    /\ UNCHANGED <<fixed, lot, pending, price, listed, exit, task, replaced, errors>>

\* The broker moves a trailing stop: a new order takes the place of the old one.
Replace(o) ==
    /\ Status(orders, o) = "new" /\ orders[o].kind = "trail" /\ replaced < MaxReplaced
    /\ LET new == Len(orders) + 1
           old == [kind |-> "trail", status |-> "replaced", next |-> new]
       IN  orders' = Append([orders EXCEPT ![o] = old], Order("trail"))
    /\ replaced' = replaced + 1
    /\ UNCHANGED <<fixed, lot, pending, price, listed, exit, task, ends, errors>>

FillExit ==
    /\ exit = "working" /\ exit' = "filled"
    /\ UNCHANGED <<fixed, books, price, listed, task, ends, replaced, errors>>

ExitDies ==
    /\ exit = "working" /\ ends < MaxEnds
    /\ exit' = "dead" /\ ends' = ends + 1
    /\ UNCHANGED <<fixed, books, price, listed, task, replaced, errors>>

-----------------------------------------------------------------------------
(* The journal.                                                            *)

Columns(l) == {l.stop, l.tp, l.trail} \ {None}
Cleared(l) == [l EXCEPT !.stop = None, !.tp = None, !.trail = None]

\* get_virtual_positions: an exit under way counts as sold.
Positioned == lot.open /\ exit = "none"

\* Every own order id the journal has: in a pointer or in a row.
Journaled == Columns(lot) \cup ToSet(pending)

\* The rows p without those of S, in their order.
Without(p, S) ==
    LET kept[n \in 0..Len(p)] == IF n = 0 THEN <<>>
                                 ELSE IF p[n] \in S THEN kept[n - 1]
                                 ELSE Append(kept[n - 1], p[n])
    IN  kept[Len(p)]

(* A bracket whose children were known when the entry was journaled, or not  *)
(* yet; a plain entry; one that still has the take-profit of an older sweep. *)
Init ==
    /\ shared \in BOOLEAN /\ trailing \in BOOLEAN /\ price = Unseen
    /\ \E start \in Starts :
         LET children == IF start \in {"stamped", "unstamped"} THEN <<1, 2>>
                         ELSE IF start = "lingering" THEN <<1>> ELSE <<>>
         IN  /\ bracket = (start \in {"stamped", "unstamped"})
             /\ orders = CASE bracket -> <<Order("stop"), Order("tp")>>
                           [] start = "lingering" -> <<Order("tp")>>
                           [] OTHER -> <<>>
             /\ pending = IF start = "unstamped" THEN <<>> ELSE children
             /\ lot = [open |-> TRUE, trail |-> None,
                       stop |-> IF start = "stamped" THEN 1 ELSE None,
                       tp |-> CASE start = "stamped" -> 2 [] start = "lingering" -> 1
                                [] OTHER -> None]
    /\ listed = {} /\ exit = "none" /\ task = "freshen"
    /\ ends = 0 /\ replaced = 0 /\ errors = 0

-----------------------------------------------------------------------------
(* The cycle.                                                              *)

Fault(f) == \/ f = "none" /\ UNCHANGED errors
            \/ f \in FaultKinds /\ errors < MaxFaults /\ errors' = errors + 1

After(t) == Tasks[CHOOSE i \in 2..Len(Tasks) : Tasks[i - 1] = t]
Run(t) == task = t /\ task' = After(t)
Become(d) == \E new \in {d} : lot' = new.lot /\ pending' = new.pending /\ orders' = new.orders

\* run_task: what a task raises is logged, and the next one follows.
TaskRaises ==
    /\ task \in {"freshen", "cover", "settle", "orphans", "sync"}
    /\ "task" \in FaultKinds /\ Fault("task")
    /\ task' = IF task = "cover" THEN "settle" ELSE After(task)
    /\ UNCHANGED <<fixed, books, price, listed, exit, ends, replaced>>

\* Own protective orders with fills (_detect_protective_fill).
Fired == {o \in Journaled : Status(orders, Tip(o)) = "filled"}

\* The reconciler closes the entry and the row of what fired.
Reconciled(l, p) ==
    IF l.open /\ Fired # {}
    THEN [lot |-> [l EXCEPT !.open = FALSE], pending |-> Without(p, Fired), orders |-> orders]
    ELSE [lot |-> l, pending |-> p, orders |-> orders]

\* An exit row whose order ended unfilled is voided.
ExitSettled == IF exit = "dead" THEN "none" ELSE exit

\* reconcile_and_stamp, the first task.
Freshen ==
    /\ Run("freshen")
    /\ Become(Reconciled(lot, pending))
    /\ exit' = ExitSettled
    /\ UNCHANGED <<fixed, price, listed, ends, replaced, errors>>

\* check_exits reads the positions and their prices, and lists the open orders of
\* the account once; when the list fails it is empty.
Snapshot ==
    /\ Positioned
    /\ Run("cover")
    /\ \E fault \in FaultKinds \cup {"none"} :
         /\ fault \in {"none", "list"} /\ Fault(fault)
         /\ listed' = IF fault = "list" THEN {}
                      ELSE {o \in Alive(orders) : orders[o].kind # "tp"}
    /\ price' \in Prices
    /\ UNCHANGED <<fixed, books, exit, ends, replaced>>

\* Nothing is held: check_exits returns.
NoPosition ==
    /\ ~Positioned /\ task = "cover"
    /\ task' = "settle"
    /\ UNCHANGED <<fixed, books, price, listed, exit, ends, replaced, errors>>

\* _heal_bracket_child_tracking: a child that is not canceled gets its pointer and
\* its row, the stop first.
Healed(d) ==
    LET known == {o \in {1, 2} : orders[o].status # "canceled"}
        Stamp(old, o) == IF old = None /\ o \in known THEN o ELSE old
    IN  [lot |-> [d.lot EXCEPT !.stop = Stamp(@, 1), !.tp = Stamp(@, 2)],
         pending |-> d.pending \o Without(<<1, 2>>, {1, 2} \ (known \ ToSet(d.pending))),
         orders |-> d.orders]

\* LiveChild as it was: a bracket protects its position whatever became of it.
AnyBracket == TRUE

\* A child of the bracket is alive.
LiveChild == \E o \in {1, 2} : orders[o].status = "new"

\* A take-profit the entry's row named when it was read is canceled and forgotten.
Sunset(d) ==
    IF lot.tp = None THEN d
    ELSE [lot |-> [d.lot EXCEPT !.tp = None], pending |-> d.pending,
          orders |-> CancelAll(d.orders, {lot.tp})]

\* The newest pending row: while its order is alive, replaced or filled, nothing is
\* placed (NeverInForce: the broker's list alone decides); if it is canceled, the row
\* is marked so and the sweep goes on.
Newest(d) == IF d.pending = <<>> THEN None ELSE Last(d.pending)
NeverInForce(d) == FALSE
InForce(d) == Status(d.orders, Newest(d)) \in {"new", "replaced", "filled"}
Marked(d) == [d EXCEPT !.pending = Without(@, {Newest(d)})]

\* An own order in the list of this sweep: the position is covered, and a pointer
\* that names no order of the list is healed.
Cover(d) == listed \cap Columns(d.lot)
Relinked(d) ==
    LET recorded == IF lot.trail # None THEN lot.trail ELSE lot.stop
        link == CHOOSE o \in Cover(d) : \A other \in Cover(d) : o <= other
    IN  IF recorded \in Cover(d) THEN d
        ELSE IF \E o \in Cover(d) : orders[o].kind = "trail"
        THEN [d EXCEPT !.lot = [d.lot EXCEPT !.trail = link]]
        ELSE [d EXCEPT !.lot = [d.lot EXCEPT !.stop = link]]

\* The broker order, its row and its pointer, one after the other: a row that fails
\* takes the order back, a pointer that fails does not.
Place(d, kind, fault) ==
    LET o == Len(d.orders) + 1 IN
    IF ~Accepts(d.orders) \/ fault = "refused" THEN d
    ELSE IF fault = "row"
    THEN [d EXCEPT !.orders = Append(@, [Order(kind) EXCEPT !.status = "canceled"])]
    ELSE [lot |-> IF fault = "pointer" THEN d.lot ELSE [d.lot EXCEPT ![kind] = o],
          pending |-> Append(d.pending, o),
          orders |-> Append(d.orders, Order(kind))]

\* _cancel_stale_other_orders: what the row named is canceled, its column cleared.
Freed(d, kind) ==
    [lot |-> [d.lot EXCEPT ![kind] = None], pending |-> d.pending,
     orders |-> CancelAll(d.orders, {lot[kind]})]

Working(d, kind) == Status(d.orders, lot[kind]) = "new"
Armed == price \in {"armed", "target"}

\* One stop for the position: static, or trailing once the gain has armed it.
Protected(d, fault) ==
    IF trailing /\ Working(d, "trail") THEN d
    ELSE IF trailing /\ Armed THEN Place(Freed(d, "stop"), "trail", fault)
    ELSE IF Working(d, "stop") THEN d
    ELSE Place(IF trailing THEN d ELSE Freed(d, "trail"), "stop", fault)

(* ensure_protective_stops for the position: defer to a bracket with a live  *)
(* child, once it is tracked; else drain the take-profit, and place a stop   *)
(* unless the journal or the broker's list shows one, or the broker has      *)
(* answered 429.  A parent that cannot be read is taken for no bracket.      *)
Sweep ==
    /\ Run("sweep")
    /\ \E fault \in (FaultKinds \ {"task", "list"}) \cup {"none"} :
         /\ Fault(fault)
         /\ LET child == bracket /\ fault # "parent"
                seen == IF child THEN Healed(desk) ELSE desk
                drained == Sunset(seen)
                marked == Marked(drained)
            IN  Become(IF child /\ LiveChild THEN seen
                       ELSE IF InForce(drained) THEN drained
                       ELSE IF Cover(marked) # {} THEN Relinked(marked)
                       ELSE IF fault = "limited" THEN marked
                       ELSE Protected(marked, fault))
    /\ listed' = {}
    /\ UNCHANGED <<fixed, price, exit, ends, replaced>>

(* cancel_for_symbol, then the market sell: what the pointers name is        *)
(* canceled, and they are cleared if all of it is confirmed; one that has    *)
(* filled aborts the sell.                                                   *)
Exit(os) ==
    LET after == CancelAll(os, Columns(lot))
        Stands(status) == \E o \in Columns(lot) : after[o].status = status
    IN  \E fault \in FaultKinds \cup {"none"} :
          /\ fault \in {"none", "refused"} /\ Fault(fault)
          /\ orders' = after
          /\ lot' = IF Stands("filled") \/ Stands("replaced") THEN lot ELSE Cleared(lot)
          /\ exit' = IF Stands("filled") \/ ~Accepts(after) \/ fault = "refused"
                     THEN exit ELSE "working"
          /\ UNCHANGED pending

\* What the poll makes of the snapshot: the stop, the target, or the trail unless the
\* broker has one at work.
Triggered ==
    \/ price \in {"low", "target"}
    \/ trailing /\ price = "back" /\ Status(orders, lot.trail) # "new"

\* has_live_bracket_protection: any stop or take-profit that is alive.
Deferred == \E o \in {lot.stop, lot.tp} : Status(orders, o) \in {"new", "replaced"}

\* The poll of check_exits and _process_exit_trigger, which cancels the own orders
\* among the open ones before cancel_for_symbol does.
Poll ==
    /\ Run("poll")
    /\ \/ Triggered /\ ~Deferred /\ Exit(CancelAll(orders, Journaled))
       \/ ~(Triggered /\ ~Deferred) /\ UNCHANGED <<books, exit, errors>>
    /\ price' = Unseen
    /\ UNCHANGED <<fixed, listed, ends, replaced>>

\* _task_update_fills, then the reconciler: rows whose orders have ended end, and an
\* exit or a protective that filled closes the entry.
Settle ==
    /\ Run("settle")
    /\ LET over == {o \in ToSet(pending) : Status(orders, Tip(o)) \in {"filled", "canceled"}}
           closed == exit = "filled" \/ ToSet(pending) \cap Fired # {}
       IN  Become(Reconciled([lot EXCEPT !.open = @ /\ ~closed],
                             Without(pending, over)))
    /\ exit' = ExitSettled
    /\ UNCHANGED <<fixed, price, listed, ends, replaced, errors>>

(* cancel_orphaned_protective_orders: the pointers of a closed entry, then   *)
(* the rows of a flat symbol, are canceled, and forgotten once the broker    *)
(* has confirmed it.                                                         *)
CancelOrphans ==
    /\ Run("orphans")
    /\ IF lot.open THEN UNCHANGED books
       ELSE LET after == CancelAll(orders, Journaled)
                Kept(o) == IF Status(after, o) = "canceled" THEN None ELSE o
            IN  Become([orders |-> after,
                        lot |-> [lot EXCEPT !.stop = Kept(@), !.tp = Kept(@), !.trail = Kept(@)],
                        pending |-> Without(pending, {o \in ToSet(pending) : Kept(o) = None})])
    /\ UNCHANGED <<fixed, price, listed, exit, ends, replaced, errors>>

\* sync_pending_protective_order_ids: a row, and the pointer that names the same
\* order, move to the end of the chain unless it has filled; dead rows end.
SyncPending ==
    /\ Run("sync")
    /\ LET Moved(o) == IF Status(orders, o) = "replaced" /\ o \in ToSet(pending)
                          /\ orders[Tip(o)].status # "filled"
                       THEN Tip(o) ELSE o
           dead == {o \in ToSet(pending) : orders[o].status = "canceled"}
       IN  /\ pending' = Without([i \in DOMAIN pending |-> Moved(pending[i])], dead)
           /\ lot' = [lot EXCEPT !.trail = Moved(@)]
    /\ UNCHANGED <<fixed, orders, price, listed, exit, ends, replaced, errors>>

\* SELL of execute_trade: the pointers' orders are canceled, no others.
AiSell ==
    /\ task = "rest" /\ Positioned
    /\ Exit(orders)
    /\ UNCHANGED <<fixed, price, listed, task, ends, replaced>>

NewCycle ==
    /\ task = "rest" /\ task' = "freshen"
    /\ UNCHANGED <<fixed, books, price, listed, exit, ends, replaced, errors>>

Cycle ==
    \/ Freshen \/ Snapshot \/ NoPosition \/ Sweep \/ Poll \/ Settle
    \/ CancelOrphans \/ SyncPending \/ NewCycle

Next ==
    \/ Cycle \/ TaskRaises \/ AiSell \/ FillExit \/ ExitDies
    \/ \E o \in Ids : Fill(o) \/ Terminate(o) \/ Replace(o)

\* The cycle goes on; the exchange, the AI and the faults need not move.
Fairness == WF_vars(Cycle)

Spec == Init /\ [][Next]_vars
FairSpec == Spec /\ Fairness

-----------------------------------------------------------------------------
TypeOK ==
    /\ {shared, bracket, trailing, lot.open} \subseteq BOOLEAN /\ price \in Prices \cup {Unseen}
    /\ \A o \in Ids : orders[o].status = "replaced" <=> orders[o].next \in (o + 1)..Len(orders)
    /\ Journaled \cup listed \subseteq Ids
    /\ IsInjective(pending)
    /\ exit \in {"none", "working", "dead", "filled"} /\ task \in ToSet(Tasks)
    /\ ends <= MaxEnds /\ replaced <= MaxReplaced /\ errors <= MaxFaults

Stops == {o \in Alive(orders) : orders[o].kind # "tp"}

(* One sell order at a time reserves the position's shares; the two children *)
(* of a bracket reserve them once (ensure_protective_stops, "ONE sell-side   *)
(* order per position"; trade_pipeline.py, where brackets are placed).       *)
Reservations == {{o, Twin(o)} : o \in Alive(orders)}
OneReservation ==
    Cardinality(Reservations) + (IF exit = "working" THEN 1 ELSE 0) <= 1

(* The sweep never leaves a position without a stop that had one: the stop   *)
(* it cancels is never the last ("the downstream coverage / pending dedup",  *)
(* _cancel_stale_other_orders before a placement that may fail).             *)
NeverUncovered == [][Sweep => (Stops # {} => \E o \in DOMAIN orders' :
                        orders'[o].status = "new" /\ orders'[o].kind # "tp")]_vars

(* A position that lost its protection has a stop again, is being sold, or   *)
(* is flat, whatever task or write failed (the naked-bracket fix).           *)
NakedIsBrief == Positioned /\ Stops = {} ~> Stops # {} \/ ~Positioned

(* Nothing keeps resting at the broker for a position that is closed         *)
(* (cancel_orphaned_protective_orders).                                      *)
RestingOrdersGo == ~lot.open /\ Alive(orders) # {} ~> Alive(orders) = {}

(* A price that stays at the AI's profit target gets the position sold, when *)
(* no take-profit order rests at the broker: "the polling TP check ... still *)
(* fires at threshold breach" (bracket_orders.py:929).                       *)
AtTarget == /\ Positioned /\ Stops = Alive(orders)
            /\ task = "poll" => price = "target"
TargetIsTaken == ~<>[]AtTarget
=============================================================================

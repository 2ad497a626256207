--------------------------- MODULE OrderLifecycle ---------------------------
(***************************************************************************)
(* The life of a long stock order in QuantOpsAI: placed through the guarded *)
(* API, journaled, filled or canceled by the broker at any moment, and      *)
(* discovered later by the tasks of the profile's cycle (freshen,           *)
(* update_fills, reconcile, protective sweep, exit polling).  Several       *)
(* profiles do this at once, through one account (AlpacaAccount), each with *)
(* a journal of its own (JournalBook).                                      *)
(*                                                                          *)
(* A profile's cycle is one thread, so its tasks do not overlap, but        *)
(* run_task swallows exceptions: any task may be skipped, and the profiles  *)
(* run in parallel.  Here an idle profile may run any task at any time.     *)
(* A task is one step, except an exit, which cancels its protective orders, *)
(* submits and journals in three steps, and an entry, which submits and     *)
(* journals in two.                                                         *)
(***************************************************************************)
EXTENDS AlpacaAccount, JournalBook

CONSTANTS
  Holding,     \* shares each profile holds at first, bought and reconciled
  EntryBudget, \* bound: entry orders a profile may place
  ExitBudget,  \* bound: exit orders a profile may place
  StopBudget,  \* bound: protective orders a profile may place
  Workers,     \* bound: the profiles whose cycles run; the others only hold
  LostWrites   \* the kinds of order whose journal write may be lost

ASSUME LifecycleAssumption ==
  /\ IsFiniteSet(Profiles)
  /\ Holding \in [Profiles -> 0..MaxQty]
  /\ EntryBudget \in Nat /\ ExitBudget \in Nat /\ StopBudget \in Nat
  /\ Workers \subseteq Profiles
  /\ LostWrites \subseteq Kinds

VARIABLES
  trades,     \* trades[p]: the rows of the profile's journal
  submitted,  \* submitted[p]: order ids of its submitted_orders table
  fresh,      \* fresh[p]: the symbol is stamped at the live cycle epoch
  flight,     \* flight[p]: where the profile's thread is inside an order
  halted      \* halted[p]: why its new entries are halted, if they are

vars == <<orders, trades, submitted, fresh, flight, halted>>

HaltReason == {"none", "safety_net", "exit_breach"}
Idle == [pc |-> "idle", n |-> 0]
Cleared(path, q) == [pc |-> path, n |-> q]  \* stops canceled, q to sell
Sent(o) == [pc |-> "sent", n |-> o]         \* order o accepted, no row yet
IdleAt(p) == flight[p].pc = "idle"

SideOf(kind) == IF kind = "entry" THEN "buy" ELSE "sell"
Placed(p, k) == Cardinality({o \in OwnOrders(p) : orders[o].kind = k})

\* own_broker_order_ids: every id the journal names, as an order or a pointer.
OwnIds(p) == OidsOf(trades[p]) \cup Pointers(trades[p])
\* own_protective_order_ids; a row keeps its PROTECTIVE signal for ever.
ProtectiveIds(p) ==
  Pointers(trades[p]) \cup
  {trades[p][i].oid : i \in {j \in DOMAIN trades[p] :
                               orders[trades[p][j].oid].kind = "protective"}}

Held(o) == orders[o].filled > 0
Canceled(o) == orders[o].st = "canceled"
Filled(o) == orders[o].st = "filled"
Dead(o) == Canceled(o) \/ Filled(o)
Resting(o) == orders[o].st = "new"

-----------------------------------------------------------------------------
(* The initial state: each profile holds its shares in one reconciled row.  *)

Holders == {p \in Profiles : Holding[p] > 0}
InSomeOrder(S) == Bijection(1..Cardinality(S), S)

Init ==
  \E s \in InSomeOrder(Holders) :
    /\ orders = [i \in DOMAIN s |->
                   [NewOrder(s[i], "entry", Holding[s[i]])
                      EXCEPT !.filled = Holding[s[i]], !.st = "filled"]]
    /\ trades = [p \in Profiles |->
                   IF p \in Holders
                     THEN <<Row(CHOOSE i \in DOMAIN s : s[i] = p, "buy",
                                Holding[p], "open", TRUE)>>
                     ELSE <<>>]
    /\ submitted = [p \in Profiles |-> {}]
    /\ fresh = [p \in Profiles |-> FALSE]
    /\ flight = [p \in Profiles |-> Idle]
    /\ halted = [p \in Profiles |-> "none"]

-----------------------------------------------------------------------------
(* Submitting and journaling.                                               *)

\* The guarded door sends the order and records its id before it returns.
Submit(p, k, q) ==
  /\ Accepts(k, q)
  /\ orders' = Append(orders, NewOrder(p, k, q))
  /\ submitted' = [submitted EXCEPT ![p] = @ \cup {Len(orders) + 1}]
  /\ flight' = [flight EXCEPT ![p] = Sent(Len(orders) + 1)]

\* BUY: only when not halted and when the symbol is not in the profile's
\* positions.
SubmitBuy(p, q) ==
  /\ IdleAt(p) /\ halted[p] = "none"
  /\ BookQty(trades[p]) = 0
  /\ Placed(p, "entry") < EntryBudget
  /\ Submit(p, "entry", q)
  /\ UNCHANGED <<trades, fresh, halted>>

\* The caller journals what it sent: an entry 'open', an exit 'pending_fill'.
LogTrade(p) ==
  /\ flight[p].pc = "sent"
  /\ LET o == flight[p].n
         st == IF orders[o].kind = "entry" THEN "open" ELSE "pending_fill"
     IN trades' = [trades EXCEPT ![p] =
                     Append(@, Row(o, SideOf(orders[o].kind), orders[o].qty,
                                   st, FALSE))]
  /\ flight' = [flight EXCEPT ![p] = Idle]
  /\ UNCHANGED <<orders, submitted, fresh, halted>>

\* The write fails or the process dies before it.  The polled exit that can
\* journal neither way halts its profile; the AI's sell does not.
LoseJournalWrite(p) ==
  /\ flight[p].pc = "sent"
  /\ LET k == orders[flight[p].n].kind
     IN /\ k \in LostWrites
        /\ \E h \in {halted[p]} \cup (IF k = "exit" THEN {"exit_breach"} ELSE {}) :
             halted' = [halted EXCEPT ![p] = h]
  /\ flight' = [flight EXCEPT ![p] = Idle]
  /\ UNCHANGED <<orders, trades, submitted, fresh>>

-----------------------------------------------------------------------------
(* Exits.                                                                   *)

\* The broker must not hold less than the profile's own book, unless the
\* books of the account add up to what it holds.
BooksTotal == MapThenSumSet(LAMBDA p : BookQty(trades[p]), Profiles)
NoDrift(p) == Position >= BookQty(trades[p]) \/ BooksTotal = Position

\* Mutant: the status filter of the stops to cancel is the wrong one.
StopsOfClosedRows(p) == PointersOf(trades[p], "closed")

\* cancel_for_symbol: the protective orders the open entries point to.  Fill
\* evidence on any of them aborts the exit and keeps that pointer; a cancel
\* the broker has not confirmed keeps the pointer and aborts nothing.
StopsToCancel(p) == PointersOf(trades[p], "open")
ClearPointers(p, landed) ==
  [i \in DOMAIN trades[p] |->
     LET r == trades[p][i]
     IN IF r.st = "open" /\ r.stop # 0 /\ ~Held(r.stop)
           /\ (r.stop \in landed \/ Dead(r.stop))
          THEN [r EXCEPT !.stop = 0] ELSE r]

\* Cancel the orders of asked, of which the live and unfilled ones may land;
\* then bookkeep the pointers and, without fill evidence, go on to sell q.
CancelThenSell(p, path, asked, q) ==
  \E landed \in Landings({o \in asked : Live(o) /\ ~Held(o)}) :
    /\ orders' = AfterCancel(p, {o \in asked : ~Held(o)}, landed)
    /\ trades' = [trades EXCEPT ![p] = ClearPointers(p, landed)]
    /\ flight' = [flight EXCEPT ![p] =
                    IF \E o \in StopsToCancel(p) : Held(o) THEN Idle
                    ELSE Cleared(path, q)]
    /\ UNCHANGED <<submitted, fresh, halted>>

\* Mutant: every working order the account lists for the symbol.
AccountWorking(p) == {o \in OrderIds : Live(o)}

\* The exit poll sells the whole virtual position.  It first cancels the
\* profile's own working orders, and gives up at one that is filling.
OwnWorking(p) == {o \in OwnIds(p) : Live(o)}
PollExit(p) ==
  /\ IdleAt(p)
  /\ Placed(p, "exit") < ExitBudget
  /\ BookQty(trades[p]) \in Qty
  /\ Position > 0
  /\ \A o \in OwnWorking(p) : ~Held(o)
  /\ CancelThenSell(p, "poll", OwnWorking(p) \cup StopsToCancel(p), BookQty(trades[p]))

\* One of the profile's orders is filling: the poll cancels those listed
\* before it and defers the exit.
PollExitDeferred(p) ==
  /\ IdleAt(p)
  /\ Placed(p, "exit") < ExitBudget
  /\ BookQty(trades[p]) \in Qty
  /\ Position > 0
  /\ \E o \in OwnWorking(p) : Held(o)
  /\ \E asked \in SUBSET {o \in OwnWorking(p) : ~Held(o)} :
       \E landed \in Landings(asked) :
         /\ asked # {}
         /\ orders' = AfterCancel(p, asked, landed)
  /\ UNCHANGED <<trades, submitted, fresh, flight, halted>>

\* The AI's sell checks the quantity and the drift before it cancels.
AiSell(p, q) ==
  /\ IdleAt(p)
  /\ Placed(p, "exit") < ExitBudget
  /\ q <= BookQty(trades[p])
  /\ NoDrift(p)
  /\ CancelThenSell(p, "ai", StopsToCancel(p), q)

\* The door: the symbol must be fresh at this epoch and the profile's own
\* journal must hold what it sells.  The polled exit checks the drift here.
ExitSubmit(p) ==
  /\ flight[p].pc \in {"poll", "ai"}
  /\ fresh[p]
  /\ flight[p].n <= BookQty(trades[p])
  /\ flight[p].pc = "poll" => NoDrift(p)
  /\ Submit(p, "exit", flight[p].n)
  /\ UNCHANGED <<trades, fresh, halted>>

\* The guard, the door or the broker refuses, or the process dies first.
ExitAbandoned(p) ==
  /\ flight[p].pc \in {"poll", "ai"}
  /\ flight' = [flight EXCEPT ![p] = Idle]
  /\ UNCHANGED <<orders, trades, submitted, fresh, halted>>

-----------------------------------------------------------------------------
(* Freshen: rebuild what was lost, reconcile, stamp.                        *)

\* Mutant: the ledger is not compared with the rows.
WholeLedger(p) == submitted[p]

\* _reconstruct_unjournaled_submits.  A recorded id without a row: a canceled
\* order is dropped, a filled buy is journaled from the broker (unless the
\* book is short, when the buy may be a cover), the rest waits.
Unjournaled(p) == submitted[p] \ OidsOf(trades[p])
\* Mutants of ToRebuild: what the account filled, whoever ordered it; the
\* sells instead of the buys.
AccountFills(p) == {o \in OrderIds \ OidsOf(trades[p]) : Filled(o) /\ orders[o].kind = "entry"}
UnjournaledSells(p) == {o \in Unjournaled(p) : Filled(o) /\ orders[o].kind = "exit"}

ToRebuild(p) ==
  IF BookQty(trades[p]) < 0 THEN {}
  ELSE {o \in Unjournaled(p) : Filled(o) /\ orders[o].kind = "entry"}
\* The SELECT states no order.
RebuildOrders(p) == InSomeOrder(ToRebuild(p))
Rebuilt(p, s) ==
  trades[p] \o [i \in DOMAIN s |-> Row(s[i], "buy", orders[s[i]].filled, "open", TRUE)]
\* Mutant: what this pass could not recover is pruned with the rest.
PrunedAtOnce(p, rows) == {}

\* prune_journaled_submitted_orders drops what has a row by now.
Unrecovered(p, rows) == {o \in submitted[p] : o \notin OidsOf(rows) /\ ~Canceled(o)}

(* reconcile_with_ctx over the rows of one profile; used is the set of sell *)
(* ids it must not take as evidence.                                        *)

\* Mutant: canceled is taken for unfilled.
DeadSells(rows) ==
  {i \in RowsOf(rows, "sell", {"closed", "pending_fill"}) : Canceled(rows[i].oid)}

\* Journaled sells whose order ended unfilled, or short of its quantity.
PhantomSells(rows) ==
  {i \in RowsOf(rows, "sell", {"closed", "pending_fill"}) :
     Canceled(rows[i].oid) /\ ~Held(rows[i].oid)}
ShortSells(rows) ==
  {i \in RowsOf(rows, "sell", {"closed", "pending_fill"}) :
     Canceled(rows[i].oid) /\ Held(rows[i].oid)
       /\ orders[rows[i].oid].filled < rows[i].qty}

OpenEntries(rows) == RowsOf(rows, "buy", {"open"})
PartialEntry(rows, i) ==
  /\ i \in OpenEntries(rows)
  /\ Canceled(rows[i].oid) /\ Held(rows[i].oid)
  /\ orders[rows[i].oid].filled < rows[i].qty

\* _detect_protective_fill: the first own protective order that ended with
\* fills no larger than the row, the row's pointer before the own sell rows
\* journaled since.
Evidence(rows, i, used) ==
  LET Fits(o) == o # NoOrder /\ o \notin used /\ Dead(o) /\ Held(o)
                   /\ orders[o].filled <= rows[i].qty
      later == {rows[k].oid : k \in {j \in RowsOf(rows, "sell",
                                  {"pending_protective", "canceled"}) : j >= i}}
      fits == {o \in later : Fits(o)}
  IN IF Fits(rows[i].stop) THEN rows[i].stop
     ELSE IF fits # {} THEN Min(fits) ELSE NoOrder
\* Evidence that a live row books already is not claimed again.
Booked(rows, o) ==
  \E k \in DOMAIN rows : /\ rows[k].oid = o
                         /\ rows[k].st \notin {"pending_protective", "canceled"}
Claim(rows, i, used) ==
  LET o == Evidence(rows, i, used)
  IN IF i \notin OpenEntries(rows) \/ PartialEntry(rows, i) \/ Booked(rows, o)
       THEN NoOrder ELSE o
\* The open rows claim in id order, each what no earlier row claimed.
Used(rows, used) ==
  LET after[n \in 0..Len(rows)] ==
        IF n = 0 THEN used
        ELSE after[n - 1] \cup ({Claim(rows, n, after[n - 1])} \ {NoOrder})
  IN after
ClaimOf(rows, used, i) == Claim(rows, i, Used(rows, used)[i - 1])
Claimed(rows, used) == {ClaimOf(rows, used, i) : i \in DOMAIN rows} \ {NoOrder}

\* Own sells that account for a flat broker position: the book nets to zero,
\* every sell it credits is filled, and at least one share was sold.
OwnExitsExplain(rows) ==
  LET oldest == Min(OpenEntries(rows))
      credited == RowsOf(rows, "sell", {"open", "pending_fill"}) \cup
                  {i \in RowsOf(rows, "sell", {"closed"}) : i >= oldest}
      uncredited == RowsOf(rows, "sell", {"pending_protective"}) \cup
                    {i \in RowsOf(rows, "sell", {"canceled"}) : i >= oldest}
      Fills(S) == MapThenSumSet(LAMBDA i : orders[rows[i].oid].filled, S)
  IN /\ \A i \in credited : orders[rows[i].oid].filled >= rows[i].qty
     /\ BookQty(rows) - Fills(uncredited) = 0
     /\ Fills(credited \cup uncredited) > 0
DecompositionHolds(p, rows) ==
  BooksTotal - BookQty(trades[p]) + BookQty(rows) = Position

\* Open rows without evidence while the account is flat.
Phantoms(rows, used) ==
  IF Position > 0 THEN {}
  ELSE {i \in OpenEntries(rows) :
          /\ ~PartialEntry(rows, i)
          /\ Evidence(rows, i, Used(rows, used)[i - 1]) = NoOrder}
NeverFilled(rows, used) ==
  {i \in Phantoms(rows, used) : Canceled(rows[i].oid) /\ ~Held(rows[i].oid)}
OrphanCloses(p, rows, used) ==
  {i \in Phantoms(rows, used) :
     Filled(rows[i].oid) /\ ~OwnExitsExplain(rows) /\ ~DecompositionHolds(p, rows)}

\* Undoing a sell reopens the latest closed entry: any quantity for a short
\* sell, the same quantity for a phantom one.
Latest(S) == IF S = {} THEN {} ELSE {Max(S)}
Reopened(rows) ==
  LET closed == RowsOf(rows, "buy", {"closed"})
      after[n \in 0..Len(rows)] ==
        IF n = 0 THEN {}
        ELSE IF n \in ShortSells(rows)
          THEN after[n - 1] \cup Latest(closed \ after[n - 1])
          ELSE after[n - 1]
      then[n \in 0..Len(rows)] ==
        IF n = 0 THEN after[Len(rows)]
        ELSE IF n \in PhantomSells(rows)
          THEN then[n - 1] \cup
               Latest({i \in closed \ then[n - 1] : rows[i].qty = rows[n].qty})
          ELSE then[n - 1]
  IN then[Len(rows)]

\* Mutant: the broker's signed quantity is journaled as it comes.
SignedBookFill(r) ==
  [r EXCEPT !.qty = IF r.side = "sell" THEN -orders[r.oid].filled
                    ELSE orders[r.oid].filled,
            !.priced = TRUE]

BookFill(r) == [r EXCEPT !.qty = orders[r.oid].filled, !.priced = TRUE]
Reconciled(rows, used) ==
  [i \in DOMAIN rows |->
     LET r == rows[i] IN
     IF i \in ShortSells(rows) \/ PartialEntry(rows, i) THEN BookFill(r)
     ELSE IF i \in PhantomSells(rows) \cup NeverFilled(rows, used)
       THEN [r EXCEPT !.st = "canceled"]
     ELSE IF i \in Reopened(rows) THEN [r EXCEPT !.st = "open"]
     ELSE IF r.oid \in Claimed(rows, used)
               /\ r.st \in {"pending_protective", "canceled"}
       THEN [BookFill(r) EXCEPT !.st = "closed"]
     ELSE IF ClaimOf(rows, used, i) # NoOrder
               /\ orders[ClaimOf(rows, used, i)].filled = r.qty
       THEN [r EXCEPT !.st = "closed"]
     ELSE r]
\* Claimed fills without a row would have to be synthesized; so would the
\* closes nothing explains.  Either halts the profile, whatever halted it
\* before; a pass without either lifts the halt it set itself.
NeedsSynthesis(p, rows, used) ==
  Claimed(rows, used) \ OidsOf(rows) # {} \/ OrphanCloses(p, rows, used) # {}
HaltAfter(p, rows, used) ==
  IF NeedsSynthesis(p, rows, used) THEN "safety_net"
  ELSE IF halted[p] = "safety_net" THEN "none" ELSE halted[p]

\* reconcile_and_stamp: first task of the cycle, and what the door runs for a
\* stale symbol in the middle of an exit.
Freshen(p) ==
  /\ flight[p].pc # "sent"
  /\ ~fresh[p]
  /\ \E s \in RebuildOrders(p) :
       LET rows == Rebuilt(p, s) IN
       /\ trades' = [trades EXCEPT ![p] = Reconciled(rows, {})]
       /\ submitted' = [submitted EXCEPT ![p] = Unrecovered(p, rows)]
       /\ halted' = [halted EXCEPT ![p] = HaltAfter(p, rows, {})]
  /\ fresh' = [fresh EXCEPT ![p] = TRUE]
  /\ UNCHANGED <<orders, flight>>

\* The reconcile task of the cycle.  It excludes every sell id any profile
\* has journaled, the profile's own resting stops with them.
JournaledSells ==
  UNION {{trades[p][i].oid : i \in {j \in DOMAIN trades[p] :
                                      trades[p][j].side = "sell"}} : p \in Profiles}
ReconcileTask(p) ==
  /\ IdleAt(p)
  /\ trades' = [trades EXCEPT ![p] = Reconciled(trades[p], JournaledSells)]
  /\ halted' = [halted EXCEPT ![p] = HaltAfter(p, trades[p], JournaledSells)]
  /\ UNCHANGED <<orders, submitted, fresh, flight>>

\* cycle_epoch.bump, once the pools of the last cycle have been joined: every
\* stamp is of an older epoch.
CycleStart ==
  /\ \A p \in Profiles : IdleAt(p)
  /\ fresh' = [p \in Profiles |-> FALSE]
  /\ UNCHANGED <<orders, trades, submitted, flight, halted>>

-----------------------------------------------------------------------------
(* The other tasks of the cycle.                                            *)

\* update_fills, one row of its sweep: a row without a price, or an open
\* entry, of an order the journal does not call dead.
Polled(r) ==
  /\ r.st # "canceled"
  /\ ~r.priced \/ (r.st = "open" /\ r.side = "buy")
UpdateFills(p, i) ==
  /\ IdleAt(p)
  /\ i \in DOMAIN trades[p]
  /\ LET r == trades[p][i]
         o == r.oid
         trued == [r EXCEPT !.priced = TRUE,
                            !.qty = IF Dead(o) THEN orders[o].filled ELSE @]
         stamped == [trades[p] EXCEPT ![i] = trued]
         confirms == r.side = "sell" /\
                     r.st \in {"open", "pending_fill", "pending_protective"}
         rows == IF ~confirms THEN stamped
                 ELSE [k \in DOMAIN stamped |->
                         IF k = i \/ (/\ k \in FifoLotsFullyConsumed(stamped)
                                      /\ stamped[k].st = "open")
                           THEN [stamped[k] EXCEPT !.st = "closed"]
                           ELSE stamped[k]]
     IN /\ Polled(r)
        /\ \/ /\ Canceled(o) /\ ~Held(o)
              /\ trades' = [trades EXCEPT ![p][i].st = "canceled"]
           \/ /\ Held(o)
              /\ trades' = [trades EXCEPT ![p] = rows]
  /\ UNCHANGED <<orders, submitted, fresh, flight, halted>>

\* cancel_stale_orders: entry limits the market ran away from, never stops.
CancelStale(p) ==
  /\ IdleAt(p)
  /\ LET stale == {o \in OwnIds(p) \ ProtectiveIds(p) :
                     orders[o].kind = "entry" /\ Live(o)}
     IN /\ stale # {}
        /\ \E landed \in Landings(stale) : orders' = AfterCancel(p, stale, landed)
  /\ UNCHANGED <<trades, submitted, fresh, flight, halted>>

\* cancel_orphaned_protective_orders: stops of closed entries, and, when no
\* entry is open, every pending stop.  Only a confirmed cancel touches a row.
CancelOrphaned(p) ==
  /\ IdleAt(p)
  /\ LET rows == trades[p]
         flat == OpenEntries(rows) = {}
         stops == PointersOf(rows, "closed") \cup
                  IF flat THEN {rows[i].oid : i \in RowsOf(rows, "sell",
                                                     {"pending_protective"})}
                  ELSE {}
         asked == {o \in stops : Live(o)}
     IN /\ stops # {}
        /\ \E landed \in Landings(asked) :
             /\ orders' = AfterCancel(p, asked, landed)
             /\ trades' = [trades EXCEPT ![p] =
                  [i \in DOMAIN rows |->
                     LET r == rows[i] IN
                     IF r.st = "closed" /\ r.stop # NoOrder
                          /\ (r.stop \in landed \/ Canceled(r.stop))
                       THEN [r EXCEPT !.stop = NoOrder]
                     ELSE IF r.st = "pending_protective" /\ flat
                          /\ (r.oid \in landed \/ Canceled(r.oid))
                       THEN [r EXCEPT !.st = "canceled"]
                     ELSE r]]
  /\ UNCHANGED <<submitted, fresh, flight, halted>>

\* sync_pending_protective_order_ids: a stop that ended unfilled.
SyncPending(p) ==
  /\ IdleAt(p)
  /\ trades' = [trades EXCEPT ![p] =
       [i \in DOMAIN trades[p] |->
          LET r == trades[p][i] IN
          IF r.st = "pending_protective" /\ Canceled(r.oid) /\ ~Held(r.oid)
            THEN [r EXCEPT !.st = "canceled"] ELSE r]]
  /\ UNCHANGED <<orders, submitted, fresh, flight, halted>>

-----------------------------------------------------------------------------
(* ensure_protective_stops: a stop for the whole virtual position, pointed  *)
(* to by the latest open entry.                                             *)

\* The latest pending stop row decides first: a resting or filled order ends
\* the sweep for the symbol, a canceled one has its row marked.
LatestPending(rows) == Latest(RowsOf(rows, "sell", {"pending_protective"}))
SweepProceeds(p) ==
  /\ IdleAt(p)
  /\ BookQty(trades[p]) \in Qty
  /\ OpenEntries(trades[p]) # {}
  /\ \A k \in LatestPending(trades[p]) :
       orders[trades[p][k].oid].st \notin {"new", "filled"}
Marked(rows) ==
  [k \in DOMAIN rows |->
     IF k \in LatestPending(rows) /\ Canceled(rows[k].oid)
       THEN [rows[k] EXCEPT !.st = "canceled"] ELSE rows[k]]

\* The own working stops the open entries point to.
Coverage(p) == {o \in StopsToCancel(p) : orders[o].st \in {"new", "partially_filled"}}
Covered(p) ==
  /\ Coverage(p) # {}
  /\ MapThenSumSet(LAMBDA o : orders[o].qty, Coverage(p)) >= BookQty(trades[p])
Protected(p) == Max(OpenEntries(trades[p]))
NeedsStop(p) ==
  /\ SweepProceeds(p)
  /\ ~Covered(p)
  /\ LET stop == trades[p][Protected(p)].stop IN stop # NoOrder => ~Resting(stop)

\* The symbol is covered: an entry whose pointer is dead is linked again.
HealPointer(p) ==
  /\ SweepProceeds(p) /\ Covered(p)
  /\ trades[p][Protected(p)].stop \notin Coverage(p)
  /\ \E o \in Coverage(p) :
       trades' = [trades EXCEPT ![p] = [Marked(@) EXCEPT ![Protected(p)].stop = o]]
  /\ UNCHANGED <<orders, submitted, fresh, flight, halted>>

\* Placed only when the account holds the whole quantity; then journaled as
\* pending_protective and linked.
PlaceableStop(p) ==
  /\ NeedsStop(p) /\ fresh[p]
  /\ Placed(p, "protective") < StopBudget
  /\ Position >= BookQty(trades[p])
  /\ Accepts("protective", BookQty(trades[p]))
PlaceStop(p) ==
  /\ PlaceableStop(p)
  /\ LET o == Len(orders) + 1
         q == BookQty(trades[p])
     IN /\ orders' = Append(orders, NewOrder(p, "protective", q))
        /\ submitted' = [submitted EXCEPT ![p] = @ \cup {o}]
        /\ trades' = [trades EXCEPT ![p] =
             Append([Marked(@) EXCEPT ![Protected(p)].stop = o],
                    Row(o, "sell", q, "pending_protective", FALSE))]
  /\ UNCHANGED <<fresh, flight, halted>>

\* The row cannot be written: the order is rolled back.
RollBackStop(p) ==
  /\ "protective" \in LostWrites
  /\ PlaceableStop(p)
  /\ \E st \in {"canceled"} \cup (IF AsyncCancel THEN {"pending_cancel"} ELSE {}) :
       orders' = Append(orders, [NewOrder(p, "protective", BookQty(trades[p]))
                                   EXCEPT !.st = st, !.canceler = p])
  /\ submitted' = [submitted EXCEPT ![p] = @ \cup {Len(orders) + 1}]
  /\ trades' = [trades EXCEPT ![p] = Marked(@)]
  /\ UNCHANGED <<fresh, flight, halted>>

\* No order and no link comes of it (covered and linked already, or refused by
\* the backing check, the door or the broker): only the dead row is marked.
StopRefused(p) ==
  /\ SweepProceeds(p)
  /\ trades' = [trades EXCEPT ![p] = Marked(@)]
  /\ UNCHANGED <<orders, submitted, fresh, flight, halted>>

\* The operator clears a halt in the settings page.
ClearHalt(p) ==
  /\ halted[p] # "none"
  /\ halted' = [halted EXCEPT ![p] = "none"]
  /\ UNCHANGED <<orders, trades, submitted, fresh, flight>>

-----------------------------------------------------------------------------

ExchangeStep ==
  /\ \/ \E o \in OrderIds : \E k \in Qty : Fill(o, k)
     \/ \E o \in OrderIds : Terminate(o)
  /\ UNCHANGED <<trades, submitted, fresh, flight, halted>>

OrderStep(p) ==
  \/ \E q \in Qty : SubmitBuy(p, q)
  \/ LogTrade(p)
  \/ LoseJournalWrite(p)
  \/ PollExit(p)
  \/ PollExitDeferred(p)
  \/ \E q \in Qty : AiSell(p, q)
  \/ ExitSubmit(p)
  \/ ExitAbandoned(p)

TaskStep(p) ==
  \/ Freshen(p)
  \/ ReconcileTask(p)
  \/ \E i \in DOMAIN trades[p] : UpdateFills(p, i)
  \/ CancelStale(p)
  \/ CancelOrphaned(p)
  \/ SyncPending(p)
  \/ HealPointer(p)
  \/ PlaceStop(p)
  \/ RollBackStop(p)
  \/ StopRefused(p)

Next ==
  \/ ExchangeStep
  \/ CycleStart
  \/ \E p \in Workers : OrderStep(p) \/ TaskStep(p) \/ ClearHalt(p)

Spec == Init /\ [][Next]_vars

-----------------------------------------------------------------------------

JournalRow == [oid : Nat, side : {"buy", "sell"}, qty : 0..MaxQty,
               st : RowStatus, priced : BOOLEAN, stop : Nat]

TypeOK ==
  /\ orders \in Seq(Order)
  /\ trades \in [Profiles -> Seq(JournalRow)]
  /\ submitted \in [Profiles -> SUBSET Nat]
  /\ fresh \in [Profiles -> BOOLEAN]
  /\ flight \in [Profiles -> [pc : {"idle", "poll", "ai", "sent"}, n : Nat]]
  /\ halted \in [Profiles -> HaltReason]

\* Order-id ownership: a journal names, as an order or as a pointer, only
\* orders its own profile placed.  The whole isolation of the profiles on
\* the shared account rests on it.
OrderIdOwnership ==
  \A p \in Profiles : \A o \in OwnIds(p) : o \in OrderIds /\ orders[o].prof = p

\* No task of a profile ever cancels an order of a sibling: cancel_stale_orders,
\* the exit poll and the protective sweep act on ids of their own journal.
CancelsOnlyOwn ==
  \A o \in OrderIds : orders[o].canceler \in {orders[o].prof, Exchange, Nobody}

\* A fill is booked once: no two rows of a journal carry one order, whether
\* the caller, the recovery of lost writes or the sweep wrote them.
BookedOnce ==
  \A p \in Profiles : \A i, j \in DOMAIN trades[p] :
    trades[p][i].oid = trades[p][j].oid => i = j

\* Every order the broker has of a profile is in its journal, in the recovery
\* ledger or in the hands of its thread, until it has ended without a fill.
Accounted(o) ==
  LET p == orders[o].prof IN
  \/ o \in OidsOf(trades[p]) \cup submitted[p]
  \/ flight[p] = Sent(o)
NoOrphanOrder == \A o \in OrderIds : Accounted(o) \/ (Canceled(o) /\ ~Held(o))

\* The door's ledger and the journal as an implementation of OrderCustody: an
\* accepted order is in its thread's hand, in submitted_orders or in a row until
\* the broker has ended it unfilled.  It never needs the alarm.
Custody == INSTANCE OrderCustody WITH
  sent <- OrderIds,
  empty <- {o \in OrderIds : Canceled(o) /\ ~Held(o)},
  inHand <- {flight[p].n : p \in {q \in Profiles : flight[q].pc = "sent"}},
  onRecord <- UNION {OidsOf(trades[p]) \cup submitted[p] : p \in Profiles},
  alarm <- FALSE
KeepsCustody == Custody!Spec

\* No profile sells on the shared account what only its siblings hold: the
\* sell door checks the profile's own journal, not the broker's aggregate.
NoOversell == \A p \in Profiles : OwnNet(p) >= 0

\* Order-id truth: once every order of the profile has ended, its recovery
\* ledger is empty and none of its tasks has anything left to do, the virtual
\* quantity is the signed sum of its own fills.
Quiet(p) ==
  /\ IdleAt(p)
  /\ \A o \in OwnOrders(p) : Dead(o) \/ (orders[o].kind = "protective" /\ Resting(o))
  /\ Unjournaled(p) = {}
  /\ \A i \in DOMAIN trades[p] :
       LET r == trades[p][i] IN
       /\ Polled(r) => r.priced /\ r.qty = orders[r.oid].filled
       /\ r.st = "pending_protective" => Resting(r.oid)
  /\ Reconciled(trades[p], {}) = trades[p]
OrderIdTruth == \A p \in Profiles : Quiet(p) => BookQty(trades[p]) = OwnNet(p)

\* A row a task newly writes off as canceled is of an order that never filled:
\* for the entries and the exits (update_fills and the reconciler decide) ...
WritesOff(kinds) ==
  \E p \in Profiles : \E i \in DOMAIN trades[p] :
    LET o == trades[p][i].oid IN
    /\ trades[p][i].st # "canceled" /\ trades'[p][i].st = "canceled"
    /\ orders[o].kind \in kinds /\ Held(o)
FillsNeverWrittenOff == [][~WritesOff({"entry", "exit"})]_vars
\* ... and for the protective orders (the sweep, its cleanup and the sync
\* decide): none is stamped canceled on its status alone.
StopFillsNeverWrittenOff == [][~WritesOff({"protective"})]_vars

\* Every task list is finite, so the pool of a cycle is joined and the next
\* cycle begins; a freshen task that keeps being run succeeds in the end.
FairSpec ==
  /\ Spec
  /\ SF_vars(CycleStart)
  /\ \A p \in Workers : /\ WF_vars(LogTrade(p) \/ ExitAbandoned(p))
                        /\ SF_vars(Freshen(p))

\* An entry the broker filled is in the journal in the end, even when its
\* journal write was lost, unless the book reads short at some point.
Missing(p) ==
  {o \in OwnOrders(p) : orders[o].kind = "entry" /\ Filled(o) /\ o \notin OidsOf(trades[p])}
FilledEntriesJournaled ==
  \A p \in Workers : Missing(p) # {} ~> (Missing(p) = {} \/ BookQty(trades[p]) < 0)
==============================================================================

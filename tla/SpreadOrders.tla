---------------------------- MODULE SpreadOrders ----------------------------
(***************************************************************************)
(* The orders of one option spread of one profile: the combo order, the    *)
(* sequential fallback with its reversals, the journaling of the legs and  *)
(* the roll-back when it fails (options_multileg.py), and what settles the *)
(* rows later: update_fills (multi_scheduler.py), the net at its tail that *)
(* restores rows voided wrongly (phantom_sweep.py), and the option         *)
(* backstop of the reconciler.                                             *)
(*                                                                         *)
(* Every leg is one contract, filled or not.  The profile's tasks run one  *)
(* after the other on its thread; the broker moves between any two calls.  *)
(* An order's id is its index, and the executor's own progress is ex.      *)
(* A behaviour is one spread with the failures it may meet: its setup      *)
(* never changes.                                                          *)
(***************************************************************************)
EXTENDS Integers, Sequences, FiniteSets, FiniteSetsExt, SequencesExt, Functions

CONSTANTS Setups,        \* the spreads, each with the failures it meets
          Retries

Kinds == {"reject", "mismatch", "lost", "log", "cancel", "read", "dies", "undoLog"}

\* legs are the sides of the legs in builder order, faults the kinds of failure
\* that happen.
Setup == [legs : Seq({"buy", "sell"}), faults : SUBSET Kinds,
          maxFaults : Nat, maxAttempts : Nat]

ASSUME SpreadAssumption ==
    /\ Setups \subseteq Setup /\ \A s \in Setups : Len(s.legs) > 1
    /\ Retries \in Nat

VARIABLES
    setup,      \* the spread and the failures of this behaviour
    orders,     \* broker: the orders of this spread, by id
    rows,       \* journal: the rows of its contracts, oldest first
    ex,         \* execute_multileg_strategy under way
    polling,    \* the rows update_fills has still to look at
    halted,     \* halt_and_alert was called
    attempts, used

spread == <<orders, rows, ex, polling, halted, attempts, used>>
spreadVars == <<setup, spread>>

Legs == setup.legs
Faults == setup.faults
MaxFaults == setup.maxFaults
MaxAttempts == setup.maxAttempts

Leg == DOMAIN Legs
Opposite(side) == IF side = "buy" THEN "sell" ELSE "buy"
Sign(side) == IF side = "buy" THEN 1 ELSE -1

\* A finite set of numbers in increasing order: SetToSortSeq(S, <), in a form
\* that can be reasoned about.
Rank(S, x) == Cardinality({y \in S : y <= x})
Sorted(S) == [n \in 1..Cardinality(S) |-> CHOOSE x \in S : Rank(S, x) = n]

\* A combo carries every leg; any other order one leg.
Carries(o, leg) == o.kind = "combo" \/ o.leg = leg
SideOn(o, leg) == IF o.kind = "combo" THEN Legs[leg] ELSE o.side

\* What the broker holds of a leg's contract for this profile.
Net(leg) ==
    FoldLeft(LAMBDA n, o : IF o.st = "filled" /\ Carries(o, leg)
                           THEN n + Sign(SideOn(o, leg)) ELSE n, 0, orders)

-----------------------------------------------------------------------------
(* The book: get_virtual_positions for one contract, rows without a price  *)
(* included.  A closed buy is out of the stream; a closed sell takes a lot *)
(* and opens no short.                                                     *)
BookStep(b, r) ==
    CASE r.st = "dead" \/ (r.side = "buy" /\ r.st = "closed") -> b
      [] r.side = "buy" -> IF b.short > 0 THEN [b EXCEPT !.short = @ - 1]
                                          ELSE [b EXCEPT !.long = @ + 1]
      [] OTHER -> IF b.long > 0 THEN [b EXCEPT !.long = @ - 1]
                  ELSE IF r.st = "closed" THEN b ELSE [b EXCEPT !.short = @ + 1]

BookNet(leg) ==
    LET b == FoldLeft(BookStep, [long |-> 0, short |-> 0],
                      SelectSeq(rows, LAMBDA r : r.leg = leg))
    IN b.long - b.short

\* _occ_net_position: every row of the contract but one, closed ones included.
RowNet(leg, but) ==
    MapThenSumSet(LAMBDA i : Sign(rows[i].side),
        {i \in DOMAIN rows : i # but /\ rows[i].leg = leg /\ rows[i].st # "dead"})

Row(leg, side, oid, st, priced, strategy) ==
    [leg |-> leg, side |-> side, oid |-> oid, st |-> st, priced |-> priced,
     batch |-> strategy]
NoBatch == 0      \* option_strategy is NULL

Order(kind, leg, side) == [kind |-> kind, leg |-> leg, side |-> side, st |-> "working"]

\* The legs as the sequential path sends them: buys first.
LegsOf(side) == Sorted({i \in Leg : Legs[i] = side})
Sequence == LegsOf("buy") \o LegsOf("sell")
Position(leg) == CHOOSE k \in Leg : Sequence[k] = leg

Idle == [at |-> "idle", k |-> 0, combo |-> 0, sent |-> <<>>, seen |-> FALSE,
         logged |-> {}, filled |-> {}, bad |-> FALSE]

Fine == UNCHANGED used
Fails(f) == f \in Faults /\ used < MaxFaults /\ used' = used + 1

SpreadInit ==
    /\ setup \in Setups
    /\ orders = <<>> /\ rows = <<>> /\ ex = Idle /\ polling = <<>>
    /\ halted = FALSE /\ attempts = 0 /\ used = 0

Free == ex.at = "idle" /\ polling = <<>>

-----------------------------------------------------------------------------
(* The executor.                                                           *)

\* CleanSlate that a leg in the journal does not stop.
AnySlate == \A leg \in Leg : Sign(Legs[leg]) * Net(leg) >= 0

\* The two guards: no open row on any of the contracts, no opposite position.
CleanSlate ==
    /\ \A i \in DOMAIN rows : rows[i].st # "open"
    /\ \A leg \in Leg : Sign(Legs[leg]) * Net(leg) >= 0

Propose ==
    /\ Free /\ ~halted /\ attempts < MaxAttempts /\ CleanSlate
    /\ attempts' = attempts + 1
    /\ ex' = [Idle EXCEPT !.at = "combo"]
    /\ UNCHANGED <<orders, rows, polling, halted, used>>

\* An error of the network is retried, then the legs are sent one by one.
SendAgain ==
    IF ex.k < Retries THEN [ex EXCEPT !.k = @ + 1] ELSE [ex EXCEPT !.at = "leg", !.k = 1]

\* The combo: taken; refused; skipped for an opposite position; or taken
\* with the answer lost, which the retry loop takes for a transient error.
SubmitCombo ==
    /\ ex.at = "combo"
    /\ \/ /\ orders' = Append(orders, Order("combo", 0, "buy"))
          /\ ex' = [ex EXCEPT !.at = "log", !.k = 1, !.combo = Len(orders) + 1]
          /\ Fine
       \/ /\ Fails("reject") /\ ex' = [ex EXCEPT !.at = "leg", !.k = 1]
          /\ UNCHANGED orders
       \/ Fails("mismatch") /\ ex' = Idle /\ UNCHANGED orders
       \/ /\ Fails("lost")
          /\ orders' = Append(orders, Order("combo", 0, "buy"))
          /\ ex' = SendAgain
    /\ UNCHANGED <<rows, polling, halted, attempts>>

\* The sequential path, one leg at a time.
SubmitLeg ==
    /\ ex.at = "leg"
    /\ LET leg == Sequence[ex.k]
           taken == Append(orders, Order("open", leg, Legs[leg]))
       IN \/ /\ orders' = taken
             /\ ex' = [ex EXCEPT !.sent = Append(@, Len(orders) + 1),
                                 !.at = IF ex.k = Len(Legs) THEN "log" ELSE "leg",
                                 !.k = IF ex.k = Len(Legs) THEN 1 ELSE @ + 1]
             /\ Fine
          \/ /\ Fails("reject") /\ UNCHANGED orders
             /\ ex' = [ex EXCEPT !.at = "undo", !.k = 1]
          \/ /\ Fails("mismatch") /\ UNCHANGED orders
             /\ ex' = [ex EXCEPT !.at = "skip", !.k = 1]
          \/ /\ Fails("lost") /\ orders' = taken
             /\ ex' = [ex EXCEPT !.at = "undo", !.k = 1]
    /\ UNCHANGED <<rows, polling, halted, attempts>>

\* The two rows of a reversed leg, with no strategy on them; a failing
\* insert is passed over.
Reversed(oid) ==
    LET leg == orders[oid].leg
    IN [open |-> Row(leg, Legs[leg], oid, "pending_fill", FALSE, NoBatch),
        close |-> Row(leg, Opposite(Legs[leg]), Len(orders) + 1, "pending_fill", FALSE,
                      NoBatch)]
Reversal(oid) ==
    Append(orders, Order("close", orders[oid].leg, Opposite(orders[oid].side)))

NextSent == IF ex.k < Len(ex.sent) THEN [ex EXCEPT !.k = @ + 1] ELSE Idle
NothingSent == ex.sent = <<>> /\ ex' = Idle /\ UNCHANGED <<orders, rows, used>>

\* UndoLeg that journals the open only once its reversal was taken.
UndoThenJournal ==
    /\ ex.at = "undo"
    /\ \/ NothingSent
       \/ /\ ex.sent # <<>> /\ ex' = NextSent
          /\ LET oid == ex.sent[ex.k]
                 rs == Reversed(oid)
             IN \/ Fine /\ orders' = Reversal(oid) /\ rows' = rows \o <<rs.open, rs.close>>
                \/ Fails("reject") /\ UNCHANGED <<orders, rows>>
    /\ UNCHANGED <<polling, halted, attempts>>

\* UndoLeg that journals a reversal the broker refused.
UndoUnsent ==
    /\ ex.at = "undo"
    /\ \/ NothingSent
       \/ /\ ex.sent # <<>> /\ ex' = NextSent
          /\ LET oid == ex.sent[ex.k]
                 rs == Reversed(oid)
             IN \/ Fine /\ orders' = Reversal(oid) /\ rows' = rows \o <<rs.open, rs.close>>
                \/ /\ Fails("reject") /\ UNCHANGED orders
                   /\ rows' = rows \o <<rs.open, rs.close>>
    /\ UNCHANGED <<polling, halted, attempts>>

\* A leg failed: the open row of each leg sent, then its reversal and the
\* reversal's row.
UndoLeg ==
    /\ ex.at = "undo"
    /\ \/ NothingSent
       \/ /\ ex.sent # <<>> /\ ex' = NextSent
          /\ LET oid == ex.sent[ex.k]
                 rs == Reversed(oid)
             IN \/ Fine /\ orders' = Reversal(oid) /\ rows' = rows \o <<rs.open, rs.close>>
                \/ Fails("reject") /\ UNCHANGED orders /\ rows' = Append(rows, rs.open)
                \/ /\ Fails("undoLog") /\ orders' = Reversal(oid)
                   /\ rows' \in {Append(rows, rs.open), Append(rows, rs.close)}
    /\ UNCHANGED <<polling, halted, attempts>>

\* A leg met an opposite position: rows only when the reversal was taken.
SkipLeg ==
    /\ ex.at = "skip"
    /\ \/ NothingSent
       \/ /\ ex.sent # <<>> /\ ex' = NextSent
          /\ LET oid == ex.sent[ex.k]
                 rs == Reversed(oid)
             IN \/ Fine /\ orders' = Reversal(oid) /\ rows' = rows \o <<rs.open, rs.close>>
                \/ Fails("reject") /\ UNCHANGED <<orders, rows>>
    /\ UNCHANGED <<polling, halted, attempts>>

\* LogLeg that pairs legs and ids by index, in two different orders.
LogByIndex ==
    /\ ex.at = "log"
    /\ LET leg == ex.k
           oid == IF ex.combo # 0 THEN ex.combo ELSE ex.sent[leg]
       IN /\ rows' = Append(rows, Row(leg, Legs[leg], oid, "open", FALSE, attempts))
          /\ ex' = IF leg = Len(Legs) THEN Idle ELSE [ex EXCEPT !.k = @ + 1]
          /\ Fine
    /\ UNCHANGED <<orders, polling, halted, attempts>>

\* _log_strategy_legs: a row for each leg, with the price if there is one.
\* The combo's prices are fetched once, before the first leg.
LogLeg ==
    /\ ex.at = "log"
    /\ LET leg == ex.k
           oid == IF ex.combo # 0 THEN ex.combo ELSE ex.sent[Position(leg)]
           done == orders[oid].st = "filled"
           priced == IF ex.combo # 0 /\ leg > 1 THEN ex.seen ELSE done
       IN \/ /\ rows' = Append(rows, Row(leg, Legs[leg], oid, "open", priced, attempts))
             /\ ex' = IF leg = Len(Legs) THEN Idle
                      ELSE [ex EXCEPT !.k = @ + 1, !.seen = priced,
                                      !.logged = @ \union {Len(rows) + 1}]
             /\ Fine
          \/ /\ Fails("log") /\ ex' = [ex EXCEPT !.at = "cancel", !.k = 1]
             /\ UNCHANGED rows
    /\ UNCHANGED <<orders, polling, halted, attempts>>

\* CancelOrder without the read after the cancel.
CancelUnread ==
    /\ ex.at = "cancel"
    /\ LET mine == IF ex.combo # 0 THEN <<ex.combo>> ELSE ex.sent
           oid == mine[ex.k]
       IN /\ orders' = [orders EXCEPT ![oid].st = IF @ = "working" THEN "dead" ELSE @]
          /\ ex' = [ex EXCEPT !.at = IF ex.k < Len(mine) THEN @ ELSE "mark", !.k = @ + 1]
          /\ Fine
    /\ UNCHANGED <<rows, polling, halted, attempts>>

\* _rollback_multileg_broker_orders: cancel an order, then read it back; one
\* that cannot be read counts as filled.
CancelOrder ==
    /\ ex.at = "cancel"
    /\ LET mine == IF ex.combo # 0 THEN <<ex.combo>> ELSE ex.sent
           oid == mine[ex.k]
           dead == [orders EXCEPT ![oid].st = IF @ = "working" THEN "dead" ELSE @]
           next(fs, failed) ==
               [ex EXCEPT !.at = IF ex.k < Len(mine) THEN @ ELSE "mark", !.k = @ + 1,
                          !.filled = @ \union fs, !.bad = @ \/ failed]
           read == {oid} \intersect {i \in DOMAIN orders : orders[i].st = "filled"}
       IN \/ orders' = dead /\ ex' = next(read, FALSE) /\ Fine
          \/ Fails("read") /\ orders' = dead /\ ex' = next({oid}, FALSE)
          \/ Fails("cancel") /\ ex' = next(read, TRUE) /\ UNCHANGED orders
    /\ UNCHANGED <<rows, polling, halted, attempts>>

\* _mark_legs_canceled spares the rows of the orders it knows filled.
LegsVoided(kept) ==
    [i \in DOMAIN rows |->
        IF i \in ex.logged /\ rows[i].oid \notin kept
        THEN [rows[i] EXCEPT !.st = "dead"] ELSE rows[i]]

\* The rows are voided and the profile halted.  When a cancel failed the
\* fills read back are lost with the exception.
MarkLegs ==
    /\ ex.at = "mark"
    /\ rows' = LegsVoided(IF ex.bad THEN {} ELSE ex.filled)
    /\ halted' = TRUE /\ ex' = Idle
    /\ UNCHANGED <<orders, polling, attempts, used>>

-----------------------------------------------------------------------------
(* The broker.  A close is filled against a position only; without one it  *)
(* is refused.                                                             *)
Coverable(o) == o.kind = "close" => Sign(o.side) * Net(o.leg) < 0

BrokerFill(oid) ==
    /\ orders[oid].st = "working" /\ Coverable(orders[oid])
    /\ orders' = [orders EXCEPT ![oid].st = "filled"]
    /\ UNCHANGED <<rows, ex, polling, halted, attempts, used>>

\* A day order ends unfilled; a market close that could fill does so rarely.
BrokerEnd(oid) ==
    /\ orders[oid].st = "working"
    /\ orders' = [orders EXCEPT ![oid].st = "dead"]
    /\ IF orders[oid].kind = "close" /\ Coverable(orders[oid]) THEN Fails("dies") ELSE Fine
    /\ UNCHANGED <<rows, ex, polling, halted, attempts>>

-----------------------------------------------------------------------------
(* update_fills.                                                           *)

Sweep == 0                                \* the sweep, after the rows
Looking == polling # <<>> /\ Head(polling) # Sweep

\* Polled that looks for open rows only.
PolledOpen ==
    Sorted({i \in DOMAIN rows :
        rows[i].st = "open" /\ (~rows[i].priced \/ rows[i].side = "buy")})

\* The rows its query returns: unpriced, or an open buy of the last days.
Polled ==
    Sorted({i \in DOMAIN rows :
        /\ rows[i].st # "dead"
        /\ ~rows[i].priced \/ (rows[i].st = "open" /\ rows[i].side = "buy")})

\* With nothing to poll it returns before the sweep at its tail.
StartUpdate ==
    /\ Free /\ Polled # <<>> /\ polling' = Append(Polled, Sweep)
    /\ UNCHANGED <<orders, rows, ex, halted, attempts, used>>

\* The partners a dead leg pulls down: journaled with it, open and priced.
Partners(i) ==
    {j \in DOMAIN rows \ {i} :
        /\ rows[j].st = "open" /\ rows[j].priced
        /\ rows[i].batch # NoBatch /\ rows[j].batch = rows[i].batch}

\* Entry rows whose lot the priced exits of the contract have used up.
UsedUp(rs, leg, exit) ==
    LET walk == {j \in DOMAIN rs : rs[j].leg = leg /\ rs[j].priced /\ rs[j].st # "dead"}
        exits == {j \in walk : rs[j].side = exit}
        lots == walk \ exits
        taken(j) == Cardinality({e \in exits : e > j})
    IN {j \in lots : Cardinality({l \in lots : l <= j}) <= taken(j)}

\* The row itself is voided and committed first.
Voided(i) == [rows EXCEPT ![i].st = "dead"]

\* A row whose order ended unfilled is voided, and the partners it finds are
\* closed: the close sent, journaled with the strategy, the partner's row
\* flipped.  A close that is refused leaves its partner as it is.
VoidRow ==
    /\ Looking /\ polling' = Tail(polling)
    /\ LET i == Head(polling)
           dead == Voided(i)
       IN /\ orders[rows[i].oid].st = "dead"
          /\ \E sent \in SUBSET Partners(i) :
                LET ps == Sorted(sent)
                    close(n) == Row(rows[ps[n]].leg, Opposite(rows[ps[n]].side),
                                    Len(orders) + n, "pending_fill", FALSE, 0 - attempts)
                IN /\ IF sent = Partners(i) THEN Fine ELSE Fails("reject")
                   /\ orders' = orders \o [n \in DOMAIN ps |->
                         Order("close", rows[ps[n]].leg, Opposite(rows[ps[n]].side))]
                   /\ rows' = [j \in DOMAIN rows |->
                                 IF j \in sent THEN [dead[j] EXCEPT !.st = "closed"]
                                               ELSE dead[j]]
                              \o [n \in DOMAIN ps |-> close(n)]
    /\ UNCHANGED <<ex, halted, attempts>>

\* FillRow that takes every confirmed buy for an entry.
FillReopened ==
    /\ Looking /\ polling' = Tail(polling)
    /\ LET i == Head(polling)
           exit == rows[i].st = "pending_fill" /\ rows[i].side = "sell"
       IN /\ orders[rows[i].oid].st = "filled"
          /\ rows' = [rows EXCEPT ![i].priced = TRUE,
                        ![i].st = IF exit THEN "closed"
                                  ELSE IF @ = "pending_fill" THEN "open" ELSE @]
    /\ UNCHANGED <<orders, ex, halted, attempts, used>>

\* A row whose order filled gets its price; a pending one is an exit if it
\* sells, or buys what the other rows are short of, and an entry otherwise.
FillRow ==
    /\ Looking /\ polling' = Tail(polling)
    /\ LET i == Head(polling)
           r == rows[i]
           exit == /\ r.st = "pending_fill"
                   /\ r.side = "sell" \/ RowNet(r.leg, i) < 0
           priced == [rows EXCEPT ![i].priced = TRUE,
                        ![i].st = IF exit THEN "closed"
                                  ELSE IF @ = "pending_fill" THEN "open" ELSE @]
           gone == IF exit THEN UsedUp(priced, r.leg, r.side) ELSE {}
       IN /\ orders[r.oid].st = "filled"
          /\ rows' = [j \in DOMAIN rows |->
                IF j \in gone /\ priced[j].st = "open"
                THEN [priced[j] EXCEPT !.st = "closed"] ELSE priced[j]]
    /\ UNCHANGED <<orders, ex, halted, attempts, used>>

\* An order still working, or one that cannot be read, is left for later.
PassRow ==
    /\ Looking /\ polling' = Tail(polling)
    /\ IF orders[rows[Head(polling)].oid].st = "working" THEN Fine ELSE Fails("read")
    /\ UNCHANGED <<orders, rows, ex, halted, attempts>>

\* resurrect_wrongly_voided: a dead row whose order has fills is restored,
\* with the price; a sell that meets a long row before it is taken for an
\* exit.  A row whose order cannot be read stays dead until the next time.
Restored(back) ==
    [i \in DOMAIN rows |->
        LET r == rows[i]
            meetsLong == \E j \in 1..(i - 1) :
                /\ rows[j].leg = r.leg /\ rows[j].side = "buy"
                /\ rows[j].st # "dead" \/ j \in back
        IN IF i \notin back THEN r
           ELSE [r EXCEPT !.priced = TRUE,
                          !.st = IF r.side = "sell" /\ meetsLong THEN "pending_fill"
                                                                 ELSE "open"]]

WronglyVoided ==
    {i \in DOMAIN rows : rows[i].st = "dead" /\ orders[rows[i].oid].st = "filled"}

Resurrect ==
    /\ polling # <<>> /\ ~Looking /\ polling' = <<>>
    /\ \E back \in SUBSET WronglyVoided :
          /\ rows' = Restored(back)
          /\ IF back = WronglyVoided THEN Fine ELSE Fails("read")
    /\ UNCHANGED <<orders, ex, halted, attempts>>

-----------------------------------------------------------------------------
\* _own_occ_roundtrip: two or more rows, all filled, that net to nothing.
RoundTrip(leg) ==
    LET is == {i \in DOMAIN rows : rows[i].leg = leg /\ rows[i].st # "dead"}
    IN IF /\ Cardinality(is) > 1 /\ RowNet(leg, 0) = 0
          /\ \A i \in is : orders[rows[i].oid].st = "filled"
       THEN is ELSE {}

\* reconcile_option_orphans on an open leg the broker does not hold: void it
\* when its order ended unfilled, close the round trip, or leave it.
Backstop(i) ==
    /\ Free /\ rows[i].st = "open" /\ Net(rows[i].leg) = 0
    /\ \/ /\ orders[rows[i].oid].st = "dead"
          /\ rows' = [rows EXCEPT ![i].st = "dead"]
       \/ /\ orders[rows[i].oid].st # "dead"
          /\ rows' = [j \in DOMAIN rows |->
                IF j \in RoundTrip(rows[i].leg) THEN [rows[j] EXCEPT !.st = "closed"]
                ELSE rows[j]]
    /\ UNCHANGED <<orders, ex, polling, halted, attempts, used>>

-----------------------------------------------------------------------------
Execute == Propose \/ SubmitCombo \/ SubmitLeg \/ UndoLeg \/ SkipLeg \/ LogLeg
           \/ CancelOrder \/ MarkLegs
Settle == StartUpdate \/ VoidRow \/ FillRow \/ PassRow \/ Resurrect
Broker == \E oid \in DOMAIN orders : BrokerFill(oid) \/ BrokerEnd(oid)

SpreadNext ==
    /\ Execute \/ Settle \/ Broker \/ \E i \in DOMAIN rows : Backstop(i)
    /\ UNCHANGED setup

SpreadSpec == SpreadInit /\ [][SpreadNext]_spreadVars

\* The day ends every order, and the cycle comes again and again.
SpreadFairSpec ==
    /\ SpreadSpec /\ WF_spread(Broker) /\ WF_spread(Settle)
    /\ WF_spread(Execute /\ attempts' = attempts)

-----------------------------------------------------------------------------
OrderRecord == [kind : {"combo", "open", "close"}, leg : Leg \union {0},
                side : {"buy", "sell"}, st : {"working", "filled", "dead"}]
RowRecord == [leg : Leg, side : {"buy", "sell"}, oid : Nat,
              st : {"open", "pending_fill", "closed", "dead"}, priced : BOOLEAN,
              batch : Int]
Progress == [at : {"idle", "combo", "leg", "undo", "skip", "log", "cancel", "mark"},
             k : Nat, combo : Nat, sent : Seq(Nat), seen : BOOLEAN,
             logged : SUBSET Nat, filled : SUBSET Nat, bad : BOOLEAN]

\* Everything typed, and every row of an order the broker has.
SpreadTypeOK ==
    /\ setup \in Setups
    /\ orders \in Seq(OrderRecord)
    /\ rows \in Seq(RowRecord) /\ \A i \in DOMAIN rows : rows[i].oid \in DOMAIN orders
    /\ ex \in Progress
    /\ polling \in Seq({Sweep} \union DOMAIN rows)
    /\ halted \in BOOLEAN /\ used \in 0..MaxFaults /\ attempts \in 0..MaxAttempts

\* The ids the executor still holds in its hands.
InHand ==
    IF ex.at = "idle" THEN {}
    ELSE Range(ex.sent) \union ({ex.combo} \ {0})

Journaled(oid) == \E i \in DOMAIN rows : rows[i].oid = oid /\ rows[i].st # "dead"

\* The failures the code has no full answer to: an answer lost, a reversal refused
\* after a leg that was skipped, the row of a reversal that fails, and a cancel that
\* fails, which voids the row of a live order that the sweep may then restore.
Sound ==
    /\ Faults \intersect {"lost", "cancel", "undoLog"} = {}
    /\ ~({"mismatch", "reject"} \subseteq Faults)

\* Executor, roll-backs and settling tasks are one implementation of
\* OrderCustody: somebody answers for every order, or the profile is halted
\* over it.
Custody == INSTANCE OrderCustody WITH
    sent <- DOMAIN orders,
    empty <- {oid \in DOMAIN orders : orders[oid].st = "dead"},
    inHand <- InHand,
    onRecord <- {oid \in DOMAIN orders : Journaled(oid)},
    alarm <- halted
KeepsCustody ==
    /\ Sound => Custody!Init
    /\ [][Sound => Custody!Next]_spreadVars

\* "Canceled is not unfilled": a voided row's order has no fills, unless a
\* cancel failed.
VoidedIsUnfilled ==
    "cancel" \notin Faults =>
        \A i \in DOMAIN rows : rows[i].st = "dead" => orders[rows[i].oid].st # "filled"

\* A row is tied to the order that carries its leg, on the same side: what
\* update_fills writes into it is that leg's price.
RowsMatchOrders ==
    \A i \in DOMAIN rows :
        LET o == orders[rows[i].oid]
        IN Carries(o, rows[i].leg) /\ SideOn(o, rows[i].leg) = rows[i].side

RowsFitOrders == RowsMatchOrders /\ VoidedIsUnfilled

\* Nothing is under way, at the broker or here, and every row has what
\* update_fills gives it.
Settled ==
    /\ Free
    /\ \A oid \in DOMAIN orders : orders[oid].st # "working"
    /\ \A i \in DOMAIN rows : rows[i].st = "dead" \/ (rows[i].priced /\ rows[i].st # "pending_fill")

\* With everything settled the book has exactly what the broker holds, when
\* nothing but the refusal of orders goes wrong.
OnlyRefusals == Faults \subseteq {"reject"}
BookIsTrue ==
    OnlyRefusals /\ Settled /\ ~halted => \A leg \in Leg : BookNet(leg) = Net(leg)

\* With everything settled the legs of a spread are all on or all off: a leg
\* whose partner ended unfilled was closed.
NoNakedLeg ==
    Settled /\ ~halted =>
        \A l1, l2 \in Leg : Net(l1) * Sign(Legs[l1]) = Net(l2) * Sign(Legs[l2])

\* Once everything is settled the spread is on at most once: the guard
\* refuses "to duplicate the spread".
OnlyOnce == OnlyRefusals /\ Settled => \A leg \in Leg : Net(leg) \in -1..1

\* No row waits for its fill for ever.
Waiting(i) == i \in DOMAIN rows /\ rows[i].st = "pending_fill"
=============================================================================

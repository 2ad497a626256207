----------------------------- MODULE JournalBook -----------------------------
(***************************************************************************)
(* One profile's journal for one stock: the trades table as a sequence of   *)
(* rows in (timestamp, id) order, and the two readers that derive inventory *)
(* from it.  journal.get_virtual_positions nets every live row first in     *)
(* first out and is what the sell door believes; multi_scheduler's          *)
(* _fifo_lots_fully_consumed nets only rows the broker has priced and       *)
(* decides which entry rows are closed.  All operators are pure.            *)
(*                                                                          *)
(* A row has the columns the two readers look at: oid (order_id), side,     *)
(* qty, st (status), priced (fill_price is not NULL) and stop               *)
(* (protective_stop_order_id, 0 for NULL).  The statuses canceled, expired  *)
(* and rejected are one here; no reader of this module tells them apart.    *)
(***************************************************************************)
EXTENDS Integers, Sequences, FiniteSets, FiniteSetsExt, SequencesExt

RowStatus == {"open", "pending_fill", "pending_protective", "closed", "canceled"}

Row(oid, side, qty, st, priced) ==
  [oid |-> oid, side |-> side, qty |-> qty, st |-> st, priced |-> priced,
   stop |-> 0]

Monus(a, b) == IF a > b THEN a - b ELSE 0

\* What remains of each lot once q shares are taken first in, first out.
Consume(lots, q) ==
  [i \in DOMAIN lots |->
     [lots[i] EXCEPT !.left =
        Monus(@, Monus(q, MapThenSumSet(LAMBDA j : lots[j].left, 1..(i - 1))))]]
Available(lots) == MapThenSumSet(LAMBDA j : lots[j].left, DOMAIN lots)

\* The rows get_virtual_positions reads.
Counted(r) == r.st \notin {"canceled", "pending_protective"}

\* The book after the first n rows: the long lots, oldest first, each with
\* the row it came from, and the shares short.  A buy covers a short first,
\* unless it is a closed row that never filled; a sell beyond the lots opens
\* a short.
BookStep(book, r, i) ==
  IF ~Counted(r) THEN book
  ELSE IF r.side = "buy"
    THEN LET covers == IF r.st # "closed" \/ r.priced
                         THEN Min({r.qty, book.short}) ELSE 0
             lot == [row |-> i, left |-> r.qty - covers, closed |-> r.st = "closed"]
         IN [lots |-> Append(book.lots, lot), short |-> book.short - covers]
    ELSE [lots |-> Consume(book.lots, r.qty),
          short |-> book.short + Monus(r.qty, Available(book.lots))]

Book(rows) ==
  LET after[n \in 0..Len(rows)] ==
        IF n = 0 THEN [lots |-> <<>>, short |-> 0]
        ELSE BookStep(after[n - 1], rows[n], n)
  IN after[Len(rows)]

\* The profile's virtual quantity.  What is left of a closed lot is dropped.
BookQty(rows) ==
  LET b == Book(rows)
  IN MapThenSumSet(LAMBDA i : b.lots[i].left,
                   {i \in DOMAIN b.lots : ~b.lots[i].closed}) - b.short

\* Mutant of FifoLotsFullyConsumed: a lot a priced sell has touched is consumed.
FifoLotsTouched(rows) ==
  {i \in DOMAIN rows :
     /\ rows[i].side = "buy" /\ rows[i].priced /\ rows[i].st # "canceled"
     /\ \E k \in DOMAIN rows : k > i /\ rows[k].side = "sell" /\ rows[k].priced}

\* The entry rows whose lot is used up by priced sells: only rows the broker
\* priced are lots or exits, and an exit takes from the lots before it.
FifoLotsFullyConsumed(rows) ==
  LET Walk(r) == r.priced /\ r.st # "canceled"
      after[n \in 0..Len(rows)] ==
        IF n = 0 THEN <<>>
        ELSE LET lots == after[n - 1]
                 r == rows[n]
             IN IF ~Walk(r) THEN lots
                ELSE IF r.side = "buy" THEN Append(lots, [row |-> n, left |-> r.qty])
                ELSE Consume(lots, r.qty)
      walked == after[Len(rows)]
  IN {walked[i].row : i \in {j \in DOMAIN walked : walked[j].left = 0}}

\* Indices of the rows of a side and a set of statuses.
RowsOf(rows, side, sts) == {i \in DOMAIN rows : rows[i].side = side /\ rows[i].st \in sts}
OidsOf(rows) == {rows[i].oid : i \in DOMAIN rows}
Pointers(rows) == {rows[i].stop : i \in DOMAIN rows} \ {0}
PointersOf(rows, st) == {rows[i].stop : i \in {j \in DOMAIN rows : rows[j].st = st}} \ {0}
==============================================================================

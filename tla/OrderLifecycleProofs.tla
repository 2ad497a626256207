------------------------- MODULE OrderLifecycleProofs -------------------------
(***************************************************************************)
(* Theorems about OrderLifecycle, for any number of profiles on the account, *)
(* any holdings and any bounds.                                              *)
(*                                                                           *)
(* The types, the order-id ownership of the journals, and that no profile    *)
(* cancels an order of a sibling are one inductive invariant, OwnCustody: a  *)
(* task may cancel what its journal names, so it cancels only its own because *)
(* its journal names only its own, and the journal does because its rows     *)
(* come from its thread's last submission, from its own ledger, or from a    *)
(* row it had.                                                               *)
(*                                                                           *)
(* When journal writes are lost, no fill is booked twice by their recovery,  *)
(* and the journal, the recovery ledger and the threads together implement   *)
(* OrderCustody.  The invariant Trail adds to the ownership what is known of *)
(* an order that no row names: it is in its thread's hand, or its write was  *)
(* lost.  Last, what the tasks may write off.                                *)
(***************************************************************************)
EXTENDS OrderLifecycle, SequenceTheorems, FiniteSetTheorems, WellFoundedInduction, TLAPS

\* Every id the rows name, as an order or as a pointer, is in own.
Named(own, rows) ==
  \A i \in DOMAIN rows :
    /\ rows[i].oid \in own
    /\ rows[i].stop = 0 \/ rows[i].stop \in own

\* What the journal, the ledger and the thread of p name is p's own.
CustodyOf(p) ==
  /\ Named(OwnOrders(p), trades[p])
  /\ submitted[p] \subseteq OwnOrders(p)
  /\ flight[p].pc = "sent" => flight[p].n \in OwnOrders(p)
  /\ flight[p].pc \in {"poll", "ai"} => flight[p].n \in Qty

OwnCustody == TypeOK /\ CancelsOnlyOwn /\ \A p \in Profiles : CustodyOf(p)

Flight == [pc : {"idle", "poll", "ai", "sent"}, n : Nat]

-----------------------------------------------------------------------------
(* Sequences.                                                               *)

\* A function on 1..n is a sequence.
LEMMA FunctionIsSeq ==
  ASSUME NEW S, NEW n \in Nat, NEW f \in [1..n -> S]
  PROVE  f \in Seq(S) /\ Len(f) = n /\ DOMAIN f = 1..n
<1>1. f \in Seq(S)
  BY SeqDef
<1>2. DOMAIN f = 1..n /\ DOMAIN f = 1..Len(f) /\ Len(f) \in Nat
  BY <1>1, LenProperties
<1>3. QED
  BY <1>1, <1>2

\* A task that rewrites rows one by one, keeps the order of each and keeps or
\* drops its pointer, names nothing new.
LEMMA RewrittenRows ==
  ASSUME NEW rows \in Seq(JournalRow), NEW own, Named(own, rows),
         NEW new, new = [i \in DOMAIN rows |-> new[i]],
         \A i \in DOMAIN rows :
           /\ new[i] \in JournalRow
           /\ new[i].oid = rows[i].oid
           /\ new[i].stop = rows[i].stop \/ new[i].stop = 0 \/ new[i].stop \in own
  PROVE  new \in Seq(JournalRow) /\ Named(own, new)
<1>1. DOMAIN rows = 1..Len(rows) /\ Len(rows) \in Nat
  BY LenProperties
<1>2. new \in [1..Len(rows) -> JournalRow]
  BY <1>1
<1>3. new \in Seq(JournalRow) /\ DOMAIN new = DOMAIN rows
  BY <1>1, <1>2, FunctionIsSeq
<1>4. QED
  BY <1>3 DEF Named

\* An empty journal, and one of a single row.
LEMMA EmptyJournal ==
  ASSUME NEW own
  PROVE  <<>> \in Seq(JournalRow) /\ Named(own, <<>>)
<1>1. <<>> \in Seq(JournalRow) /\ Len(<<>>) = 0
  OBVIOUS
<1>2. DOMAIN <<>> = {}
  BY <1>1, LenProperties
<1>3. QED
  BY <1>1, <1>2 DEF Named

LEMMA OneRowJournal ==
  ASSUME NEW own, NEW r \in JournalRow, r.oid \in own, r.stop = 0
  PROVE  <<r>> \in Seq(JournalRow) /\ Named(own, <<r>>)
<1>1. <<r>> \in Seq(JournalRow) /\ Len(<<r>>) = 1 /\ <<r>>[1] = r
  OBVIOUS
<1>2. DOMAIN <<r>> = 1..1
  BY <1>1, LenProperties
<1>3. QED
  BY <1>1, <1>2 DEF Named

\* A row appended to the journal.
LEMMA AppendedRow ==
  ASSUME NEW rows \in Seq(JournalRow), NEW own, Named(own, rows),
         NEW r \in JournalRow, r.oid \in own, r.stop = 0
  PROVE  Append(rows, r) \in Seq(JournalRow) /\ Named(own, Append(rows, r))
BY AppendProperties, LenProperties DEF Named

-----------------------------------------------------------------------------
(* The account.                                                             *)

\* Orders are never forgotten and never change hands.
Kept ==
  /\ orders' \in Seq(Order)
  /\ Len(orders) <= Len(orders')
  /\ \A o \in OrderIds : orders'[o].prof = orders[o].prof

\* Then every profile's own orders stay its own.
LEMMA OwnOrdersGrow ==
  ASSUME orders \in Seq(Order), Kept, NEW p
  PROVE  OwnOrders(p) \subseteq OwnOrders(p)'
BY LenProperties DEF Kept, OwnOrders, OrderIds

\* A cancel of own orders.
LEMMA CancelKeeps ==
  ASSUME TypeOK, CancelsOnlyOwn, NEW p \in Profiles, NEW landed,
         NEW asked \in SUBSET OwnOrders(p), orders' = AfterCancel(p, asked, landed)
  PROVE  Kept /\ CancelsOnlyOwn'
<1>1. OrderIds = 1..Len(orders) /\ Len(orders) \in Nat
  BY LenProperties DEF TypeOK, OrderIds
<1>2. \A o \in OrderIds : orders[o] \in Order
  BY <1>1, ElementOfSeq DEF TypeOK
<1>3. \A o \in OrderIds :
        /\ orders'[o] \in Order
        /\ orders'[o].prof = orders[o].prof
        /\ \/ orders'[o].canceler = orders[o].canceler
           \/ o \in asked /\ orders'[o].canceler = p
  BY <1>2 DEF AfterCancel, Order, OrderStatus
<1>4. orders' \in Seq(Order) /\ Len(orders') = Len(orders)
  <2>1. orders' \in [1..Len(orders) -> Order]
    BY <1>1, <1>3 DEF AfterCancel
  <2>2. QED
    BY <1>1, <2>1, FunctionIsSeq
<1>5. Kept
  BY <1>1, <1>3, <1>4 DEF Kept
<1>6. CancelsOnlyOwn'
  BY <1>1, <1>3, <1>4 DEF CancelsOnlyOwn, OwnOrders, OrderIds
<1>7. QED
  BY <1>5, <1>6

\* A new order.
LEMMA SubmitKeeps ==
  ASSUME TypeOK, CancelsOnlyOwn, NEW p \in Profiles,
         NEW x \in Order, x.prof = p, x.canceler \in {p, Nobody},
         orders' = Append(orders, x)
  PROVE  /\ Kept /\ CancelsOnlyOwn'
         /\ Len(orders) + 1 \in Nat
         /\ Len(orders) + 1 \in OwnOrders(p)'
<1>1. /\ orders' \in Seq(Order) /\ Len(orders') = Len(orders) + 1
      /\ \A o \in 1..Len(orders) : orders'[o] = orders[o]
      /\ orders'[Len(orders) + 1] = x
      /\ Len(orders) \in Nat
  BY AppendProperties, LenProperties DEF TypeOK
<1>2. QED
  BY <1>1 DEF Kept, CancelsOnlyOwn, OwnOrders, OrderIds

\* A fill or an end of an order.
LEMMA ExchangeKeeps ==
  ASSUME TypeOK, CancelsOnlyOwn, NEW o \in OrderIds,
         \/ \E k \in Qty : Fill(o, k)
         \/ Terminate(o)
  PROVE  Kept /\ CancelsOnlyOwn'
<1>1. OrderIds = 1..Len(orders) /\ Len(orders) \in Nat /\ orders[o] \in Order
  BY LenProperties, ElementOfSeq DEF TypeOK, OrderIds
<1>2. PICK x \in Order :
        /\ x.prof = orders[o].prof
        /\ x.canceler \in {orders[o].canceler, Exchange}
        /\ orders' = [orders EXCEPT ![o] = x]
  <2>1. CASE Terminate(o)
    <3>1. [orders[o] EXCEPT !.st = "canceled",
                            !.canceler = IF @ = Nobody THEN Exchange ELSE @] \in Order
      BY <1>1 DEF Order, OrderStatus
    <3>2. QED
      BY <1>1, <2>1, <3>1 DEF Terminate, Order
  <2>2. CASE \E k \in Qty : Fill(o, k)
    <3>1. PICK k \in Qty : Fill(o, k)
      BY <2>2
    <3>2. orders[o].filled + k \in 0..MaxQty
      BY <1>1, <3>1, AccountAssumption DEF Fill, Remaining, Order, Qty
    <3> DEFINE st == IF k = Remaining(o) THEN "filled"
                     ELSE IF orders[o].st = "pending_cancel" THEN orders[o].st
                     ELSE "partially_filled"
               x == [orders[o] EXCEPT !.filled = orders[o].filled + k, !.st = st]
    <3>3. x \in Order
      BY <1>1, <3>2 DEF Order, OrderStatus
    <3>4. orders' = [orders EXCEPT ![o] = x]
      BY <1>1, <3>1 DEF Fill, Order
    <3>5. x.prof = orders[o].prof /\ x.canceler = orders[o].canceler
      BY <1>1 DEF Order
    <3>6. QED
      BY <3>3, <3>4, <3>5
  <2>3. QED
    BY <2>1, <2>2
<1>3. orders' \in Seq(Order) /\ Len(orders') = Len(orders)
      /\ \A j \in OrderIds : orders'[j] = IF j = o THEN x ELSE orders[j]
  BY <1>1, <1>2, ExceptSeq DEF TypeOK
<1>4. QED
  BY <1>1, <1>2, <1>3 DEF Kept, CancelsOnlyOwn, OrderIds

-----------------------------------------------------------------------------
(* One profile's step.                                                      *)

\* Only p's journal, ledger, thread and halt change, and what they name after
\* the step is p's own.
LEMMA ProfileStep ==
  ASSUME OwnCustody, NEW p \in Profiles, Kept, CancelsOnlyOwn',
         trades' = [trades EXCEPT ![p] = trades'[p]],
         trades'[p] \in Seq(JournalRow),
         Named(OwnOrders(p)', trades'[p]),
         submitted' = [submitted EXCEPT ![p] = submitted'[p]],
         submitted'[p] \subseteq OwnOrders(p)',
         flight' = [flight EXCEPT ![p] = flight'[p]],
         flight'[p] \in Flight,
         flight'[p].pc = "sent" => flight'[p].n \in OwnOrders(p)',
         flight'[p].pc \in {"poll", "ai"} => flight'[p].n \in Qty,
         halted' = [halted EXCEPT ![p] = halted'[p]],
         halted'[p] \in HaltReason,
         fresh' \in [Profiles -> BOOLEAN]
  PROVE  OwnCustody'
<1>1. TypeOK'
  <2>1. OwnOrders(p)' \subseteq Nat
    BY LenProperties DEF Kept, OwnOrders, OrderIds
  <2>2. trades' \in [Profiles -> Seq(JournalRow)]
    BY DEF OwnCustody, TypeOK
  <2>3. submitted' \in [Profiles -> SUBSET Nat]
    BY <2>1 DEF OwnCustody, TypeOK
  <2>4. flight' \in [Profiles -> Flight]
    BY DEF OwnCustody, TypeOK, Flight
  <2>5. halted' \in [Profiles -> HaltReason]
    BY DEF OwnCustody, TypeOK
  <2>6. QED
    BY <2>2, <2>3, <2>4, <2>5 DEF TypeOK, Kept, Flight
<1>2. ASSUME NEW q \in Profiles PROVE CustodyOf(q)'
  <2>1. OwnOrders(q) \subseteq OwnOrders(q)'
    BY OwnOrdersGrow DEF OwnCustody, TypeOK
  <2>2. CASE q = p
    <3>1. /\ trades' \in [Profiles -> Seq(JournalRow)]
          /\ submitted' \in [Profiles -> SUBSET Nat]
      BY <1>1 DEF TypeOK
    <3>2. QED
      BY <2>2, <3>1 DEF CustodyOf
  <2>3. CASE q # p
    <3>1. /\ trades'[q] = trades[q] /\ submitted'[q] = submitted[q]
          /\ flight'[q] = flight[q]
      BY <2>3 DEF OwnCustody, TypeOK
    <3>2. QED
      BY <2>1, <3>1 DEF OwnCustody, CustodyOf, Named
  <2>4. QED
    BY <2>2, <2>3
<1>3. QED
  BY <1>1, <1>2 DEF OwnCustody

\* A task that changes the journal alone, and perhaps the account.
LEMMA JournalStep ==
  ASSUME OwnCustody, NEW p \in Profiles, Kept, CancelsOnlyOwn',
         trades' = [trades EXCEPT ![p] = trades'[p]],
         trades'[p] \in Seq(JournalRow),
         Named(OwnOrders(p)', trades'[p]),
         UNCHANGED <<submitted, flight, halted, fresh>>
  PROVE  OwnCustody'
<1>1. /\ submitted \in [Profiles -> SUBSET Nat]
      /\ flight \in [Profiles -> Flight]
      /\ halted \in [Profiles -> HaltReason]
      /\ fresh \in [Profiles -> BOOLEAN]
      /\ CustodyOf(p)
  BY DEF OwnCustody, TypeOK, Flight
<1>2. OwnOrders(p) \subseteq OwnOrders(p)'
  BY OwnOrdersGrow DEF OwnCustody, TypeOK
<1>3. /\ submitted' = [submitted EXCEPT ![p] = submitted'[p]]
      /\ flight' = [flight EXCEPT ![p] = flight'[p]]
      /\ halted' = [halted EXCEPT ![p] = halted'[p]]
  BY <1>1
<1>4. /\ submitted'[p] \subseteq OwnOrders(p)'
      /\ flight'[p].pc = "sent" => flight'[p].n \in OwnOrders(p)'
      /\ flight'[p].pc \in {"poll", "ai"} => flight'[p].n \in Qty
  BY <1>1, <1>2 DEF CustodyOf
<1>5. /\ flight'[p] \in Flight
      /\ halted'[p] \in HaltReason
      /\ fresh' \in [Profiles -> BOOLEAN]
  BY <1>1
<1>6. QED
  BY <1>3, <1>4, <1>5, ProfileStep

\* A step that leaves journal, ledger and threads alone.
LEMMA AccountStep ==
  ASSUME OwnCustody, Kept, CancelsOnlyOwn',
         UNCHANGED <<trades, submitted, flight>>,
         halted' \in [Profiles -> HaltReason],
         fresh' \in [Profiles -> BOOLEAN]
  PROVE  OwnCustody'
<1>1. TypeOK'
  BY DEF OwnCustody, TypeOK, Kept
<1>2. ASSUME NEW q \in Profiles PROVE CustodyOf(q)'
  <2>1. OwnOrders(q) \subseteq OwnOrders(q)'
    BY OwnOrdersGrow DEF OwnCustody, TypeOK
  <2>2. QED
    BY <2>1 DEF OwnCustody, CustodyOf, Named
<1>3. QED
  BY <1>1, <1>2 DEF OwnCustody

\* An unchanged account keeps its orders.
LEMMA SameOrdersKept ==
  ASSUME TypeOK, CancelsOnlyOwn, orders' = orders
  PROVE  Kept /\ CancelsOnlyOwn' /\ \A p : OwnOrders(p)' = OwnOrders(p)
BY LenProperties DEF TypeOK, Kept, CancelsOnlyOwn, OwnOrders, OrderIds

\* What every action may use of a profile in custody.
LEMMA InCustody ==
  ASSUME OwnCustody, NEW p \in Profiles
  PROVE  /\ trades[p] \in Seq(JournalRow)
         /\ DOMAIN trades[p] = 1..Len(trades[p])
         /\ \A i \in DOMAIN trades[p] : trades[p][i] \in JournalRow
         /\ Named(OwnOrders(p), trades[p])
         /\ flight[p] \in Flight
         /\ halted[p] \in HaltReason
         /\ submitted[p] \subseteq OwnOrders(p)
         /\ OwnOrders(p) \subseteq OrderIds
         /\ OwnIds(p) \subseteq OwnOrders(p)
         /\ \A o \in OrderIds : o \in Nat /\ orders[o] \in Order
<1>1. trades[p] \in Seq(JournalRow) /\ Named(OwnOrders(p), trades[p])
      /\ submitted[p] \subseteq OwnOrders(p)
  BY DEF OwnCustody, TypeOK, CustodyOf
<1>2. OwnIds(p) \subseteq OwnOrders(p)
  BY <1>1 DEF Named, OwnIds, OidsOf, Pointers
<1>3. \A o \in OrderIds : o \in Nat /\ orders[o] \in Order
  BY LenProperties, ElementOfSeq DEF OwnCustody, TypeOK, OrderIds
<1>4. DOMAIN trades[p] = 1..Len(trades[p])
      /\ \A i \in DOMAIN trades[p] : trades[p][i] \in JournalRow
  BY <1>1, LenProperties, ElementOfSeq
<1>5. QED
  BY <1>1, <1>2, <1>3, <1>4 DEF OwnCustody, TypeOK, OwnOrders, Flight

-----------------------------------------------------------------------------
(* The initial state.                                                       *)

\* Orders and rows of the holdings name each other.
LEMMA InitCustody == Init => OwnCustody
<1> SUFFICES ASSUME Init PROVE OwnCustody
  OBVIOUS
<1> USE LifecycleAssumption, AccountAssumption
<1>1. PICK s \in InSomeOrder(Holders) :
        /\ orders = [i \in DOMAIN s |->
                       [NewOrder(s[i], "entry", Holding[s[i]])
                          EXCEPT !.filled = Holding[s[i]], !.st = "filled"]]
        /\ trades = [p \in Profiles |->
                       IF p \in Holders
                         THEN <<Row(CHOOSE i \in DOMAIN s : s[i] = p, "buy",
                                    Holding[p], "open", TRUE)>>
                         ELSE <<>>]
  BY DEF Init
<1> DEFINE n == Cardinality(Holders)
<1>2. n \in Nat
  BY FS_Subset, FS_CardinalityType DEF Holders
<1>3. /\ s \in [1..n -> Holders]
      /\ \A p \in Holders : \E i \in 1..n : s[i] = p
  BY DEF InSomeOrder, Bijection, Injection, Surjection
<1>4. /\ \A p \in Holders : p \in Profiles /\ Holding[p] \in Qty
      /\ \A p \in Profiles : Holding[p] \in 0..MaxQty
  BY DEF Holders, Qty
<1>5. \A i \in 1..n : /\ orders[i] \in Order
                       /\ orders[i].prof = s[i]
                       /\ orders[i].canceler = Nobody
  BY <1>1, <1>3, <1>4 DEF NewOrder, Order, OrderStatus, Qty, Kinds
<1>6. orders \in Seq(Order) /\ Len(orders) = n /\ OrderIds = 1..n
  <2>1. orders \in [1..n -> Order]
    BY <1>1, <1>3, <1>5
  <2>2. QED
    BY <1>2, <2>1, FunctionIsSeq DEF OrderIds
<1>7. ASSUME NEW p \in Profiles
      PROVE  trades[p] \in Seq(JournalRow) /\ Named(OwnOrders(p), trades[p])
  <2>1. CASE p \in Holders
    <3> DEFINE i == CHOOSE i \in DOMAIN s : s[i] = p
               r == Row(i, "buy", Holding[p], "open", TRUE)
    <3>1. i \in 1..n /\ s[i] = p
      BY <1>3, <2>1
    <3>2. r \in JournalRow /\ r.oid = i /\ r.stop = 0
      BY <1>4, <3>1 DEF Row, JournalRow, RowStatus
    <3>3. i \in OwnOrders(p)
      BY <1>5, <1>6, <3>1 DEF OwnOrders
    <3>4. trades[p] = <<r>>
      BY <1>1, <2>1
    <3> HIDE DEF i, r
    <3>5. QED
      BY <3>2, <3>3, <3>4, OneRowJournal
  <2>2. CASE p \notin Holders
    <3>1. trades[p] = <<>>
      BY <1>1, <2>2
    <3>2. QED
      BY <3>1, EmptyJournal
  <2>3. QED
    BY <2>1, <2>2
<1>8. TypeOK
  <2>1. trades \in [Profiles -> Seq(JournalRow)]
    BY <1>1, <1>7
  <2>2. /\ submitted \in [Profiles -> SUBSET Nat]
        /\ fresh \in [Profiles -> BOOLEAN]
        /\ halted \in [Profiles -> HaltReason]
    BY DEF Init, HaltReason
  <2>3. flight \in [Profiles -> Flight]
    <3>1. Idle \in Flight
      BY DEF Idle, Flight
    <3>2. flight = [p \in Profiles |-> Idle]
      BY DEF Init
    <3>3. QED
      BY <3>1, <3>2
  <2>4. QED
    BY <1>6, <2>1, <2>2, <2>3 DEF TypeOK, Flight
<1>9. CancelsOnlyOwn
  BY <1>5, <1>6 DEF CancelsOnlyOwn
<1>10. ASSUME NEW p \in Profiles PROVE CustodyOf(p)
  <2>1. flight[p] = Idle /\ submitted[p] = {}
    BY DEF Init
  <2>2. QED
    BY <1>7, <2>1 DEF CustodyOf, Idle
<1>11. QED
  BY <1>8, <1>9, <1>10 DEF OwnCustody

-----------------------------------------------------------------------------
(* Submitting and journaling.                                               *)

\* The new id goes to the ledger and to the thread of who placed the order.
LEMMA SubmitSafe ==
  ASSUME OwnCustody, NEW p \in Profiles, NEW k \in Kinds, NEW q \in Qty,
         Submit(p, k, q), UNCHANGED <<trades, fresh, halted>>
  PROVE  OwnCustody'
<1>1. NewOrder(p, k, q) \in Order /\ NewOrder(p, k, q).prof = p
      /\ NewOrder(p, k, q).canceler = Nobody
  BY AccountAssumption DEF NewOrder, Order, OrderStatus, Qty
<1>2. Kept /\ CancelsOnlyOwn' /\ Len(orders) + 1 \in Nat
      /\ Len(orders) + 1 \in OwnOrders(p)'
  BY <1>1, SubmitKeeps DEF Submit, OwnCustody
<1>3. OwnOrders(p) \subseteq OwnOrders(p)'
  BY <1>2, OwnOrdersGrow DEF OwnCustody, TypeOK
<1>4. /\ trades' = [trades EXCEPT ![p] = trades'[p]]
      /\ trades'[p] \in Seq(JournalRow) /\ Named(OwnOrders(p)', trades'[p])
      /\ halted' = [halted EXCEPT ![p] = halted'[p]] /\ halted'[p] \in HaltReason
      /\ fresh' \in [Profiles -> BOOLEAN]
  BY <1>3, InCustody DEF OwnCustody, TypeOK, Named
<1>5. /\ submitted' = [submitted EXCEPT ![p] = submitted'[p]]
      /\ submitted'[p] \subseteq OwnOrders(p)'
  BY <1>2, <1>3, InCustody DEF Submit, OwnCustody, TypeOK
<1>6. /\ flight' = [flight EXCEPT ![p] = flight'[p]]
      /\ flight'[p] = Sent(Len(orders) + 1)
  BY DEF Submit, OwnCustody, TypeOK
<1>7. flight'[p] \in Flight /\ flight'[p].pc = "sent"
      /\ flight'[p].n \in OwnOrders(p)'
  BY <1>2, <1>6 DEF Sent, Flight
<1>8. QED
  BY <1>2, <1>4, <1>5, <1>6, <1>7, ProfileStep

\* The caller writes the row of the order its thread has sent.
LEMMA LogTradeSafe ==
  ASSUME OwnCustody, NEW p \in Profiles, LogTrade(p)
  PROVE  OwnCustody'
<1> DEFINE o == flight[p].n
           st == IF orders[o].kind = "entry" THEN "open" ELSE "pending_fill"
           r == Row(o, SideOf(orders[o].kind), orders[o].qty, st, FALSE)
<1>1. o \in OwnOrders(p) /\ o \in OrderIds /\ o \in Nat /\ orders[o] \in Order
  BY InCustody DEF OwnCustody, CustodyOf, LogTrade
<1>2. r \in JournalRow /\ r.oid = o /\ r.stop = 0
  BY <1>1, AccountAssumption DEF Row, JournalRow, RowStatus, SideOf, Order, Qty
<1>3. Append(trades[p], r) \in Seq(JournalRow)
      /\ Named(OwnOrders(p), Append(trades[p], r))
  BY <1>1, <1>2, AppendedRow, InCustody
<1>4. Kept /\ CancelsOnlyOwn' /\ OwnOrders(p)' = OwnOrders(p)
  BY SameOrdersKept DEF LogTrade, OwnCustody
<1>5. /\ trades' = [trades EXCEPT ![p] = trades'[p]]
      /\ trades'[p] \in Seq(JournalRow) /\ Named(OwnOrders(p)', trades'[p])
  BY <1>3, <1>4 DEF LogTrade, OwnCustody, TypeOK
<1>6. /\ flight' = [flight EXCEPT ![p] = flight'[p]]
      /\ flight'[p] = Idle
      /\ submitted' = [submitted EXCEPT ![p] = submitted'[p]]
      /\ submitted'[p] \subseteq OwnOrders(p)'
      /\ halted' = [halted EXCEPT ![p] = halted'[p]] /\ halted'[p] \in HaltReason
      /\ fresh' \in [Profiles -> BOOLEAN]
  BY <1>4, InCustody DEF LogTrade, OwnCustody, TypeOK
<1>7. QED
  BY <1>4, <1>5, <1>6, ProfileStep DEF Idle, Flight

\* A thread that gives up holds nothing.
LEMMA ThreadEnds ==
  ASSUME OwnCustody, NEW p \in Profiles, UNCHANGED <<orders, trades, submitted, fresh>>,
         flight' = [flight EXCEPT ![p] = Idle],
         halted' = [halted EXCEPT ![p] = halted'[p]], halted'[p] \in HaltReason
  PROVE  OwnCustody'
<1>1. Kept /\ CancelsOnlyOwn' /\ OwnOrders(p)' = OwnOrders(p)
  BY SameOrdersKept DEF OwnCustody
<1>2. /\ trades' = [trades EXCEPT ![p] = trades'[p]]
      /\ trades'[p] \in Seq(JournalRow) /\ Named(OwnOrders(p)', trades'[p])
      /\ submitted' = [submitted EXCEPT ![p] = submitted'[p]]
      /\ submitted'[p] \subseteq OwnOrders(p)'
      /\ flight' = [flight EXCEPT ![p] = flight'[p]]
      /\ flight'[p] = Idle
      /\ fresh' \in [Profiles -> BOOLEAN]
  BY <1>1, InCustody DEF OwnCustody, TypeOK
<1>3. flight'[p] \in Flight /\ flight'[p].pc = "idle"
  BY <1>2 DEF Idle, Flight
<1>4. QED
  BY <1>1, <1>2, <1>3, ProfileStep

LEMMA LoseJournalWriteSafe ==
  ASSUME OwnCustody, NEW p \in Profiles, LoseJournalWrite(p)
  PROVE  OwnCustody'
<1>1. halted' = [halted EXCEPT ![p] = halted'[p]] /\ halted'[p] \in HaltReason
  BY InCustody DEF LoseJournalWrite, HaltReason, OwnCustody, TypeOK
<1>2. QED
  BY <1>1, ThreadEnds DEF LoseJournalWrite

LEMMA ExitAbandonedSafe ==
  ASSUME OwnCustody, NEW p \in Profiles, ExitAbandoned(p)
  PROVE  OwnCustody'
<1>1. halted' = [halted EXCEPT ![p] = halted'[p]] /\ halted'[p] \in HaltReason
  BY InCustody DEF ExitAbandoned, OwnCustody, TypeOK
<1>2. QED
  BY <1>1, ThreadEnds DEF ExitAbandoned

-----------------------------------------------------------------------------
(* Exits.                                                                   *)

\* The orders to cancel come from the journal, so they are own ones.
LEMMA CancelThenSellSafe ==
  ASSUME OwnCustody, NEW p \in Profiles, NEW path \in {"poll", "ai"}, NEW q \in Qty,
         NEW asked \in SUBSET OwnOrders(p), CancelThenSell(p, path, asked, q)
  PROVE  OwnCustody'
<1>1. PICK landed \in Landings({o \in asked : Live(o) /\ ~Held(o)}) :
        /\ orders' = AfterCancel(p, {o \in asked : ~Held(o)}, landed)
        /\ trades' = [trades EXCEPT ![p] = ClearPointers(p, landed)]
        /\ flight' = [flight EXCEPT ![p] =
                        IF \E o \in StopsToCancel(p) : Held(o) THEN Idle
                        ELSE Cleared(path, q)]
        /\ UNCHANGED <<submitted, fresh, halted>>
  BY DEF CancelThenSell
<1>2. Kept /\ CancelsOnlyOwn'
  BY <1>1, CancelKeeps DEF OwnCustody
<1>3. OwnOrders(p) \subseteq OwnOrders(p)'
  BY <1>2, OwnOrdersGrow DEF OwnCustody, TypeOK
<1> DEFINE new == ClearPointers(p, landed)
<1>4. new = [i \in DOMAIN trades[p] |-> new[i]]
  BY DEF ClearPointers
<1>5. new \in Seq(JournalRow) /\ Named(OwnOrders(p), new)
  <2>1. ASSUME NEW i \in DOMAIN trades[p]
        PROVE  /\ new[i] \in JournalRow
               /\ new[i].oid = trades[p][i].oid
               /\ new[i].stop = trades[p][i].stop \/ new[i].stop = 0
    <3>1. trades[p][i] \in JournalRow
      BY InCustody
    <3>2. new[i] = trades[p][i] \/ new[i] = [trades[p][i] EXCEPT !.stop = 0]
      BY DEF ClearPointers
    <3>3. QED
      BY <3>1, <3>2 DEF JournalRow
  <2>2. QED
    BY <1>4, <2>1, RewrittenRows, InCustody
<1>6. /\ trades' = [trades EXCEPT ![p] = trades'[p]]
      /\ trades'[p] \in Seq(JournalRow) /\ Named(OwnOrders(p)', trades'[p])
  BY <1>1, <1>3, <1>5 DEF OwnCustody, TypeOK, Named
<1>7. /\ submitted' = [submitted EXCEPT ![p] = submitted'[p]]
      /\ submitted'[p] \subseteq OwnOrders(p)'
      /\ halted' = [halted EXCEPT ![p] = halted'[p]] /\ halted'[p] \in HaltReason
      /\ fresh' \in [Profiles -> BOOLEAN]
  BY <1>1, <1>3, InCustody DEF OwnCustody, TypeOK
<1>8. /\ flight' = [flight EXCEPT ![p] = flight'[p]]
      /\ flight'[p] = Idle \/ flight'[p] = Cleared(path, q)
  BY <1>1 DEF OwnCustody, TypeOK
<1>9. /\ flight'[p] \in Flight /\ flight'[p].pc # "sent"
      /\ flight'[p].pc \in {"poll", "ai"} => flight'[p].n \in Qty
  <2>1. Idle \in Flight /\ Idle.pc = "idle"
    BY DEF Idle, Flight
  <2>2. Cleared(path, q) \in Flight /\ Cleared(path, q).pc \in {"poll", "ai"}
        /\ Cleared(path, q).n = q
    BY DEF Cleared, Flight, Qty
  <2>3. QED
    BY <1>8, <2>1, <2>2
<1>10. QED
  BY <1>2, <1>6, <1>7, <1>8, <1>9, ProfileStep

\* The pointers of any rows of the journal are own orders.
LEMMA StopsAreOwn ==
  ASSUME OwnCustody, NEW p \in Profiles
  PROVE  /\ StopsToCancel(p) \subseteq OwnOrders(p)
         /\ PointersOf(trades[p], "closed") \subseteq OwnOrders(p)
         /\ OwnWorking(p) \subseteq OwnOrders(p)
BY InCustody DEF StopsToCancel, PointersOf, Named, OwnWorking

LEMMA PollExitSafe ==
  ASSUME OwnCustody, NEW p \in Profiles, PollExit(p)
  PROVE  OwnCustody'
<1>1. OwnWorking(p) \cup StopsToCancel(p) \in SUBSET OwnOrders(p)
  BY StopsAreOwn
<1>2. QED
  BY <1>1, CancelThenSellSafe DEF PollExit

LEMMA AiSellSafe ==
  ASSUME OwnCustody, NEW p \in Profiles, NEW q \in Qty, AiSell(p, q)
  PROVE  OwnCustody'
<1>1. StopsToCancel(p) \in SUBSET OwnOrders(p)
  BY StopsAreOwn
<1>2. QED
  BY <1>1, CancelThenSellSafe DEF AiSell

\* A task that asks for the cancellation of own orders and leaves the journal.
LEMMA CancelOnlySafe ==
  ASSUME OwnCustody, NEW p \in Profiles, NEW asked \in SUBSET OwnOrders(p), NEW landed,
         orders' = AfterCancel(p, asked, landed),
         UNCHANGED <<trades, submitted, fresh, flight, halted>>
  PROVE  OwnCustody'
<1>1. Kept /\ CancelsOnlyOwn'
  BY CancelKeeps DEF OwnCustody
<1>2. QED
  BY <1>1, AccountStep DEF OwnCustody, TypeOK

LEMMA PollExitDeferredSafe ==
  ASSUME OwnCustody, NEW p \in Profiles, PollExitDeferred(p)
  PROVE  OwnCustody'
<1>1. PICK asked \in SUBSET {o \in OwnWorking(p) : ~Held(o)} :
        \E landed \in Landings(asked) : orders' = AfterCancel(p, asked, landed)
  BY DEF PollExitDeferred
<1>2. asked \in SUBSET OwnOrders(p)
  BY StopsAreOwn
<1>3. QED
  BY <1>1, <1>2, CancelOnlySafe DEF PollExitDeferred

LEMMA ExitSubmitSafe ==
  ASSUME OwnCustody, NEW p \in Profiles, ExitSubmit(p)
  PROVE  OwnCustody'
<1>1. flight[p].n \in Qty
  BY DEF ExitSubmit, OwnCustody, CustodyOf
<1>2. QED
  BY <1>1, SubmitSafe DEF ExitSubmit, Kinds

-----------------------------------------------------------------------------
(* The reconciler.                                                          *)

\* What the reconciler does to the rows of p: statuses, quantities and prices,
\* never an id.
LEMMA ReconciledRows ==
  ASSUME OwnCustody, NEW p \in Profiles, NEW used,
         NEW rows \in Seq(JournalRow), Named(OwnOrders(p), rows)
  PROVE  /\ Reconciled(rows, used) \in Seq(JournalRow)
         /\ Named(OwnOrders(p), Reconciled(rows, used))
<1> DEFINE new == Reconciled(rows, used)
<1>1. \A i \in DOMAIN rows : rows[i] \in JournalRow
  BY LenProperties, ElementOfSeq
<1>2. \A i \in DOMAIN rows : orders[rows[i].oid].filled \in 0..MaxQty
  BY InCustody DEF Named, Order
<1>3. ASSUME NEW i \in DOMAIN rows
      PROVE  /\ new[i] \in JournalRow
             /\ new[i].oid = rows[i].oid
             /\ new[i].stop = rows[i].stop
  <2>1. /\ BookFill(rows[i]) \in JournalRow
        /\ BookFill(rows[i]).oid = rows[i].oid
        /\ BookFill(rows[i]).stop = rows[i].stop
    BY <1>1, <1>2 DEF BookFill, JournalRow
  <2>2. \/ new[i] = BookFill(rows[i])
        \/ \E st \in RowStatus : new[i] = [rows[i] EXCEPT !.st = st]
        \/ new[i] = [BookFill(rows[i]) EXCEPT !.st = "closed"]
        \/ new[i] = rows[i]
    BY Zenon DEF Reconciled, RowStatus
  <2>3. QED
    BY <1>1, <2>1, <2>2 DEF JournalRow, RowStatus
<1>4. new = [i \in DOMAIN rows |-> new[i]]
  BY DEF Reconciled
<1>5. QED
  BY <1>3, <1>4, RewrittenRows

LEMMA HaltAfterTyped ==
  ASSUME OwnCustody, NEW p \in Profiles, NEW rows, NEW used
  PROVE  HaltAfter(p, rows, used) \in HaltReason
BY InCustody DEF HaltAfter, HaltReason

\* The rows rebuilt for lost writes are of orders of the own ledger.
LEMMA RebuiltRows ==
  ASSUME OwnCustody, NEW p \in Profiles, NEW s \in RebuildOrders(p)
  PROVE  Rebuilt(p, s) \in Seq(JournalRow) /\ Named(OwnOrders(p), Rebuilt(p, s))
<1> DEFINE n == Cardinality(ToRebuild(p))
           tail == [i \in DOMAIN s |-> Row(s[i], "buy", orders[s[i]].filled, "open", TRUE)]
<1>1. ToRebuild(p) \subseteq OwnOrders(p)
  BY InCustody DEF ToRebuild, Unjournaled
<1>2. n \in Nat
  <2>1. IsFiniteSet(OrderIds)
    BY LenProperties, FS_Interval DEF OwnCustody, TypeOK, OrderIds
  <2>2. ToRebuild(p) \in SUBSET OrderIds
    BY <1>1, InCustody
  <2>3. QED
    BY <2>1, <2>2, FS_Subset, FS_CardinalityType
<1>3. s \in [1..n -> ToRebuild(p)]
  BY DEF RebuildOrders, InSomeOrder, Bijection, Injection
<1>4. \A i \in 1..n : /\ tail[i] \in JournalRow
                       /\ tail[i].oid \in OwnOrders(p)
                       /\ tail[i].stop = 0
  BY <1>1, <1>3, InCustody DEF Row, JournalRow, RowStatus, Order
<1>5. tail \in Seq(JournalRow) /\ Len(tail) = n /\ DOMAIN tail = 1..n
  <2>1. tail \in [1..n -> JournalRow]
    BY <1>3, <1>4
  <2>2. QED
    BY <1>2, <2>1, FunctionIsSeq
<1> DEFINE rows == trades[p]
<1>6. rows \in Seq(JournalRow) /\ Named(OwnOrders(p), rows)
  BY InCustody
<1>7. Rebuilt(p, s) = rows \o tail
  BY DEF Rebuilt
<1> HIDE DEF rows, tail, n
<1>8. /\ rows \o tail \in Seq(JournalRow)
      /\ Len(rows \o tail) = Len(rows) + Len(tail)
      /\ \A i \in 1..Len(rows) + Len(tail) :
           (rows \o tail)[i] = IF i <= Len(rows) THEN rows[i] ELSE tail[i - Len(rows)]
  BY <1>5, <1>6, ConcatProperties
<1>9. Named(OwnOrders(p), rows \o tail)
  BY <1>2, <1>4, <1>5, <1>6, <1>8, LenProperties DEF Named
<1>10. QED
  BY <1>7, <1>8, <1>9

LEMMA FreshenSafe ==
  ASSUME OwnCustody, NEW p \in Profiles, Freshen(p)
  PROVE  OwnCustody'
<1>1. PICK s \in RebuildOrders(p) :
        /\ trades' = [trades EXCEPT ![p] = Reconciled(Rebuilt(p, s), {})]
        /\ submitted' = [submitted EXCEPT ![p] = Unrecovered(p, Rebuilt(p, s))]
        /\ halted' = [halted EXCEPT ![p] = HaltAfter(p, Rebuilt(p, s), {})]
  BY DEF Freshen
<1>2. Kept /\ CancelsOnlyOwn' /\ OwnOrders(p)' = OwnOrders(p)
  BY SameOrdersKept DEF Freshen, OwnCustody
<1> DEFINE rows == Rebuilt(p, s)
<1>3. rows \in Seq(JournalRow) /\ Named(OwnOrders(p), rows)
  BY RebuiltRows
<1> HIDE DEF rows
<1>4. /\ Reconciled(rows, {}) \in Seq(JournalRow)
      /\ Named(OwnOrders(p), Reconciled(rows, {}))
  BY <1>3, ReconciledRows
<1>5. /\ trades' = [trades EXCEPT ![p] = trades'[p]]
      /\ trades'[p] \in Seq(JournalRow) /\ Named(OwnOrders(p)', trades'[p])
  <2>1. trades'[p] = Reconciled(rows, {})
    BY <1>1 DEF OwnCustody, TypeOK, rows
  <2>2. trades' = [trades EXCEPT ![p] = trades'[p]]
    BY <1>1 DEF OwnCustody, TypeOK
  <2>3. QED
    BY <1>2, <1>4, <2>1, <2>2
<1>6. /\ submitted' = [submitted EXCEPT ![p] = submitted'[p]]
      /\ submitted'[p] \subseteq OwnOrders(p)'
  BY <1>1, <1>2, InCustody DEF Unrecovered, OwnCustody, TypeOK
<1>7. halted' = [halted EXCEPT ![p] = halted'[p]] /\ halted'[p] \in HaltReason
  BY <1>1, HaltAfterTyped DEF OwnCustody, TypeOK
<1>8. /\ fresh' \in [Profiles -> BOOLEAN]
      /\ flight' = [flight EXCEPT ![p] = flight'[p]] /\ flight'[p] = flight[p]
  BY DEF Freshen, OwnCustody, TypeOK
<1>9. /\ flight'[p] \in Flight /\ flight'[p].pc # "sent"
      /\ flight'[p].pc \in {"poll", "ai"} => flight'[p].n \in Qty
  BY <1>8, InCustody DEF Freshen, OwnCustody, CustodyOf
<1>10. QED
  BY <1>2, <1>5, <1>6, <1>7, <1>8, <1>9, ProfileStep

LEMMA ReconcileTaskSafe ==
  ASSUME OwnCustody, NEW p \in Profiles, ReconcileTask(p)
  PROVE  OwnCustody'
<1> DEFINE new == Reconciled(trades[p], JournaledSells)
<1>1. Kept /\ CancelsOnlyOwn' /\ OwnOrders(p)' = OwnOrders(p)
  BY SameOrdersKept DEF ReconcileTask, OwnCustody
<1>2. new \in Seq(JournalRow) /\ Named(OwnOrders(p), new)
  BY InCustody, ReconciledRows
<1>3. trades' = [trades EXCEPT ![p] = new]
  BY DEF ReconcileTask
<1> HIDE DEF new
<1>4. /\ trades' = [trades EXCEPT ![p] = trades'[p]]
      /\ trades'[p] \in Seq(JournalRow) /\ Named(OwnOrders(p)', trades'[p])
  BY <1>1, <1>2, <1>3 DEF OwnCustody, TypeOK
<1>5. /\ halted' = [halted EXCEPT ![p] = halted'[p]] /\ halted'[p] \in HaltReason
      /\ fresh' \in [Profiles -> BOOLEAN]
  BY HaltAfterTyped DEF ReconcileTask, OwnCustody, TypeOK
<1>6. /\ submitted' = [submitted EXCEPT ![p] = submitted'[p]]
      /\ submitted'[p] \subseteq OwnOrders(p)'
      /\ flight' = [flight EXCEPT ![p] = flight'[p]] /\ flight'[p] \in Flight
      /\ flight'[p].pc = "idle"
  BY <1>1, InCustody DEF ReconcileTask, IdleAt, OwnCustody, TypeOK
<1>7. QED
  BY <1>1, <1>4, <1>5, <1>6, ProfileStep

-----------------------------------------------------------------------------
(* The other tasks.                                                         *)

\* A task that rewrites p's rows, leaves the account, and names nothing new.
LEMMA RewriteSafe ==
  ASSUME OwnCustody, NEW p \in Profiles, NEW new \in Seq(JournalRow),
         Named(OwnOrders(p), new),
         trades' = [trades EXCEPT ![p] = new],
         UNCHANGED <<orders, submitted, fresh, flight, halted>>
  PROVE  OwnCustody'
<1>1. Kept /\ CancelsOnlyOwn' /\ OwnOrders(p)' = OwnOrders(p)
  BY SameOrdersKept DEF OwnCustody
<1>2. /\ trades' = [trades EXCEPT ![p] = trades'[p]]
      /\ trades'[p] \in Seq(JournalRow) /\ Named(OwnOrders(p)', trades'[p])
  BY <1>1 DEF OwnCustody, TypeOK
<1>3. QED
  BY <1>1, <1>2, JournalStep

LEMMA UpdateFillsSafe ==
  ASSUME OwnCustody, NEW p \in Profiles, NEW i \in DOMAIN trades[p], UpdateFills(p, i)
  PROVE  OwnCustody'
<1> DEFINE old == trades[p]
           r == old[i]
           o == r.oid
           trued == [r EXCEPT !.priced = TRUE,
                              !.qty = IF Dead(o) THEN orders[o].filled ELSE @]
           stamped == [old EXCEPT ![i] = trued]
           confirms == r.side = "sell" /\
                       r.st \in {"open", "pending_fill", "pending_protective"}
           rows == IF ~confirms THEN stamped
                   ELSE [k \in DOMAIN stamped |->
                           IF k = i \/ (/\ k \in FifoLotsFullyConsumed(stamped)
                                        /\ stamped[k].st = "open")
                             THEN [stamped[k] EXCEPT !.st = "closed"]
                             ELSE stamped[k]]
<1>1. /\ old \in Seq(JournalRow) /\ DOMAIN old = 1..Len(old)
      /\ Named(OwnOrders(p), old)
      /\ \A k \in DOMAIN old : old[k] \in JournalRow
      /\ i \in DOMAIN old
  BY InCustody
<1>2. orders[o].filled \in 0..MaxQty
  BY <1>1, InCustody DEF Named, Order
<1>3. trued \in JournalRow /\ trued.oid = r.oid /\ trued.stop = r.stop
  BY <1>1, <1>2 DEF JournalRow
<1> HIDE DEF trued
<1>4. stamped \in Seq(JournalRow) /\ Named(OwnOrders(p), stamped)
      /\ DOMAIN stamped = DOMAIN old
  <2>1. stamped = [k \in DOMAIN old |-> stamped[k]]
    OBVIOUS
  <2>2. \A k \in DOMAIN old :
          /\ stamped[k] \in JournalRow
          /\ stamped[k].oid = old[k].oid
          /\ stamped[k].stop = old[k].stop
    BY <1>1, <1>3
  <2>3. DOMAIN stamped = DOMAIN old
    OBVIOUS
  <2> HIDE DEF stamped, old
  <2>4. stamped \in Seq(JournalRow) /\ Named(OwnOrders(p), stamped)
    BY <1>1, <2>1, <2>2, RewrittenRows
  <2>5. QED
    BY <2>3, <2>4
<1>5. rows \in Seq(JournalRow) /\ Named(OwnOrders(p), rows)
  <2> HIDE DEF stamped
  <2>1. CASE ~confirms
    BY <1>4, <2>1
  <2>2. CASE confirms
    <3>1. rows = [k \in DOMAIN stamped |-> rows[k]]
      BY <2>2
    <3>2. ASSUME NEW k \in DOMAIN stamped
          PROVE  /\ rows[k] \in JournalRow
                 /\ rows[k].oid = stamped[k].oid
                 /\ rows[k].stop = stamped[k].stop
      <4>1. stamped[k] \in JournalRow
        BY <1>4, LenProperties, ElementOfSeq
      <4>2. rows[k] = stamped[k] \/ rows[k] = [stamped[k] EXCEPT !.st = "closed"]
        BY <2>2
      <4>3. QED
        BY <4>1, <4>2 DEF JournalRow, RowStatus
    <3> HIDE DEF rows
    <3>3. QED
      BY <1>4, <3>1, <3>2, RewrittenRows
  <2>3. QED
    BY <2>1, <2>2
<1>6. CASE trades' = [trades EXCEPT ![p] = rows]
  BY <1>5, <1>6, RewriteSafe DEF UpdateFills
<1>7. CASE trades' = [trades EXCEPT ![p][i].st = "canceled"]
  <2> DEFINE new == [old EXCEPT ![i].st = "canceled"]
  <2>1. new = [k \in DOMAIN old |-> new[k]]
    OBVIOUS
  <2>2. \A k \in DOMAIN old :
          /\ new[k] \in JournalRow
          /\ new[k].oid = old[k].oid
          /\ new[k].stop = old[k].stop
    BY <1>1 DEF JournalRow, RowStatus
  <2>3. trades' = [trades EXCEPT ![p] = new]
    BY <1>7
  <2> HIDE DEF new, old
  <2>4. new \in Seq(JournalRow) /\ Named(OwnOrders(p), new)
    BY <1>1, <2>1, <2>2, RewrittenRows
  <2>5. QED
    BY <2>3, <2>4, RewriteSafe DEF UpdateFills
<1>8. trades' = [trades EXCEPT ![p] = rows]
      \/ trades' = [trades EXCEPT ![p][i].st = "canceled"]
  BY DEF UpdateFills, trued
<1>9. QED
  BY <1>6, <1>7, <1>8

LEMMA CancelStaleSafe ==
  ASSUME OwnCustody, NEW p \in Profiles, CancelStale(p)
  PROVE  OwnCustody'
<1> DEFINE stale == {o \in OwnIds(p) \ ProtectiveIds(p) :
                       orders[o].kind = "entry" /\ Live(o)}
<1>1. stale \in SUBSET OwnOrders(p)
  BY InCustody
<1>2. PICK landed \in Landings(stale) : orders' = AfterCancel(p, stale, landed)
  BY DEF CancelStale
<1>3. UNCHANGED <<trades, submitted, fresh, flight, halted>>
  BY DEF CancelStale
<1> HIDE DEF stale
<1>4. QED
  BY <1>1, <1>2, <1>3, CancelOnlySafe

LEMMA SyncPendingSafe ==
  ASSUME OwnCustody, NEW p \in Profiles, SyncPending(p)
  PROVE  OwnCustody'
<1> DEFINE new == [i \in DOMAIN trades[p] |->
                     LET r == trades[p][i] IN
                     IF r.st = "pending_protective" /\ Canceled(r.oid) /\ ~Held(r.oid)
                       THEN [r EXCEPT !.st = "canceled"] ELSE r]
<1>1. new = [i \in DOMAIN trades[p] |-> new[i]]
  OBVIOUS
<1>2. ASSUME NEW i \in DOMAIN trades[p]
      PROVE  /\ new[i] \in JournalRow
             /\ new[i].oid = trades[p][i].oid
             /\ new[i].stop = trades[p][i].stop
  <2>1. new[i] = trades[p][i] \/ new[i] = [trades[p][i] EXCEPT !.st = "canceled"]
    OBVIOUS
  <2>2. trades[p][i] \in JournalRow
    BY InCustody
  <2> HIDE DEF new
  <2>3. QED
    BY <2>1, <2>2 DEF JournalRow, RowStatus
<1>3. trades' = [trades EXCEPT ![p] = new]
  BY DEF SyncPending
<1> HIDE DEF new
<1>4. new \in Seq(JournalRow) /\ Named(OwnOrders(p), new)
  BY <1>1, <1>2, RewrittenRows, InCustody
<1>5. QED
  BY <1>3, <1>4, RewriteSafe DEF SyncPending

\* The sweep marks a dead pending row before it does anything else.
LEMMA MarkedRows ==
  ASSUME OwnCustody, NEW p \in Profiles
  PROVE  /\ Marked(trades[p]) \in Seq(JournalRow)
         /\ Named(OwnOrders(p), Marked(trades[p]))
<1> DEFINE new == Marked(trades[p])
<1>1. new = [i \in DOMAIN trades[p] |-> new[i]]
  BY DEF Marked
<1>2. ASSUME NEW i \in DOMAIN trades[p]
      PROVE  /\ new[i] \in JournalRow
             /\ new[i].oid = trades[p][i].oid
             /\ new[i].stop = trades[p][i].stop
  <2>1. new[i] = trades[p][i] \/ new[i] = [trades[p][i] EXCEPT !.st = "canceled"]
    BY DEF Marked
  <2>2. trades[p][i] \in JournalRow
    BY InCustody
  <2> HIDE DEF new
  <2>3. QED
    BY <2>1, <2>2 DEF JournalRow, RowStatus
<1> HIDE DEF new
<1>3. new \in Seq(JournalRow) /\ Named(OwnOrders(p), new)
  BY <1>1, <1>2, RewrittenRows, InCustody
<1>4. QED
  BY <1>3 DEF new

\* A pointer to an own order is written to one row.
LEMMA LinkedRow ==
  ASSUME NEW rows \in Seq(JournalRow), NEW own, Named(own, rows), NEW k,
         NEW o \in Nat, o \in own
  PROVE  /\ [rows EXCEPT ![k].stop = o] \in Seq(JournalRow)
         /\ Named(own, [rows EXCEPT ![k].stop = o])
<1> DEFINE new == [rows EXCEPT ![k].stop = o]
<1>1. new = [i \in DOMAIN rows |-> new[i]]
  OBVIOUS
<1>2. ASSUME NEW i \in DOMAIN rows
      PROVE  /\ new[i] \in JournalRow
             /\ new[i].oid = rows[i].oid
             /\ new[i].stop = rows[i].stop \/ new[i].stop \in own
  <2>1. rows[i] \in JournalRow
    BY LenProperties, ElementOfSeq
  <2>2. new[i] = rows[i] \/ new[i] = [rows[i] EXCEPT !.stop = o]
    OBVIOUS
  <2> HIDE DEF new
  <2>3. QED
    BY <2>1, <2>2 DEF JournalRow
<1> HIDE DEF new
<1>3. new \in Seq(JournalRow) /\ Named(own, new)
  BY <1>1, <1>2, RewrittenRows
<1>4. QED
  BY <1>3 DEF new

LEMMA StopRefusedSafe ==
  ASSUME OwnCustody, NEW p \in Profiles, StopRefused(p)
  PROVE  OwnCustody'
<1>1. trades' = [trades EXCEPT ![p] = Marked(trades[p])]
  BY DEF StopRefused
<1>2. QED
  BY <1>1, MarkedRows, RewriteSafe DEF StopRefused

LEMMA HealPointerSafe ==
  ASSUME OwnCustody, NEW p \in Profiles, HealPointer(p)
  PROVE  OwnCustody'
<1>1. PICK o \in Coverage(p) :
        trades' = [trades EXCEPT ![p] =
                     [Marked(trades[p]) EXCEPT ![Protected(p)].stop = o]]
  BY DEF HealPointer
<1>2. o \in OwnOrders(p) /\ o \in Nat
  BY StopsAreOwn, InCustody DEF Coverage
<1> DEFINE new == [Marked(trades[p]) EXCEPT ![Protected(p)].stop = o]
<1>3. new \in Seq(JournalRow) /\ Named(OwnOrders(p), new)
  BY <1>2, MarkedRows, LinkedRow
<1>4. trades' = [trades EXCEPT ![p] = new]
  BY <1>1
<1> HIDE DEF new
<1>5. QED
  BY <1>3, <1>4, RewriteSafe DEF HealPointer

\* The order of the sweep is the profile's own.
LEMMA StopOrderKeeps ==
  ASSUME OwnCustody, NEW p \in Profiles, PlaceableStop(p),
         NEW st \in OrderStatus, NEW by \in {p, Nobody},
         orders' = Append(orders, [NewOrder(p, "protective", BookQty(trades[p]))
                                     EXCEPT !.st = st, !.canceler = by])
  PROVE  /\ Kept /\ CancelsOnlyOwn'
         /\ Len(orders) + 1 \in Nat
         /\ Len(orders) + 1 \in OwnOrders(p)'
<1> DEFINE q == BookQty(trades[p])
           x == [NewOrder(p, "protective", q) EXCEPT !.st = st, !.canceler = by]
<1>1. q \in Qty
  BY DEF PlaceableStop, NeedsStop, SweepProceeds
<1> HIDE DEF q
<1>2. x \in Order /\ x.prof = p /\ x.canceler \in {p, Nobody}
  <2>1. NewOrder(p, "protective", q) \in Order
        /\ NewOrder(p, "protective", q).prof = p
    BY <1>1, AccountAssumption DEF NewOrder, Order, OrderStatus, Kinds, Qty
  <2>2. QED
    BY <2>1 DEF Order
<1>3. orders' = Append(orders, x)
  BY DEF q
<1> HIDE DEF x
<1>4. QED
  BY <1>2, <1>3, SubmitKeeps DEF OwnCustody

\* The sweep records the id of the order it places in the ledger.
LEMMA LedgerGrows ==
  ASSUME OwnCustody, NEW p \in Profiles, Kept, NEW o \in OwnOrders(p)',
         submitted' = [submitted EXCEPT ![p] = @ \cup {o}],
         UNCHANGED <<fresh, flight, halted>>
  PROVE  /\ submitted' = [submitted EXCEPT ![p] = submitted'[p]]
         /\ submitted'[p] \subseteq OwnOrders(p)'
         /\ flight' = [flight EXCEPT ![p] = flight'[p]]
         /\ flight'[p] \in Flight
         /\ flight'[p].pc = "sent" => flight'[p].n \in OwnOrders(p)'
         /\ flight'[p].pc \in {"poll", "ai"} => flight'[p].n \in Qty
         /\ halted' = [halted EXCEPT ![p] = halted'[p]]
         /\ halted'[p] \in HaltReason
         /\ fresh' \in [Profiles -> BOOLEAN]
<1>1. OwnOrders(p) \subseteq OwnOrders(p)'
  BY OwnOrdersGrow DEF OwnCustody, TypeOK
<1>2. CustodyOf(p)
  BY DEF OwnCustody
<1>3. /\ submitted' = [submitted EXCEPT ![p] = submitted'[p]]
      /\ submitted'[p] \subseteq OwnOrders(p)'
  BY <1>1, InCustody DEF OwnCustody, TypeOK
<1>4. QED
  BY <1>1, <1>2, <1>3, InCustody DEF OwnCustody, TypeOK, CustodyOf

LEMMA PlaceStopSafe ==
  ASSUME OwnCustody, NEW p \in Profiles, PlaceStop(p)
  PROVE  OwnCustody'
<1> DEFINE o == Len(orders) + 1
           q == BookQty(trades[p])
           linked == [Marked(trades[p]) EXCEPT ![Protected(p)].stop = o]
           r == Row(o, "sell", q, "pending_protective", FALSE)
<1>1. q \in Qty
  BY DEF PlaceStop, PlaceableStop, NeedsStop, SweepProceeds
<1>2. /\ orders' = Append(orders, NewOrder(p, "protective", q))
      /\ submitted' = [submitted EXCEPT ![p] = @ \cup {o}]
      /\ trades' = [trades EXCEPT ![p] = Append(linked, r)]
      /\ UNCHANGED <<fresh, flight, halted>>
  BY DEF PlaceStop
<1> HIDE DEF q
<1>3. Kept /\ CancelsOnlyOwn' /\ o \in Nat /\ o \in OwnOrders(p)'
  <2>1. NewOrder(p, "protective", q) \in Order
        /\ NewOrder(p, "protective", q).prof = p
        /\ NewOrder(p, "protective", q).canceler = Nobody
    BY <1>1, AccountAssumption DEF NewOrder, Order, OrderStatus, Kinds, Qty
  <2>2. QED
    BY <1>2, <2>1, SubmitKeeps DEF OwnCustody
<1>4. OwnOrders(p) \subseteq OwnOrders(p)'
  BY <1>3, OwnOrdersGrow DEF OwnCustody, TypeOK
<1>5. r \in JournalRow /\ r.oid = o /\ r.stop = 0
  BY <1>1, <1>3, AccountAssumption DEF Row, JournalRow, RowStatus, Qty
<1>6. Marked(trades[p]) \in Seq(JournalRow)
      /\ Named(OwnOrders(p)', Marked(trades[p]))
  BY <1>4, MarkedRows DEF Named
<1> HIDE DEF o, r
<1>7. linked \in Seq(JournalRow) /\ Named(OwnOrders(p)', linked)
  BY <1>3, <1>6, LinkedRow
<1> HIDE DEF linked
<1>8. Append(linked, r) \in Seq(JournalRow) /\ Named(OwnOrders(p)', Append(linked, r))
  BY <1>3, <1>5, <1>7, AppendedRow
<1>9. /\ trades' = [trades EXCEPT ![p] = trades'[p]]
      /\ trades'[p] \in Seq(JournalRow) /\ Named(OwnOrders(p)', trades'[p])
  BY <1>2, <1>8 DEF OwnCustody, TypeOK
<1>10. QED
  BY <1>2, <1>3, <1>9, LedgerGrows, ProfileStep

LEMMA RollBackStopSafe ==
  ASSUME OwnCustody, NEW p \in Profiles, RollBackStop(p)
  PROVE  OwnCustody'
<1> DEFINE o == Len(orders) + 1
<1>1. PICK st \in {"canceled", "pending_cancel"} :
        orders' = Append(orders, [NewOrder(p, "protective", BookQty(trades[p]))
                                    EXCEPT !.st = st, !.canceler = p])
  BY DEF RollBackStop
<1>2. Kept /\ CancelsOnlyOwn' /\ o \in OwnOrders(p)'
  BY <1>1, StopOrderKeeps DEF RollBackStop, OrderStatus
<1>3. OwnOrders(p) \subseteq OwnOrders(p)'
  BY <1>2, OwnOrdersGrow DEF OwnCustody, TypeOK
<1>4. /\ submitted' = [submitted EXCEPT ![p] = @ \cup {o}]
      /\ UNCHANGED <<fresh, flight, halted>>
      /\ trades' = [trades EXCEPT ![p] = Marked(trades[p])]
  BY DEF RollBackStop
<1>5. /\ trades' = [trades EXCEPT ![p] = trades'[p]]
      /\ trades'[p] \in Seq(JournalRow) /\ Named(OwnOrders(p)', trades'[p])
  BY <1>3, <1>4, MarkedRows DEF Named, OwnCustody, TypeOK
<1> HIDE DEF o
<1>6. QED
  BY <1>2, <1>4, <1>5, LedgerGrows, ProfileStep

LEMMA CancelOrphanedSafe ==
  ASSUME OwnCustody, NEW p \in Profiles, CancelOrphaned(p)
  PROVE  OwnCustody'
<1> DEFINE rows == trades[p]
           flat == OpenEntries(rows) = {}
           stops == PointersOf(rows, "closed") \cup
                    IF flat THEN {rows[i].oid : i \in RowsOf(rows, "sell",
                                                       {"pending_protective"})}
                    ELSE {}
           asked == {o \in stops : Live(o)}
           new(landed) ==
             [i \in DOMAIN rows |->
                LET r == rows[i] IN
                IF r.st = "closed" /\ r.stop # NoOrder
                     /\ (r.stop \in landed \/ Canceled(r.stop))
                  THEN [r EXCEPT !.stop = NoOrder]
                ELSE IF r.st = "pending_protective" /\ flat
                     /\ (r.oid \in landed \/ Canceled(r.oid))
                  THEN [r EXCEPT !.st = "canceled"]
                ELSE r]
<1>1. PICK landed \in Landings(asked) :
        /\ orders' = AfterCancel(p, asked, landed)
        /\ trades' = [trades EXCEPT ![p] = new(landed)]
  BY DEF CancelOrphaned
<1>2. asked \in SUBSET OwnOrders(p)
  BY InCustody, StopsAreOwn DEF Named, RowsOf
<1>3. Kept /\ CancelsOnlyOwn'
  <2> HIDE DEF asked
  <2>1. QED
    BY <1>1, <1>2, CancelKeeps DEF OwnCustody
<1>4. OwnOrders(p) \subseteq OwnOrders(p)'
  BY <1>3, OwnOrdersGrow DEF OwnCustody, TypeOK
<1> DEFINE fresher == new(landed)
<1>5. fresher = [i \in DOMAIN trades[p] |-> fresher[i]]
  OBVIOUS
<1>6. ASSUME NEW i \in DOMAIN trades[p]
      PROVE  /\ fresher[i] \in JournalRow
             /\ fresher[i].oid = trades[p][i].oid
             /\ fresher[i].stop = trades[p][i].stop \/ fresher[i].stop = 0
  <2>1. \/ fresher[i] = trades[p][i]
        \/ fresher[i] = [trades[p][i] EXCEPT !.st = "canceled"]
        \/ fresher[i] = [trades[p][i] EXCEPT !.stop = 0]
    BY DEF NoOrder
  <2>2. trades[p][i] \in JournalRow
    BY InCustody
  <2> HIDE DEF fresher
  <2>3. QED
    BY <2>1, <2>2 DEF JournalRow, RowStatus
<1>7. trades' = [trades EXCEPT ![p] = fresher]
  BY <1>1
<1> HIDE DEF fresher
<1>8. fresher \in Seq(JournalRow) /\ Named(OwnOrders(p), fresher)
  BY <1>5, <1>6, RewrittenRows, InCustody
<1>9. /\ trades' = [trades EXCEPT ![p] = trades'[p]]
      /\ trades'[p] \in Seq(JournalRow) /\ Named(OwnOrders(p)', trades'[p])
  BY <1>4, <1>7, <1>8 DEF OwnCustody, TypeOK, Named
<1>10. UNCHANGED <<submitted, fresh, flight, halted>>
  BY DEF CancelOrphaned
<1>11. QED
  BY <1>3, <1>9, <1>10, JournalStep

-----------------------------------------------------------------------------
(* The theorems.                                                            *)

\* Every step of every profile, of the exchange and of the scheduler keeps the
\* custody of the order ids.
LEMMA NextKeepsCustody ==
  ASSUME OwnCustody, [Next]_vars
  PROVE  OwnCustody'
<1>1. CASE ExchangeStep
  <2>1. PICK o \in OrderIds : (\E k \in Qty : Fill(o, k)) \/ Terminate(o)
    BY <1>1 DEF ExchangeStep
  <2>2. Kept /\ CancelsOnlyOwn'
    BY <2>1, ExchangeKeeps DEF OwnCustody
  <2>3. QED
    BY <1>1, <2>2, AccountStep DEF ExchangeStep, OwnCustody, TypeOK
<1>2. CASE CycleStart
  <2>1. Kept /\ CancelsOnlyOwn'
    BY <1>2, SameOrdersKept DEF CycleStart, OwnCustody
  <2>2. QED
    BY <1>2, <2>1, AccountStep DEF CycleStart, OwnCustody, TypeOK
<1>3. ASSUME NEW p \in Workers, OrderStep(p) PROVE OwnCustody'
  <2>1. p \in Profiles
    BY LifecycleAssumption
  <2>2. CASE \E q \in Qty : SubmitBuy(p, q)
    BY <2>1, <2>2, SubmitSafe DEF SubmitBuy, Kinds
  <2>3. CASE LogTrade(p)
    BY <2>1, <2>3, LogTradeSafe
  <2>4. CASE LoseJournalWrite(p)
    BY <2>1, <2>4, LoseJournalWriteSafe
  <2>5. CASE PollExit(p)
    BY <2>1, <2>5, PollExitSafe
  <2>6. CASE PollExitDeferred(p)
    BY <2>1, <2>6, PollExitDeferredSafe
  <2>7. CASE \E q \in Qty : AiSell(p, q)
    BY <2>1, <2>7, AiSellSafe
  <2>8. CASE ExitSubmit(p)
    BY <2>1, <2>8, ExitSubmitSafe
  <2>9. CASE ExitAbandoned(p)
    BY <2>1, <2>9, ExitAbandonedSafe
  <2>10. QED
    BY <1>3, <2>2, <2>3, <2>4, <2>5, <2>6, <2>7, <2>8, <2>9 DEF OrderStep
<1>4. ASSUME NEW p \in Workers, TaskStep(p) PROVE OwnCustody'
  <2>1. p \in Profiles
    BY LifecycleAssumption
  <2>2. CASE Freshen(p)
    BY <2>1, <2>2, FreshenSafe
  <2>3. CASE ReconcileTask(p)
    BY <2>1, <2>3, ReconcileTaskSafe
  <2>4. CASE \E i \in DOMAIN trades[p] : UpdateFills(p, i)
    BY <2>1, <2>4, UpdateFillsSafe
  <2>5. CASE CancelStale(p)
    BY <2>1, <2>5, CancelStaleSafe
  <2>6. CASE CancelOrphaned(p)
    BY <2>1, <2>6, CancelOrphanedSafe
  <2>7. CASE SyncPending(p)
    BY <2>1, <2>7, SyncPendingSafe
  <2>8. CASE HealPointer(p)
    BY <2>1, <2>8, HealPointerSafe
  <2>9. CASE PlaceStop(p)
    BY <2>1, <2>9, PlaceStopSafe
  <2>10. CASE RollBackStop(p)
    BY <2>1, <2>10, RollBackStopSafe
  <2>11. CASE StopRefused(p)
    BY <2>1, <2>11, StopRefusedSafe
  <2>12. QED
    BY <1>4, <2>2, <2>3, <2>4, <2>5, <2>6, <2>7, <2>8, <2>9, <2>10, <2>11 DEF TaskStep
<1>5. ASSUME NEW p \in Workers, ClearHalt(p) PROVE OwnCustody'
  <2>1. Kept /\ CancelsOnlyOwn'
    BY <1>5, SameOrdersKept DEF ClearHalt, OwnCustody
  <2>2. halted' \in [Profiles -> HaltReason]
    BY <1>5, LifecycleAssumption DEF ClearHalt, HaltReason, OwnCustody, TypeOK
  <2>3. QED
    BY <1>5, <2>1, <2>2, AccountStep DEF ClearHalt, OwnCustody, TypeOK
<1>6. CASE UNCHANGED vars
  <2>1. Kept /\ CancelsOnlyOwn'
    BY <1>6, SameOrdersKept DEF vars, OwnCustody
  <2>2. QED
    BY <1>6, <2>1, AccountStep DEF vars, OwnCustody, TypeOK
<1>7. QED
  BY <1>1, <1>2, <1>3, <1>4, <1>5, <1>6 DEF Next

LEMMA AlwaysInCustody == Spec => []OwnCustody
<1>1. Init => OwnCustody
  BY InitCustody
<1>2. OwnCustody /\ [Next]_vars => OwnCustody'
  BY NextKeepsCustody
<1>3. QED
  BY <1>1, <1>2, PTL DEF Spec

\* Orders, rows, ledgers, threads and halts are always well formed: a row's
\* quantity stays within the largest order although four tasks rewrite it.
THEOREM TypeCorrect == Spec => []TypeOK
<1>1. OwnCustody => TypeOK
  BY DEF OwnCustody
<1>2. QED
  BY <1>1, AlwaysInCustody, PTL

\* "Order-id ownership": whatever the profiles do in parallel on the shared
\* account, and whatever writes are lost, a journal names no sibling's order.
THEOREM JournalsNameOwnOrders == Spec => []OrderIdOwnership
<1>1. OwnCustody => OrderIdOwnership
  <2> SUFFICES ASSUME OwnCustody, NEW p \in Profiles, NEW o \in OwnIds(p)
               PROVE  o \in OrderIds /\ orders[o].prof = p
    BY DEF OrderIdOwnership
  <2>1. QED
    BY InCustody DEF OwnOrders
<1>2. QED
  BY <1>1, AlwaysInCustody, PTL

\* No task of a profile cancels an order of a sibling.
THEOREM NobodyCancelsForASibling == Spec => []CancelsOnlyOwn
<1>1. OwnCustody => CancelsOnlyOwn
  BY DEF OwnCustody
<1>2. QED
  BY <1>1, AlwaysInCustody, PTL

-----------------------------------------------------------------------------
(* Orders whose journal writes are lost.                                    *)

InFlight(p, o) == flight[p].pc = "sent" /\ flight[p].n = o
Ledger(p) == OidsOf(trades[p]) \cup submitted[p]

\* What a thread has sent is an entry or an exit, in the recovery ledger and
\* in no row yet.
SentIsRecorded(p) ==
  flight[p].pc = "sent" =>
    /\ flight[p].n \in submitted[p] \ OidsOf(trades[p])
    /\ orders[flight[p].n].kind # "protective"

\* An order that neither a row nor the thread names lost its row; a stop that
\* did was rolled back, at once unless cancels may land late.
Unbooked(o) ==
  LET p == orders[o].prof IN o \notin OidsOf(trades[p]) /\ ~InFlight(p, o)
WriteLost(o) ==
  /\ orders[o].kind \in LostWrites
  /\ orders[o].kind = "protective" => AsyncCancel \/ (Canceled(o) /\ ~Held(o))

\* An order that does not fill in pieces has all or nothing.
Whole(o) == Held(o) /\ ~Filled(o) => orders[o].kind \in PartialKinds

Trail ==
  /\ BookedOnce
  /\ \A p \in Profiles : SentIsRecorded(p)
  /\ \A o \in OrderIds : Whole(o) /\ (Unbooked(o) => WriteLost(o))

\* The kinds of order that may end with fills no row knows of, and what the
\* recovery may forget: a canceled order, with fills only of such a kind.
Leaky == {k \in LostWrites \cap PartialKinds : k = "protective" => AsyncCancel}
Forsaken(o) == Canceled(o) /\ (Held(o) => orders[o].kind \in Leaky)

-----------------------------------------------------------------------------
(* The account.                                                             *)

\* No order changes its kind, a canceled one changes no more, and what does
\* not fill in pieces still has all or nothing.
Evolves ==
  /\ orders' \in Seq(Order)
  /\ Len(orders) <= Len(orders')
  /\ \A o \in OrderIds :
       /\ orders'[o].prof = orders[o].prof /\ orders'[o].kind = orders[o].kind
       /\ Canceled(o) => orders'[o].st = orders[o].st /\ orders'[o].filled = orders[o].filled
       /\ Whole(o) => Whole(o)'

New == OrderIds' \ OrderIds

LEMMA SameOrdersEvolve ==
  ASSUME TypeOK, orders' = orders
  PROVE  Evolves /\ New = {}
BY LenProperties DEF TypeOK, Evolves, New, OrderIds, Whole, Held, Filled

LEMMA CancelEvolves ==
  ASSUME TypeOK, NEW p \in Profiles, NEW asked, NEW landed,
         orders' = AfterCancel(p, asked, landed)
  PROVE  Evolves /\ New = {}
<1>1. OrderIds = 1..Len(orders) /\ Len(orders) \in Nat
  BY LenProperties DEF TypeOK, OrderIds
<1>2. \A o \in OrderIds : orders[o] \in Order
  BY <1>1, ElementOfSeq DEF TypeOK
<1>3. ASSUME NEW o \in OrderIds
      PROVE  /\ orders'[o] \in Order
             /\ orders'[o].prof = orders[o].prof /\ orders'[o].kind = orders[o].kind
             /\ orders'[o].filled = orders[o].filled
             /\ orders'[o].st = orders[o].st \/ orders[o].st \in LiveStatus
  BY <1>2 DEF AfterCancel, Order, OrderStatus, Live
<1>4. orders' \in Seq(Order) /\ Len(orders') = Len(orders)
  <2>1. orders' \in [1..Len(orders) -> Order]
    BY <1>1, <1>3 DEF AfterCancel
  <2>2. QED
    BY <1>1, <2>1, FunctionIsSeq
<1>5. QED
  BY <1>1, <1>3, <1>4 DEF Evolves, New, OrderIds, Whole, Held, Filled, Canceled, LiveStatus

LEMMA ExchangeEvolves ==
  ASSUME TypeOK, NEW o \in OrderIds,
         \/ \E k \in Qty : Fill(o, k)
         \/ Terminate(o)
  PROVE  Evolves /\ New = {}
<1>1. OrderIds = 1..Len(orders) /\ Len(orders) \in Nat /\ orders[o] \in Order
  BY LenProperties, ElementOfSeq DEF TypeOK, OrderIds
<1>2. PICK x \in Order :
        /\ x.prof = orders[o].prof /\ x.kind = orders[o].kind
        /\ \/ x.filled = orders[o].filled
           \/ x.st = "filled"
           \/ x.kind \in PartialKinds
        /\ orders' = [orders EXCEPT ![o] = x]
  <2>1. CASE Terminate(o)
    <3> DEFINE x == [orders[o] EXCEPT !.st = "canceled",
                       !.canceler = IF @ = Nobody THEN Exchange ELSE @]
    <3>1. x \in Order /\ x.prof = orders[o].prof /\ x.kind = orders[o].kind
          /\ x.filled = orders[o].filled
      BY <1>1 DEF Order, OrderStatus
    <3>2. orders' = [orders EXCEPT ![o] = x]
      BY <1>1, <2>1 DEF Terminate, Order
    <3>. QED
      BY <3>1, <3>2
  <2>2. CASE \E k \in Qty : Fill(o, k)
    <3>1. PICK k \in Qty : Fill(o, k)
      BY <2>2
    <3>2. orders[o].filled + k \in 0..MaxQty
      BY <1>1, <3>1, AccountAssumption DEF Fill, Remaining, Order, Qty
    <3> DEFINE st == IF k = Remaining(o) THEN "filled"
                     ELSE IF orders[o].st = "pending_cancel" THEN orders[o].st
                     ELSE "partially_filled"
               x == [orders[o] EXCEPT !.filled = orders[o].filled + k, !.st = st]
    <3>3. x \in Order /\ x.prof = orders[o].prof /\ x.kind = orders[o].kind
          /\ x.st = st
      BY <1>1, <3>2 DEF Order, OrderStatus
    <3>4. orders' = [orders EXCEPT ![o] = x]
      BY <1>1, <3>1 DEF Fill, Order
    <3>5. st = "filled" \/ orders[o].kind \in PartialKinds
      BY <1>1, <3>1 DEF Fill, Remaining, Order, Qty
    <3> HIDE DEF x
    <3>6. QED
      BY <3>3, <3>4, <3>5
  <2>3. QED
    BY <2>1, <2>2
<1>3. orders' \in Seq(Order) /\ Len(orders') = Len(orders)
      /\ \A j \in OrderIds : orders'[j] = IF j = o THEN x ELSE orders[j]
  BY <1>1, <1>2, ExceptSeq DEF TypeOK
<1>4. orders[o].st \in LiveStatus
  BY DEF Fill, Terminate, Live
<1>5. Whole(o) => Whole(o)'
  BY <1>2, <1>3, <1>4 DEF Whole, Held, Filled, LiveStatus
<1>6. QED
  BY <1>1, <1>2, <1>3, <1>4, <1>5
  DEF Evolves, New, OrderIds, Canceled, Whole, Held, Filled, LiveStatus

LEMMA NewOrderEvolves ==
  ASSUME TypeOK, NEW x \in Order, x.filled = 0, orders' = Append(orders, x)
  PROVE  /\ Evolves /\ Len(orders) + 1 \in OrderIds' /\ New = {Len(orders) + 1}
         /\ orders'[Len(orders) + 1] = x /\ \A o \in New : Whole(o)'
<1>1. /\ orders' \in Seq(Order) /\ Len(orders') = Len(orders) + 1
      /\ \A o \in 1..Len(orders) : orders'[o] = orders[o]
      /\ orders'[Len(orders) + 1] = x
      /\ Len(orders) \in Nat
  BY AppendProperties, LenProperties DEF TypeOK
<1>2. Evolves
  BY <1>1 DEF Evolves, OrderIds, Whole, Held, Filled, Canceled
<1>3. Len(orders) + 1 \in OrderIds' /\ New = {Len(orders) + 1}
  BY <1>1 DEF New, OrderIds
<1>4. ASSUME NEW o \in New PROVE Whole(o)'
  <2>1. orders'[o].filled = 0
    BY <1>1, <1>3
  <2>2. QED
    BY <2>1 DEF Whole, Held
<1>5. QED
  BY <1>1, <1>2, <1>3, <1>4

-----------------------------------------------------------------------------
(* Steps that leave the recovery alone.                                     *)

\* The rows keep their orders.
SameIds(rows, new) ==
  DOMAIN new = DOMAIN rows /\ \A i \in DOMAIN rows : new[i].oid = rows[i].oid

LEMMA SameIdsSameOids ==
  ASSUME NEW rows, NEW new, SameIds(rows, new)
  PROVE  OidsOf(new) = OidsOf(rows)
BY DEF SameIds, OidsOf

\* What a step owes to the recovery: nothing is recorded but what was, or is
\* new; what was recorded or sent stays recorded or sent, unless the recovery
\* may forget it.
Recalled ==
  /\ \A p \in Profiles : Ledger(p)' \subseteq Ledger(p) \cup New
  /\ \A p \in Profiles : \A o : InFlight(p, o)' => InFlight(p, o) \/ o \in New
  /\ \A p \in Profiles : \A o \in Ledger(p) \ Ledger(p)' : Forsaken(o)
  /\ \A p \in Profiles : \A o : InFlight(p, o) => InFlight(p, o)' \/ o \in Ledger(p)'
  /\ \A o \in New : \E p \in Profiles : o \in Ledger(p)'

Recovers == Evolves /\ Trail' /\ Recalled

Undisturbed ==
  /\ Evolves /\ New = {}
  /\ \A p \in Profiles : SameIds(trades[p], trades'[p])
  /\ submitted' = submitted
  /\ \A p \in Profiles : \A o : InFlight(p, o)' <=> InFlight(p, o)

\* The orders of a profile in custody are its own.
LEMMA OwnerOf ==
  ASSUME OwnCustody
  PROVE  /\ \A o \in OrderIds : orders[o] \in Order /\ orders[o].prof \in Profiles
         /\ \A p \in Profiles : \A o \in Ledger(p) : o \in OrderIds /\ orders[o].prof = p
         /\ \A p \in Profiles : \A o : InFlight(p, o) => o \in OrderIds /\ orders[o].prof = p
<1>1. \A o \in OrderIds : orders[o] \in Order /\ orders[o].prof \in Profiles
  <2>1. \A o \in OrderIds : orders[o] \in Order
    BY LenProperties, ElementOfSeq DEF OwnCustody, TypeOK, OrderIds
  <2>2. QED
    BY <2>1 DEF Order
<1>2. ASSUME NEW p \in Profiles
      PROVE  /\ Ledger(p) \subseteq OwnOrders(p)
             /\ \A o : InFlight(p, o) => o \in OwnOrders(p)
  BY InCustody DEF Ledger, InFlight, OidsOf, Named, OwnCustody, CustodyOf
<1>3. QED
  BY <1>1, <1>2 DEF OwnOrders

LEMMA UndisturbedRecovers ==
  ASSUME OwnCustody, Trail, Undisturbed
  PROVE  Recovers
<1>1. OrderIds' = OrderIds
  <2>1. Len(orders) \in Nat /\ Len(orders') \in Nat /\ Len(orders) <= Len(orders')
    BY LenProperties DEF Undisturbed, Evolves, OwnCustody, TypeOK
  <2>2. QED
    BY <2>1 DEF Undisturbed, New, OrderIds
<1>2. \A p \in Profiles : OidsOf(trades[p])' = OidsOf(trades[p]) /\ Ledger(p)' = Ledger(p)
  BY SameIdsSameOids DEF Undisturbed, Ledger
<1>3. BookedOnce'
  BY DEF Undisturbed, SameIds, Trail, BookedOnce
<1>4. ASSUME NEW p \in Profiles PROVE SentIsRecorded(p)'
  <2>1. SUFFICES ASSUME flight'[p].pc = "sent"
                 PROVE  /\ flight'[p].n \in submitted'[p] \ OidsOf(trades[p])'
                        /\ orders'[flight'[p].n].kind # "protective"
    BY DEF SentIsRecorded
  <2>2. InFlight(p, flight'[p].n)
    BY <2>1 DEF Undisturbed, InFlight
  <2>3. flight'[p].n = flight[p].n /\ flight[p].n \in OrderIds
    BY <2>2, OwnerOf DEF InFlight
  <2>4. QED
    BY <1>2, <2>2, <2>3 DEF Undisturbed, Evolves, InFlight, Trail, SentIsRecorded
<1>5. ASSUME NEW o \in OrderIds
      PROVE  Whole(o)' /\ (Unbooked(o)' => WriteLost(o)')
  <2>1. Whole(o)'
    BY DEF Undisturbed, Evolves, Trail
  <2>2. orders'[o].prof = orders[o].prof /\ orders'[o].kind = orders[o].kind
        /\ orders[o].prof \in Profiles
    BY OwnerOf DEF Undisturbed, Evolves
  <2>3. Unbooked(o)' => Unbooked(o)
    BY <1>2, <2>2 DEF Unbooked, Undisturbed
  <2>4. WriteLost(o) => WriteLost(o)'
    BY <2>2 DEF WriteLost, Undisturbed, Evolves, Canceled, Held
  <2>5. QED
    BY <2>1, <2>3, <2>4 DEF Trail
<1>6. Trail'
  BY <1>1, <1>3, <1>4, <1>5 DEF Trail
<1>7. Recalled
  BY <1>2 DEF Recalled, Undisturbed
<1>8. QED
  BY <1>6, <1>7 DEF Recovers, Undisturbed

\* A step of p that rewrites its rows and starts or ends no journaling.
LEMMA RewriteRecovers ==
  ASSUME OwnCustody, Trail, NEW p \in Profiles, Evolves, New = {},
         NEW new, SameIds(trades[p], new),
         trades' = [trades EXCEPT ![p] = new], submitted' = submitted,
         \/ flight' = flight
         \/ /\ flight[p].pc # "sent"
            /\ \E f : f.pc # "sent" /\ flight' = [flight EXCEPT ![p] = f]
  PROVE  Recovers
<1>1. \A q \in Profiles : SameIds(trades[q], trades'[q])
  BY DEF SameIds, OwnCustody, TypeOK
<1>2. \A q \in Profiles : \A o : InFlight(q, o)' <=> InFlight(q, o)
  BY DEF InFlight, OwnCustody, TypeOK
<1>3. QED
  BY <1>1, <1>2, UndisturbedRecovers DEF Undisturbed

\* A step that leaves the rows alone.
LEMMA AsideRecovers ==
  ASSUME OwnCustody, Trail, Evolves, New = {}, UNCHANGED <<trades, submitted, flight>>
  PROVE  Recovers
<1>1. \A q \in Profiles : SameIds(trades[q], trades'[q])
  BY DEF SameIds
<1>2. \A q \in Profiles : \A o : InFlight(q, o)' <=> InFlight(q, o)
  BY DEF InFlight
<1>3. QED
  BY <1>1, <1>2, UndisturbedRecovers DEF Undisturbed

-----------------------------------------------------------------------------
(* Steps that add to the journal or the recovery ledger, or take from them. *)

NoneTwice(rows) ==
  \A i, j \in DOMAIN rows : rows[i].oid = rows[j].oid => i = j

\* A step of p after which its rows, its recovery ledger and its thread are
\* rows, ledger and thread.
LEMMA BooksRecover ==
  ASSUME OwnCustody, Trail, NEW p \in Profiles, Evolves,
         NEW rows, NEW ledger, NEW thread,
         trades' = [trades EXCEPT ![p] = rows],
         submitted' = [submitted EXCEPT ![p] = ledger],
         flight' = [flight EXCEPT ![p] = thread],
         NoneTwice(rows),
         OidsOf(trades[p]) \subseteq OidsOf(rows),
         OidsOf(rows) \cup ledger \subseteq Ledger(p) \cup New,
         \A o \in submitted[p] \ (ledger \cup OidsOf(rows)) : Forsaken(o),
         thread.pc = "sent" =>
           /\ thread.n \in ledger \ OidsOf(rows)
           /\ orders'[thread.n].kind # "protective"
           /\ thread = flight[p] \/ thread.n \in New,
         flight[p].pc = "sent" =>
           thread = flight[p] \/ flight[p].n \in ledger \cup OidsOf(rows),
         \A o \in New : /\ o \in ledger \cup OidsOf(rows)
                        /\ orders'[o].prof = p /\ Whole(o)',
         \A o \in OrderIds' :
           /\ o \in New \/ InFlight(p, o)
           /\ o \notin OidsOf(rows)
           /\ ~(thread.pc = "sent" /\ thread.n = o)
           => WriteLost(o)'
  PROVE  Recovers
<1>1. /\ trades'[p] = rows /\ submitted'[p] = ledger /\ flight'[p] = thread
      /\ \A q \in Profiles \ {p} : /\ trades'[q] = trades[q]
                                   /\ submitted'[q] = submitted[q]
                                   /\ flight'[q] = flight[q]
  BY DEF OwnCustody, TypeOK
<1>2. /\ Ledger(p)' = OidsOf(rows) \cup ledger /\ OidsOf(trades[p])' = OidsOf(rows)
      /\ \A q \in Profiles \ {p} : /\ Ledger(q)' = Ledger(q)
                                   /\ OidsOf(trades[q])' = OidsOf(trades[q])
  BY <1>1 DEF Ledger, OidsOf
<1>3. OrderIds \subseteq OrderIds'
  <2>1. Len(orders) \in Nat /\ Len(orders') \in Nat /\ Len(orders) <= Len(orders')
    BY LenProperties DEF Evolves, OwnCustody, TypeOK
  <2>2. QED
    BY <2>1 DEF OrderIds
<1>4. BookedOnce'
  BY <1>1 DEF Trail, BookedOnce, NoneTwice
<1>5. ASSUME NEW q \in Profiles PROVE SentIsRecorded(q)'
  <2>1. CASE q = p
    BY <1>1, <1>2, <2>1 DEF SentIsRecorded
  <2>2. CASE q # p
    <3>1. SUFFICES ASSUME flight[q].pc = "sent"
                   PROVE  /\ flight[q].n \in submitted[q] \ OidsOf(trades[q])
                          /\ orders'[flight[q].n].kind # "protective"
      BY <1>1, <1>2, <2>2 DEF SentIsRecorded
    <3>2. InFlight(q, flight[q].n) /\ flight[q].n \in OrderIds
      BY <3>1, OwnerOf DEF InFlight
    <3>3. QED
      BY <3>1, <3>2 DEF Trail, SentIsRecorded, Evolves
  <2>3. QED
    BY <2>1, <2>2
<1>6. ASSUME NEW o \in OrderIds'
      PROVE  Whole(o)' /\ (Unbooked(o)' => WriteLost(o)')
  <2>1. CASE o \in New
    <3>1. Whole(o)' /\ orders'[o].prof = p
      BY <2>1
    <3>2. Unbooked(o)' => o \notin OidsOf(rows) /\ ~(thread.pc = "sent" /\ thread.n = o)
      BY <1>1, <1>2, <3>1 DEF Unbooked, InFlight
    <3>3. QED
      BY <2>1, <3>1, <3>2
  <2>2. CASE o \in OrderIds
    <3>1. PICK q \in Profiles : /\ orders[o].prof = q /\ orders'[o].prof = q
                                /\ orders'[o].kind = orders[o].kind
      BY <2>2, OwnerOf DEF Evolves
    <3>2. Whole(o)'
      BY <2>2 DEF Evolves, Trail
    <3>3. WriteLost(o) => WriteLost(o)'
      BY <2>2, <3>1 DEF WriteLost, Evolves, Canceled, Held
    <3>4. ASSUME Unbooked(o)', ~Unbooked(o) PROVE WriteLost(o)'
      <4>1. o \in OidsOf(trades[q]) \/ InFlight(q, o)
        BY <3>1, <3>4 DEF Unbooked
      <4>2. o \notin OidsOf(trades[q])' /\ ~InFlight(q, o)'
        BY <3>1, <3>4 DEF Unbooked
      <4>3. q = p
        BY <1>1, <1>2, <3>1, <4>1, <4>2 DEF InFlight
      <4>4. /\ InFlight(p, o) /\ o \notin OidsOf(rows)
            /\ ~(thread.pc = "sent" /\ thread.n = o)
        BY <1>1, <1>2, <4>1, <4>2, <4>3 DEF InFlight
      <4>5. QED
        BY <4>4
    <3>5. QED
      BY <2>2, <3>2, <3>3, <3>4 DEF Trail
  <2>3. QED
    BY <2>1, <2>2 DEF New
<1>7. Trail'
  BY <1>4, <1>5, <1>6 DEF Trail
<1>8. Recalled
  <2>1. \A q \in Profiles : Ledger(q)' \subseteq Ledger(q) \cup New
    BY <1>2
  <2>2. ASSUME NEW q \in Profiles, NEW o, InFlight(q, o)'
        PROVE  InFlight(q, o) \/ o \in New
    BY <1>1, <2>2 DEF InFlight
  <2>3. ASSUME NEW q \in Profiles, NEW o \in Ledger(q) \ Ledger(q)' PROVE Forsaken(o)
    BY <1>2, <2>3 DEF Ledger
  <2>4. ASSUME NEW q \in Profiles, NEW o, InFlight(q, o)
        PROVE  InFlight(q, o)' \/ o \in Ledger(q)'
    BY <1>1, <1>2, <2>4 DEF InFlight
  <2>5. \A o \in New : o \in Ledger(p)'
    BY <1>2
  <2>6. QED
    BY <2>1, <2>2, <2>3, <2>4, <2>5 DEF Recalled
<1>9. QED
  BY <1>7, <1>8 DEF Recovers

\* The rows of a journal name each order once; a row for one they do not name
\* keeps it so.
LEMMA RowsNoneTwice ==
  ASSUME OwnCustody, Trail, NEW p \in Profiles, NEW new, SameIds(trades[p], new)
  PROVE  NoneTwice(new) /\ OidsOf(new) = OidsOf(trades[p])
BY SameIdsSameOids DEF Trail, BookedOnce, NoneTwice, SameIds

LEMMA AppendNoneTwice ==
  ASSUME NEW rows \in Seq(JournalRow), NEW r \in JournalRow,
         NoneTwice(rows), r.oid \notin OidsOf(rows)
  PROVE  /\ NoneTwice(Append(rows, r))
         /\ OidsOf(Append(rows, r)) = OidsOf(rows) \cup {r.oid}
<1>1. /\ DOMAIN rows = 1..Len(rows) /\ Len(rows) \in Nat
      /\ DOMAIN Append(rows, r) = 1..(Len(rows) + 1)
      /\ \A i \in DOMAIN rows : Append(rows, r)[i] = rows[i]
      /\ Append(rows, r)[Len(rows) + 1] = r
  BY AppendProperties, LenProperties
<1>2. QED
  BY <1>1 DEF NoneTwice, OidsOf

-----------------------------------------------------------------------------
(* Submitting and journaling.                                               *)

\* The door: the id of the new order is in the ledger and in the thread's hand.
LEMMA SubmitRecovers ==
  ASSUME OwnCustody, Trail, NEW p \in Profiles, NEW k \in {"entry", "exit"},
         NEW q \in Qty, Submit(p, k, q), flight[p].pc # "sent",
         UNCHANGED trades
  PROVE  Recovers
<1> DEFINE x == NewOrder(p, k, q)
           n == Len(orders) + 1
<1>1. x \in Order /\ x.prof = p /\ x.kind = k /\ x.filled = 0
  BY AccountAssumption DEF NewOrder, Order, OrderStatus, Qty, Kinds
<1>2. /\ orders' = Append(orders, x)
      /\ submitted' = [submitted EXCEPT ![p] = submitted[p] \cup {n}]
      /\ flight' = [flight EXCEPT ![p] = Sent(n)]
  BY DEF Submit
<1> HIDE DEF x
<1>3. /\ Evolves /\ New = {n} /\ orders'[n] = x
      /\ \A o \in New : Whole(o)'
  BY <1>1, <1>2, NewOrderEvolves DEF OwnCustody
<1>4. n \notin OrderIds /\ n \notin Ledger(p)
  BY <1>3, OwnerOf DEF New
<1>5. Sent(n).pc = "sent" /\ Sent(n).n = n
  BY DEF Sent
<1> HIDE DEF n
<1>6. NoneTwice(trades[p]) /\ trades' = [trades EXCEPT ![p] = trades[p]]
  BY DEF Trail, BookedOnce, NoneTwice, OwnCustody, TypeOK
<1>7. /\ OidsOf(trades[p]) \cup (submitted[p] \cup {n}) \subseteq Ledger(p) \cup New
      /\ n \notin OidsOf(trades[p])
      /\ submitted[p] \subseteq submitted[p] \cup {n}
  BY <1>3, <1>4 DEF Ledger
<1>8. \A o : ~InFlight(p, o)
  BY DEF InFlight
<1>9. /\ orders'[n].kind # "protective"
      /\ \A o \in New : o = n /\ orders'[o].prof = p /\ Whole(o)'
  BY <1>1, <1>3
<1> DEFINE thread == Sent(n)
           ledger == submitted[p] \cup {n}
<1>10. /\ thread.pc = "sent" /\ thread.n = n /\ flight' = [flight EXCEPT ![p] = thread]
       /\ submitted' = [submitted EXCEPT ![p] = ledger]
       /\ OidsOf(trades[p]) \cup ledger \subseteq Ledger(p) \cup New
       /\ submitted[p] \subseteq ledger /\ n \in ledger \ OidsOf(trades[p])
  BY <1>2, <1>5, <1>7
<1> HIDE DEF thread, ledger
<1>11. /\ thread.n \in ledger \ OidsOf(trades[p])
       /\ orders'[thread.n].kind # "protective"
       /\ thread.n \in New
  BY <1>3, <1>9, <1>10
<1>12. \A o \in New : o \in ledger \cup OidsOf(trades[p])
                     /\ orders'[o].prof = p /\ Whole(o)'
  BY <1>9, <1>10
<1>13. ASSUME NEW o \in OrderIds', o \in New \/ InFlight(p, o),
              ~(thread.pc = "sent" /\ thread.n = o)
       PROVE  WriteLost(o)'
  BY <1>8, <1>9, <1>10, <1>13
<1>14. \A o \in submitted[p] \ (ledger \cup OidsOf(trades[p])) : Forsaken(o)
  BY <1>10
<1>15. QED
  BY <1>3, <1>6, <1>10, <1>11, <1>12, <1>13, <1>14, BooksRecover

\* The row is written: what was in hand is now in the journal.
LEMMA LogTradeRecovers ==
  ASSUME OwnCustody, Trail, NEW p \in Profiles, LogTrade(p)
  PROVE  Recovers
<1> DEFINE o == flight[p].n
           st == IF orders[o].kind = "entry" THEN "open" ELSE "pending_fill"
           r == Row(o, SideOf(orders[o].kind), orders[o].qty, st, FALSE)
           rows == Append(trades[p], r)
<1>1. Evolves /\ New = {}
  BY SameOrdersEvolve DEF LogTrade, OwnCustody
<1>2. o \in submitted[p] \ OidsOf(trades[p]) /\ o \in OrderIds
  BY OwnerOf DEF LogTrade, Trail, SentIsRecorded, InFlight
<1>3. trades[p] \in Seq(JournalRow) /\ o \in Nat /\ orders[o] \in Order
  BY <1>2, InCustody
<1>4. r \in JournalRow /\ r.oid = o
  BY <1>3, AccountAssumption DEF Row, JournalRow, RowStatus, SideOf, Order, Qty
<1>5. /\ trades' = [trades EXCEPT ![p] = rows]
      /\ submitted' = [submitted EXCEPT ![p] = submitted[p]]
      /\ flight' = [flight EXCEPT ![p] = Idle]
  BY DEF LogTrade, OwnCustody, TypeOK
<1> HIDE DEF r
<1>6. NoneTwice(trades[p])
  BY DEF Trail, BookedOnce, NoneTwice
<1>7. NoneTwice(rows) /\ OidsOf(rows) = OidsOf(trades[p]) \cup {o}
  BY <1>2, <1>3, <1>4, <1>6, AppendNoneTwice
<1>8. Idle.pc # "sent"
  BY DEF Idle
<1>9. /\ OidsOf(rows) \cup submitted[p] \subseteq Ledger(p) \cup New
      /\ \A u : InFlight(p, u) => u \in OidsOf(rows)
  BY <1>2, <1>7 DEF Ledger, InFlight
<1> HIDE DEF rows, Idle
<1>10. QED
  BY <1>1, <1>2, <1>5, <1>7, <1>8, <1>9, BooksRecover

\* The row is lost: the order is an entry or an exit whose write may be lost,
\* and stays in the recovery ledger.
LEMMA LoseJournalWriteRecovers ==
  ASSUME OwnCustody, Trail, NEW p \in Profiles, LoseJournalWrite(p)
  PROVE  Recovers
<1> DEFINE n == flight[p].n
<1>1. Evolves /\ New = {} /\ orders' = orders
  BY SameOrdersEvolve DEF LoseJournalWrite, OwnCustody
<1>2. /\ n \in submitted[p] \ OidsOf(trades[p]) /\ orders[n].kind # "protective"
      /\ orders[n].kind \in LostWrites
  BY DEF LoseJournalWrite, Trail, SentIsRecorded
<1>3. /\ trades' = [trades EXCEPT ![p] = trades[p]]
      /\ submitted' = [submitted EXCEPT ![p] = submitted[p]]
      /\ flight' = [flight EXCEPT ![p] = Idle]
  BY DEF LoseJournalWrite, OwnCustody, TypeOK
<1>4. NoneTwice(trades[p])
  BY DEF Trail, BookedOnce, NoneTwice
<1>5. Idle.pc # "sent"
  BY DEF Idle
<1>6. OidsOf(trades[p]) \cup submitted[p] \subseteq Ledger(p) \cup New
  BY DEF Ledger
<1>7. \A o : InFlight(p, o) => WriteLost(o)'
  BY <1>1, <1>2 DEF InFlight, WriteLost
<1> HIDE DEF Idle
<1>8. QED
  BY <1>1, <1>2, <1>3, <1>4, <1>5, <1>6, <1>7, BooksRecover

-----------------------------------------------------------------------------
(* Exits.                                                                   *)

LEMMA CancelThenSellRecovers ==
  ASSUME OwnCustody, Trail, NEW p \in Profiles, IdleAt(p), NEW path \in {"poll", "ai"},
         NEW asked, NEW q, CancelThenSell(p, path, asked, q)
  PROVE  Recovers
<1>1. PICK landed :
        /\ orders' = AfterCancel(p, {o \in asked : ~Held(o)}, landed)
        /\ trades' = [trades EXCEPT ![p] = ClearPointers(p, landed)]
        /\ flight' = [flight EXCEPT ![p] =
                        IF \E o \in StopsToCancel(p) : Held(o) THEN Idle
                        ELSE Cleared(path, q)]
        /\ UNCHANGED submitted
  BY DEF CancelThenSell
<1>2. Evolves /\ New = {}
  BY <1>1, CancelEvolves DEF OwnCustody
<1>3. SameIds(trades[p], ClearPointers(p, landed))
  <2>1. ASSUME NEW i \in DOMAIN trades[p]
        PROVE  ClearPointers(p, landed)[i].oid = trades[p][i].oid
    <3>1. trades[p][i] \in JournalRow
      BY InCustody
    <3>2. \/ ClearPointers(p, landed)[i] = trades[p][i]
          \/ ClearPointers(p, landed)[i] = [trades[p][i] EXCEPT !.stop = 0]
      BY DEF ClearPointers
    <3>3. QED
      BY <3>1, <3>2 DEF JournalRow
  <2>2. QED
    BY <2>1 DEF SameIds, ClearPointers
<1>4. \E f : f.pc # "sent" /\ flight' = [flight EXCEPT ![p] = f]
  <2>1. Idle.pc # "sent" /\ Cleared(path, q).pc # "sent"
    BY DEF Idle, Cleared
  <2>2. QED
    BY <1>1, <2>1
<1>5. QED
  BY <1>1, <1>2, <1>3, <1>4, RewriteRecovers DEF IdleAt

\* The thread gives up before it has sent anything.
LEMMA ExitAbandonedRecovers ==
  ASSUME OwnCustody, Trail, NEW p \in Profiles, ExitAbandoned(p)
  PROVE  Recovers
<1>1. Evolves /\ New = {}
  BY SameOrdersEvolve DEF ExitAbandoned, OwnCustody
<1>2. Idle.pc # "sent" /\ flight[p].pc # "sent"
  BY DEF Idle, ExitAbandoned
<1>3. SameIds(trades[p], trades[p]) /\ trades' = [trades EXCEPT ![p] = trades[p]]
  BY DEF SameIds, ExitAbandoned, OwnCustody, TypeOK
<1>4. QED
  BY <1>1, <1>2, <1>3, RewriteRecovers DEF ExitAbandoned

\* A task that only asks for cancels.
LEMMA CancelOnlyRecovers ==
  ASSUME OwnCustody, Trail, NEW p \in Profiles, NEW asked, NEW landed,
         orders' = AfterCancel(p, asked, landed),
         UNCHANGED <<trades, submitted, flight>>
  PROVE  Recovers
BY CancelEvolves, AsideRecovers DEF OwnCustody

-----------------------------------------------------------------------------
(* The reconciler and the recovery of lost rows.                            *)

LEMMA ReconciledIds ==
  ASSUME NEW rows \in Seq(JournalRow), NEW used
  PROVE  SameIds(rows, Reconciled(rows, used))
<1> DEFINE new == Reconciled(rows, used)
<1>1. ASSUME NEW i \in DOMAIN rows PROVE new[i].oid = rows[i].oid
  <2>1. rows[i] \in JournalRow
    BY LenProperties, ElementOfSeq
  <2>2. BookFill(rows[i]).oid = rows[i].oid
        /\ [BookFill(rows[i]) EXCEPT !.st = "closed"].oid = rows[i].oid
    BY <2>1 DEF BookFill, JournalRow
  <2>3. \/ new[i] = BookFill(rows[i])
        \/ \E st \in RowStatus : new[i] = [rows[i] EXCEPT !.st = st]
        \/ new[i] = [BookFill(rows[i]) EXCEPT !.st = "closed"]
        \/ new[i] = rows[i]
    BY Zenon DEF Reconciled, RowStatus
  <2>4. QED
    BY <2>1, <2>2, <2>3 DEF JournalRow
<1>2. DOMAIN new = DOMAIN rows
  BY DEF Reconciled
<1>3. QED
  BY <1>1, <1>2 DEF SameIds

LEMMA ReconcileTaskRecovers ==
  ASSUME OwnCustody, Trail, NEW p \in Profiles, ReconcileTask(p)
  PROVE  Recovers
<1>1. Evolves /\ New = {}
  BY SameOrdersEvolve DEF ReconcileTask, OwnCustody
<1>2. SameIds(trades[p], Reconciled(trades[p], JournaledSells))
  BY InCustody, ReconciledIds
<1>3. QED
  BY <1>1, <1>2, RewriteRecovers DEF ReconcileTask

\* The rows rebuilt: after the rows there were, one open row for each of some
\* orders of the ledger that no row named.
RebuiltAs(p, s, n) ==
  LET rows == trades[p]
      new == Rebuilt(p, s)
  IN /\ DOMAIN new = 1..(Len(rows) + n)
     /\ \A i, j \in 1..n : s[i] = s[j] => i = j
     /\ \A i \in 1..Len(rows) : new[i] = rows[i]
     /\ \A i \in DOMAIN new \ (1..Len(rows)) :
          /\ i - Len(rows) \in 1..n
          /\ new[i].oid = s[i - Len(rows)]
          /\ new[i].oid \in submitted[p] \ OidsOf(rows)
          /\ new[i].st = "open"

LEMMA RebuiltShape ==
  ASSUME OwnCustody, NEW p \in Profiles, NEW s \in RebuildOrders(p)
  PROVE  \E n \in Nat : RebuiltAs(p, s, n)
<1> DEFINE n == Cardinality(ToRebuild(p))
           tail == [i \in DOMAIN s |-> Row(s[i], "buy", orders[s[i]].filled, "open", TRUE)]
           rows == trades[p]
<1>1. ToRebuild(p) \subseteq submitted[p] \ OidsOf(rows)
  BY DEF ToRebuild, Unjournaled
<1>2. n \in Nat
  <2>1. IsFiniteSet(OrderIds)
    BY LenProperties, FS_Interval DEF OwnCustody, TypeOK, OrderIds
  <2>2. ToRebuild(p) \in SUBSET OrderIds
    BY <1>1, InCustody
  <2>3. QED
    BY <2>1, <2>2, FS_Subset, FS_CardinalityType
<1>3. /\ s \in [1..n -> ToRebuild(p)]
      /\ \A i, j \in 1..n : s[i] = s[j] => i = j
  BY DEF RebuildOrders, InSomeOrder, Bijection, Injection, IsInjective
<1>4. \A i \in 1..n : tail[i] \in JournalRow /\ tail[i].oid = s[i] /\ tail[i].st = "open"
  <2>1. \A o \in ToRebuild(p) : o \in Nat /\ orders[o] \in Order
    BY <1>1, InCustody
  <2>2. QED
    BY <1>3, <2>1 DEF Row, JournalRow, RowStatus, Order
<1>5. tail \in Seq(JournalRow) /\ Len(tail) = n
  <2>1. tail \in [1..n -> JournalRow]
    BY <1>3, <1>4
  <2>2. QED
    BY <1>2, <2>1, FunctionIsSeq
<1>6. rows \in Seq(JournalRow) /\ Len(rows) \in Nat
  BY InCustody, LenProperties
<1>7. Rebuilt(p, s) = rows \o tail
  BY DEF Rebuilt
<1> HIDE DEF rows, tail, n
<1>8. /\ DOMAIN (rows \o tail) = 1..(Len(rows) + n)
      /\ \A i \in 1..(Len(rows) + n) :
           (rows \o tail)[i] = IF i <= Len(rows) THEN rows[i] ELSE tail[i - Len(rows)]
  <2>1. /\ rows \o tail \in Seq(JournalRow)
        /\ Len(rows \o tail) = Len(rows) + Len(tail)
        /\ \A i \in 1..Len(rows) + Len(tail) :
             (rows \o tail)[i] = IF i <= Len(rows) THEN rows[i] ELSE tail[i - Len(rows)]
    BY <1>5, <1>6, ConcatProperties
  <2>2. DOMAIN (rows \o tail) = 1..Len(rows \o tail)
    BY <2>1, LenProperties
  <2>3. QED
    BY <1>5, <2>1, <2>2
<1>9. ASSUME NEW i \in DOMAIN (rows \o tail) \ (1..Len(rows))
      PROVE  /\ i - Len(rows) \in 1..n
             /\ (rows \o tail)[i].oid = s[i - Len(rows)]
             /\ s[i - Len(rows)] \in submitted[p] \ OidsOf(rows)
             /\ (rows \o tail)[i].st = "open"
  <2>1. i - Len(rows) \in 1..n /\ ~(i <= Len(rows)) /\ i \in 1..(Len(rows) + n)
    BY <1>2, <1>6, <1>8
  <2>2. QED
    BY <1>1, <1>3, <1>4, <1>6, <1>8, <2>1
<1>10. \A i \in 1..Len(rows) : (rows \o tail)[i] = rows[i]
  BY <1>2, <1>6, <1>8
<1>11. RebuiltAs(p, s, n)
  BY <1>3, <1>7, <1>8, <1>9, <1>10 DEF RebuiltAs, rows
<1>12. QED
  BY <1>2, <1>11

\* They name each order once.
LEMMA RebuiltIds ==
  ASSUME OwnCustody, Trail, NEW p \in Profiles, NEW s \in RebuildOrders(p)
  PROVE  /\ NoneTwice(Rebuilt(p, s))
         /\ OidsOf(trades[p]) \subseteq OidsOf(Rebuilt(p, s))
         /\ OidsOf(Rebuilt(p, s)) \subseteq Ledger(p)
<1> DEFINE rows == trades[p]
           new == Rebuilt(p, s)
<1>1. rows \in Seq(JournalRow) /\ NoneTwice(rows) /\ Len(rows) \in Nat
      /\ DOMAIN rows = 1..Len(rows)
  BY InCustody, LenProperties DEF Trail, BookedOnce, NoneTwice
<1>2. PICK n \in Nat : RebuiltAs(p, s, n)
  BY RebuiltShape
<1>3. /\ DOMAIN new = 1..(Len(rows) + n)
      /\ \A i, j \in 1..n : s[i] = s[j] => i = j
      /\ \A i \in DOMAIN rows : i \in DOMAIN new /\ new[i] = rows[i]
                                /\ new[i].oid \in OidsOf(rows)
      /\ \A i \in DOMAIN new \ DOMAIN rows :
           /\ i - Len(rows) \in 1..n
           /\ new[i].oid = s[i - Len(rows)]
           /\ new[i].oid \in submitted[p] \ OidsOf(rows)
  BY <1>1, <1>2 DEF RebuiltAs, OidsOf
<1> HIDE DEF rows, new
<1>4. NoneTwice(new)
  <2> SUFFICES ASSUME NEW i \in DOMAIN new, NEW j \in DOMAIN new,
                      new[i].oid = new[j].oid
               PROVE  i = j
    BY DEF NoneTwice
  <2>1. CASE i \in DOMAIN rows /\ j \in DOMAIN rows
    BY <1>1, <1>3, <2>1 DEF NoneTwice
  <2>2. CASE i \notin DOMAIN rows /\ j \notin DOMAIN rows
    <3>1. i - Len(rows) = j - Len(rows)
      BY <1>3, <2>2
    <3>2. QED
      BY <1>1, <1>3, <3>1
  <2>3. CASE i \in DOMAIN rows <=> j \notin DOMAIN rows
    BY <1>3, <2>3
  <2>4. QED
    BY <2>1, <2>2, <2>3
<1>5. OidsOf(rows) \subseteq OidsOf(new)
  BY <1>3 DEF OidsOf
<1>6. OidsOf(new) \subseteq OidsOf(rows) \cup submitted[p]
  BY <1>3 DEF OidsOf
<1>7. QED
  BY <1>4, <1>5, <1>6 DEF Ledger, rows, new

\* What the recovery prunes has a row by now, or may be forgotten: it was
\* canceled, and if it has fills its kind may fill in pieces.
LEMMA FreshenRecovers ==
  ASSUME OwnCustody, Trail, NEW p \in Profiles, Freshen(p)
  PROVE  Recovers
<1>1. PICK s \in RebuildOrders(p) :
        /\ trades' = [trades EXCEPT ![p] = Reconciled(Rebuilt(p, s), {})]
        /\ submitted' = [submitted EXCEPT ![p] = Unrecovered(p, Rebuilt(p, s))]
  BY DEF Freshen
<1> DEFINE rebuilt == Rebuilt(p, s)
           rows == Reconciled(rebuilt, {})
           ledger == Unrecovered(p, rebuilt)
<1>2. Evolves /\ New = {} /\ orders' = orders
  BY SameOrdersEvolve DEF Freshen, OwnCustody
<1>3. /\ NoneTwice(rebuilt) /\ OidsOf(trades[p]) \subseteq OidsOf(rebuilt)
      /\ OidsOf(rebuilt) \subseteq Ledger(p)
  BY RebuiltIds
<1>4. rebuilt \in Seq(JournalRow)
  BY RebuiltRows
<1>5. trades' = [trades EXCEPT ![p] = rows] /\ submitted' = [submitted EXCEPT ![p] = ledger]
      /\ flight' = [flight EXCEPT ![p] = flight[p]] /\ flight[p].pc # "sent"
  BY <1>1 DEF Freshen, OwnCustody, TypeOK
<1> HIDE DEF rebuilt
<1>6. NoneTwice(rows) /\ OidsOf(rows) = OidsOf(rebuilt)
  <2>1. SameIds(rebuilt, rows)
    BY <1>4, ReconciledIds
  <2> HIDE DEF rows
  <2>2. QED
    BY <1>3, <2>1, SameIdsSameOids DEF SameIds, NoneTwice
<1>7. OidsOf(rows) \cup ledger \subseteq Ledger(p) \cup New
  BY <1>3, <1>6 DEF Unrecovered, Ledger
<1>8. ASSUME NEW o \in submitted[p] \ (ledger \cup OidsOf(rows)) PROVE Forsaken(o)
  <2>1. Canceled(o) /\ o \notin OidsOf(trades[p])
    BY <1>3, <1>6, <1>8 DEF Unrecovered
  <2>2. o \in OrderIds /\ orders[o].prof = p
    BY <1>8, OwnerOf DEF Ledger
  <2>3. Whole(o) /\ WriteLost(o)
    BY <1>5, <2>1, <2>2 DEF Trail, Unbooked, InFlight
  <2>4. QED
    BY <2>1, <2>3 DEF Forsaken, WriteLost, Whole, Leaky, Canceled, Filled, Held
<1>9. \A o : ~InFlight(p, o)
  BY <1>5 DEF InFlight
<1> HIDE DEF rows, ledger
<1>10. QED
  BY <1>2, <1>3, <1>5, <1>6, <1>7, <1>8, <1>9, BooksRecover

-----------------------------------------------------------------------------
(* The other tasks.                                                         *)

\* A task that only rewrites the rows of p.
LEMMA TaskRecovers ==
  ASSUME OwnCustody, Trail, NEW p \in Profiles, NEW new, SameIds(trades[p], new),
         trades' = [trades EXCEPT ![p] = new],
         UNCHANGED <<orders, submitted, flight>>
  PROVE  Recovers
<1>1. Evolves /\ New = {}
  BY SameOrdersEvolve DEF OwnCustody
<1>2. QED
  BY <1>1, RewriteRecovers

LEMMA UpdateFillsRecovers ==
  ASSUME OwnCustody, Trail, NEW p \in Profiles, NEW i \in DOMAIN trades[p],
         UpdateFills(p, i)
  PROVE  Recovers
<1> DEFINE old == trades[p]
           r == old[i]
           o == r.oid
           trued == [r EXCEPT !.priced = TRUE,
                              !.qty = IF Dead(o) THEN orders[o].filled ELSE @]
           stamped == [old EXCEPT ![i] = trued]
           confirms == r.side = "sell" /\
                       r.st \in {"open", "pending_fill", "pending_protective"}
           rows == IF ~confirms THEN stamped
                   ELSE [k \in DOMAIN stamped |->
                           IF k = i \/ (/\ k \in FifoLotsFullyConsumed(stamped)
                                        /\ stamped[k].st = "open")
                             THEN [stamped[k] EXCEPT !.st = "closed"]
                             ELSE stamped[k]]
           written == [old EXCEPT ![i].st = "canceled"]
<1>1. \A k \in DOMAIN old : old[k] \in JournalRow
  BY InCustody
<1>2. trued \in [oid : {o}, side : {"buy", "sell"}, qty : {trued.qty},
                 st : RowStatus, priced : BOOLEAN, stop : Nat]
  BY <1>1 DEF JournalRow
<1> HIDE DEF trued
<1>3. SameIds(old, stamped)
  BY <1>1, <1>2 DEF SameIds
<1>4. \A k \in DOMAIN old :
        stamped[k] \in [oid : {old[k].oid}, side : {"buy", "sell"},
                        qty : {stamped[k].qty}, st : RowStatus,
                        priced : BOOLEAN, stop : Nat]
  BY <1>1, <1>2 DEF JournalRow
<1>5. DOMAIN stamped = DOMAIN old
  OBVIOUS
<1> HIDE DEF stamped
<1>6. SameIds(old, rows)
  <2>1. CASE ~confirms
    BY <1>3, <2>1
  <2>2. CASE confirms
    <3>1. DOMAIN rows = DOMAIN old
      BY <1>5, <2>2
    <3>2. ASSUME NEW k \in DOMAIN old PROVE rows[k].oid = old[k].oid
      <4>1. rows[k] = stamped[k] \/ rows[k] = [stamped[k] EXCEPT !.st = "closed"]
        BY <1>5, <2>2
      <4>2. QED
        BY <1>4, <4>1
    <3>3. QED
      BY <3>1, <3>2 DEF SameIds
  <2>3. QED
    BY <2>1, <2>2
<1>7. SameIds(old, written)
  BY <1>1 DEF SameIds, JournalRow
<1>8. trades' = [trades EXCEPT ![p] = rows] \/ trades' = [trades EXCEPT ![p] = written]
  BY DEF UpdateFills, trued, stamped
<1>9. UNCHANGED <<orders, submitted, flight>>
  BY DEF UpdateFills
<1> HIDE DEF rows, written
<1>10. QED
  BY <1>6, <1>7, <1>8, <1>9, TaskRecovers

LEMMA SyncPendingRecovers ==
  ASSUME OwnCustody, Trail, NEW p \in Profiles, SyncPending(p)
  PROVE  Recovers
<1> DEFINE new == [i \in DOMAIN trades[p] |->
                     LET r == trades[p][i] IN
                     IF r.st = "pending_protective" /\ Canceled(r.oid) /\ ~Held(r.oid)
                       THEN [r EXCEPT !.st = "canceled"] ELSE r]
<1>1. ASSUME NEW i \in DOMAIN trades[p] PROVE new[i].oid = trades[p][i].oid
  <2>1. new[i] = trades[p][i] \/ new[i] = [trades[p][i] EXCEPT !.st = "canceled"]
    OBVIOUS
  <2>2. trades[p][i] \in JournalRow
    BY InCustody
  <2> HIDE DEF new
  <2>3. QED
    BY <2>1, <2>2 DEF JournalRow
<1>2. SameIds(trades[p], new)
  BY <1>1 DEF SameIds
<1>3. trades' = [trades EXCEPT ![p] = new] /\ UNCHANGED <<orders, submitted, flight>>
  BY DEF SyncPending
<1> HIDE DEF new
<1>4. QED
  BY <1>2, <1>3, TaskRecovers

LEMMA CancelOrphanedRecovers ==
  ASSUME OwnCustody, Trail, NEW p \in Profiles, CancelOrphaned(p)
  PROVE  Recovers
<1> DEFINE rows == trades[p]
           flat == OpenEntries(rows) = {}
           stops == PointersOf(rows, "closed") \cup
                    IF flat THEN {rows[i].oid : i \in RowsOf(rows, "sell",
                                                       {"pending_protective"})}
                    ELSE {}
           asked == {o \in stops : Live(o)}
           new(landed) ==
             [i \in DOMAIN rows |->
                LET r == rows[i] IN
                IF r.st = "closed" /\ r.stop # NoOrder
                     /\ (r.stop \in landed \/ Canceled(r.stop))
                  THEN [r EXCEPT !.stop = NoOrder]
                ELSE IF r.st = "pending_protective" /\ flat
                     /\ (r.oid \in landed \/ Canceled(r.oid))
                  THEN [r EXCEPT !.st = "canceled"]
                ELSE r]
<1>1. PICK landed \in Landings(asked) :
        /\ orders' = AfterCancel(p, asked, landed)
        /\ trades' = [trades EXCEPT ![p] = new(landed)]
  BY DEF CancelOrphaned
<1>2. Evolves /\ New = {}
  <2> HIDE DEF asked
  <2>1. QED
    BY <1>1, CancelEvolves DEF OwnCustody
<1> DEFINE fresher == new(landed)
<1>3. ASSUME NEW i \in DOMAIN trades[p] PROVE fresher[i].oid = trades[p][i].oid
  <2>1. \/ fresher[i] = trades[p][i]
        \/ fresher[i] = [trades[p][i] EXCEPT !.st = "canceled"]
        \/ fresher[i] = [trades[p][i] EXCEPT !.stop = NoOrder]
    OBVIOUS
  <2>2. trades[p][i] \in JournalRow
    BY InCustody
  <2> HIDE DEF fresher
  <2>3. QED
    BY <2>1, <2>2 DEF JournalRow
<1>4. SameIds(trades[p], fresher)
  BY <1>3 DEF SameIds
<1>5. trades' = [trades EXCEPT ![p] = fresher]
  BY <1>1
<1> HIDE DEF fresher
<1>6. QED
  BY <1>2, <1>4, <1>5, RewriteRecovers DEF CancelOrphaned

LEMMA MarkedIds ==
  ASSUME OwnCustody, NEW p \in Profiles
  PROVE  SameIds(trades[p], Marked(trades[p]))
<1> DEFINE new == Marked(trades[p])
<1>1. ASSUME NEW i \in DOMAIN trades[p] PROVE new[i].oid = trades[p][i].oid
  <2>1. new[i] = trades[p][i] \/ new[i] = [trades[p][i] EXCEPT !.st = "canceled"]
    BY DEF Marked
  <2>2. trades[p][i] \in JournalRow
    BY InCustody
  <2> HIDE DEF new
  <2>3. QED
    BY <2>1, <2>2 DEF JournalRow
<1>2. QED
  BY <1>1 DEF SameIds, Marked

\* A row linked to a stop keeps its order.
LEMMA LinkedIds ==
  ASSUME OwnCustody, NEW p \in Profiles, NEW k, NEW o
  PROVE  SameIds(trades[p], [Marked(trades[p]) EXCEPT ![k].stop = o])
<1> DEFINE old == Marked(trades[p])
           new == [old EXCEPT ![k].stop = o]
<1>1. old \in Seq(JournalRow) /\ SameIds(trades[p], old)
  BY MarkedRows, MarkedIds
<1> HIDE DEF old
<1>2. ASSUME NEW i \in DOMAIN old PROVE new[i].oid = old[i].oid
  <2>1. old[i] \in JournalRow
    BY <1>1, LenProperties, ElementOfSeq
  <2>2. QED
    BY <2>1 DEF JournalRow
<1>3. DOMAIN new = DOMAIN old
  OBVIOUS
<1> HIDE DEF new
<1>4. SameIds(trades[p], new)
  BY <1>1, <1>2, <1>3 DEF SameIds
<1>5. QED
  BY <1>4 DEF new, old

LEMMA HealPointerRecovers ==
  ASSUME OwnCustody, Trail, NEW p \in Profiles, HealPointer(p)
  PROVE  Recovers
<1>1. PICK o \in Coverage(p) :
        trades' = [trades EXCEPT ![p] =
                     [Marked(trades[p]) EXCEPT ![Protected(p)].stop = o]]
  BY DEF HealPointer
<1> DEFINE new == [Marked(trades[p]) EXCEPT ![Protected(p)].stop = o]
<1>2. SameIds(trades[p], new)
  BY LinkedIds
<1>3. trades' = [trades EXCEPT ![p] = new] /\ UNCHANGED <<orders, submitted, flight>>
  BY <1>1 DEF HealPointer
<1> HIDE DEF new
<1>4. QED
  BY <1>2, <1>3, TaskRecovers

\* A stop that is journaled as it is placed: its row is the only one of it.
LEMMA PlaceStopRecovers ==
  ASSUME OwnCustody, Trail, NEW p \in Profiles, PlaceStop(p)
  PROVE  Recovers
<1> DEFINE o == Len(orders) + 1
           q == BookQty(trades[p])
           x == NewOrder(p, "protective", q)
           linked == [Marked(trades[p]) EXCEPT ![Protected(p)].stop = o]
           r == Row(o, "sell", q, "pending_protective", FALSE)
           rows == Append(linked, r)
           ledger == submitted[p] \cup {o}
<1>1. q \in Qty
  BY DEF PlaceStop, PlaceableStop, NeedsStop, SweepProceeds
<1>2. /\ orders' = Append(orders, x)
      /\ submitted' = [submitted EXCEPT ![p] = ledger]
      /\ trades' = [trades EXCEPT ![p] = rows]
      /\ IdleAt(p) /\ flight' = flight
  BY DEF PlaceStop, PlaceableStop, NeedsStop, SweepProceeds
<1> HIDE DEF q
<1>3. x \in Order /\ x.prof = p /\ x.filled = 0
  BY <1>1, AccountAssumption DEF NewOrder, Order, OrderStatus, Kinds, Qty
<1> HIDE DEF x
<1>4. Evolves /\ New = {o} /\ orders'[o] = x /\ \A n \in New : Whole(n)'
  BY <1>2, <1>3, NewOrderEvolves DEF OwnCustody
<1>5. o \in Nat /\ o \notin Ledger(p)
  BY <1>4, LenProperties, OwnerOf DEF New, OwnCustody, TypeOK
<1>6. r \in JournalRow /\ r.oid = o
  BY <1>1, <1>5, AccountAssumption DEF Row, JournalRow, RowStatus, Qty
<1> HIDE DEF o, r
<1>7. linked \in Seq(JournalRow)
  <2> DEFINE own == OwnOrders(p) \cup {o}
             marked == Marked(trades[p])
  <2>1. marked \in Seq(JournalRow) /\ Named(own, marked) /\ o \in own
    BY MarkedRows DEF Named
  <2> HIDE DEF own, marked
  <2>2. [marked EXCEPT ![Protected(p)].stop = o] \in Seq(JournalRow)
    BY <1>5, <2>1, LinkedRow
  <2>3. QED
    BY <2>2 DEF marked
<1>8. NoneTwice(linked) /\ OidsOf(linked) = OidsOf(trades[p])
  <2>1. SameIds(trades[p], linked)
    BY LinkedIds
  <2> HIDE DEF linked
  <2>2. QED
    BY <2>1, RowsNoneTwice
<1> HIDE DEF linked
<1>9. NoneTwice(rows) /\ OidsOf(rows) = OidsOf(trades[p]) \cup {o}
  BY <1>5, <1>6, <1>7, <1>8, AppendNoneTwice DEF Ledger
<1> HIDE DEF rows
<1>10. /\ OidsOf(rows) \cup ledger \subseteq Ledger(p) \cup New
       /\ submitted[p] \subseteq ledger
       /\ \A n \in New : n \in OidsOf(rows) /\ orders'[n].prof = p /\ Whole(n)'
  BY <1>3, <1>4, <1>9 DEF Ledger
<1>11. flight[p].pc # "sent" /\ flight' = [flight EXCEPT ![p] = flight[p]]
       /\ \A n : ~InFlight(p, n)
  BY <1>2 DEF IdleAt, InFlight, OwnCustody, TypeOK
<1> HIDE DEF ledger
<1>12. ASSUME NEW n \in OrderIds', n \in New \/ InFlight(p, n), n \notin OidsOf(rows)
       PROVE  WriteLost(n)'
  BY <1>10, <1>11, <1>12
<1>13. \A n \in New : n \in ledger \cup OidsOf(rows) /\ orders'[n].prof = p /\ Whole(n)'
  BY <1>10
<1>14. \A n \in submitted[p] \ (ledger \cup OidsOf(rows)) : Forsaken(n)
  BY <1>10
<1>15. OidsOf(trades[p]) \subseteq OidsOf(rows)
  BY <1>9
<1>16. QED
  BY <1>2, <1>4, <1>9, <1>10, <1>11, <1>12, <1>13, <1>14, <1>15, BooksRecover

\* A stop whose row cannot be written is rolled back: its write was lost, and
\* it is in the recovery ledger.
LEMMA RollBackStopRecovers ==
  ASSUME OwnCustody, Trail, NEW p \in Profiles, RollBackStop(p)
  PROVE  Recovers
<1> PICK o \in Nat : o = Len(orders) + 1
  BY LenProperties DEF OwnCustody, TypeOK
<1> DEFINE q == BookQty(trades[p])
           rows == Marked(trades[p])
           ledger == submitted[p] \cup {o}
<1>1. PICK st \in {"canceled", "pending_cancel"} :
        /\ orders' = Append(orders, [NewOrder(p, "protective", q)
                                       EXCEPT !.st = st, !.canceler = p])
        /\ st = "canceled" \/ AsyncCancel
  BY DEF RollBackStop
<1> DEFINE x == [NewOrder(p, "protective", q) EXCEPT !.st = st, !.canceler = p]
<1>2. q \in Qty /\ IdleAt(p)
  BY DEF RollBackStop, PlaceableStop, NeedsStop, SweepProceeds
<1>3. /\ "protective" \in LostWrites
      /\ submitted' = [submitted EXCEPT ![p] = ledger]
      /\ trades' = [trades EXCEPT ![p] = rows]
      /\ flight' = flight
  BY DEF RollBackStop
<1>4. orders' = Append(orders, x)
  BY <1>1
<1> HIDE DEF q
<1>5. /\ x \in Order /\ x.prof = p /\ x.filled = 0 /\ x.kind = "protective"
      /\ x.st = st
  <2>1. NewOrder(p, "protective", q) \in Order
        /\ NewOrder(p, "protective", q).prof = p
        /\ NewOrder(p, "protective", q).kind = "protective"
        /\ NewOrder(p, "protective", q).filled = 0
    BY <1>2, AccountAssumption DEF NewOrder, Order, OrderStatus, Kinds, Qty
  <2>2. QED
    BY <2>1 DEF Order, OrderStatus
<1> HIDE DEF x
<1>6. Evolves /\ New = {o} /\ orders'[o] = x /\ \A n \in New : Whole(n)'
  BY <1>4, <1>5, NewOrderEvolves DEF OwnCustody
<1>7. NoneTwice(rows) /\ OidsOf(rows) = OidsOf(trades[p])
  BY MarkedIds, RowsNoneTwice
<1> HIDE DEF rows
<1>8. WriteLost(o)'
  <2>1. /\ orders'[o].kind = "protective" /\ orders'[o].filled = 0
        /\ orders'[o].st = "canceled" \/ AsyncCancel
    BY <1>1, <1>5, <1>6
  <2>2. QED
    BY <1>3, <2>1 DEF WriteLost, Canceled, Held
<1>9. /\ OidsOf(rows) \cup ledger \subseteq Ledger(p) \cup New
      /\ submitted[p] \subseteq ledger
      /\ \A n \in New : n \in ledger /\ orders'[n].prof = p /\ Whole(n)' /\ WriteLost(n)'
  <2>1. \A n \in New : n = o
    BY <1>6
  <2>2. QED
    BY <1>5, <1>6, <1>7, <1>8, <2>1 DEF Ledger
<1>10. flight[p].pc # "sent" /\ flight' = [flight EXCEPT ![p] = flight[p]]
       /\ \A n : ~InFlight(p, n)
  BY <1>2, <1>3 DEF IdleAt, InFlight, OwnCustody, TypeOK
<1> HIDE DEF ledger
<1>11. ASSUME NEW n \in OrderIds', n \in New \/ InFlight(p, n)
       PROVE  WriteLost(n)'
  BY <1>9, <1>10, <1>11
<1>12. \A n \in New : n \in ledger \cup OidsOf(rows) /\ orders'[n].prof = p /\ Whole(n)'
  BY <1>9
<1>13. \A n \in submitted[p] \ (ledger \cup OidsOf(rows)) : Forsaken(n)
  BY <1>9
<1>14. OidsOf(trades[p]) \subseteq OidsOf(rows)
  BY <1>7
<1>15. QED
  BY <1>3, <1>6, <1>7, <1>9, <1>10, <1>11, <1>12, <1>13, <1>14, BooksRecover

-----------------------------------------------------------------------------
(* Every step, and the initial state.                                       *)

LEMMA OrderStepRecovers ==
  ASSUME OwnCustody, Trail, NEW p \in Profiles, OrderStep(p)
  PROVE  Recovers
<1>1. CASE \E q \in Qty : SubmitBuy(p, q)
  <2>1. PICK q \in Qty : SubmitBuy(p, q)
    BY <1>1
  <2>2. Submit(p, "entry", q) /\ flight[p].pc # "sent" /\ UNCHANGED trades
    BY <2>1 DEF SubmitBuy, IdleAt
  <2>3. QED
    BY <2>2, SubmitRecovers
<1>2. CASE LogTrade(p)
  BY <1>2, LogTradeRecovers
<1>3. CASE LoseJournalWrite(p)
  BY <1>3, LoseJournalWriteRecovers
<1>4. CASE PollExit(p)
  BY <1>4, CancelThenSellRecovers DEF PollExit
<1>5. CASE PollExitDeferred(p)
  <2>1. PICK asked, landed : orders' = AfterCancel(p, asked, landed)
    BY <1>5 DEF PollExitDeferred
  <2>2. QED
    BY <1>5, <2>1, CancelOnlyRecovers DEF PollExitDeferred
<1>6. CASE \E q \in Qty : AiSell(p, q)
  BY <1>6, CancelThenSellRecovers DEF AiSell
<1>7. CASE ExitSubmit(p)
  <2>1. flight[p].n \in Qty
    BY <1>7 DEF ExitSubmit, OwnCustody, CustodyOf
  <2>2. Submit(p, "exit", flight[p].n) /\ flight[p].pc # "sent" /\ UNCHANGED trades
    BY <1>7 DEF ExitSubmit
  <2>3. QED
    BY <2>1, <2>2, SubmitRecovers
<1>8. CASE ExitAbandoned(p)
  BY <1>8, ExitAbandonedRecovers
<1>9. QED
  BY <1>1, <1>2, <1>3, <1>4, <1>5, <1>6, <1>7, <1>8 DEF OrderStep

LEMMA TaskStepRecovers ==
  ASSUME OwnCustody, Trail, NEW p \in Profiles, TaskStep(p)
  PROVE  Recovers
<1>1. CASE Freshen(p)
  BY <1>1, FreshenRecovers
<1>2. CASE ReconcileTask(p)
  BY <1>2, ReconcileTaskRecovers
<1>3. CASE \E i \in DOMAIN trades[p] : UpdateFills(p, i)
  BY <1>3, UpdateFillsRecovers
<1>4. CASE CancelStale(p)
  <2>1. PICK asked, landed : orders' = AfterCancel(p, asked, landed)
    BY <1>4 DEF CancelStale
  <2>2. QED
    BY <1>4, <2>1, CancelOnlyRecovers DEF CancelStale
<1>5. CASE CancelOrphaned(p)
  BY <1>5, CancelOrphanedRecovers
<1>6. CASE SyncPending(p)
  BY <1>6, SyncPendingRecovers
<1>7. CASE HealPointer(p)
  BY <1>7, HealPointerRecovers
<1>8. CASE PlaceStop(p)
  BY <1>8, PlaceStopRecovers
<1>9. CASE RollBackStop(p)
  BY <1>9, RollBackStopRecovers
<1>10. CASE StopRefused(p)
  <2>1. /\ trades' = [trades EXCEPT ![p] = Marked(trades[p])]
        /\ UNCHANGED <<orders, submitted, flight>>
    BY <1>10 DEF StopRefused
  <2>2. QED
    BY <2>1, MarkedIds, TaskRecovers
<1>11. QED
  BY <1>1, <1>2, <1>3, <1>4, <1>5, <1>6, <1>7, <1>8, <1>9, <1>10 DEF TaskStep

LEMMA NextRecovers ==
  ASSUME OwnCustody, Trail, [Next]_vars
  PROVE  Recovers
<1>1. CASE ExchangeStep
  <2>1. PICK o \in OrderIds : (\E k \in Qty : Fill(o, k)) \/ Terminate(o)
    BY <1>1 DEF ExchangeStep
  <2>2. Evolves /\ New = {}
    BY <2>1, ExchangeEvolves DEF OwnCustody
  <2>3. QED
    BY <1>1, <2>2, AsideRecovers DEF ExchangeStep
<1>2. CASE CycleStart \/ (\E p \in Workers : ClearHalt(p)) \/ UNCHANGED vars
  <2>1. UNCHANGED <<orders, trades, submitted, flight>>
    BY <1>2 DEF CycleStart, ClearHalt, vars
  <2>2. Evolves /\ New = {}
    BY <2>1, SameOrdersEvolve DEF OwnCustody
  <2>3. QED
    BY <2>1, <2>2, AsideRecovers
<1>3. ASSUME NEW p \in Workers, OrderStep(p) \/ TaskStep(p) PROVE Recovers
  BY <1>3, LifecycleAssumption, OrderStepRecovers, TaskStepRecovers
<1>4. QED
  BY <1>1, <1>2, <1>3 DEF Next

LEMMA OneRow ==
  ASSUME NEW r
  PROVE  DOMAIN <<>> = {} /\ DOMAIN <<r>> = {1} /\ <<r>>[1] = r
OBVIOUS

\* At first every order is filled and has the one row of its profile.
LEMMA InitRecorded ==
  ASSUME Init
  PROVE  /\ BookedOnce
         /\ \A o \in OrderIds : /\ Filled(o) /\ orders[o].prof \in Profiles
                                /\ o \in OidsOf(trades[orders[o].prof])
         /\ \A p \in Profiles : submitted[p] = {} /\ flight[p].pc = "idle"
<1>1. PICK s \in InSomeOrder(Holders) :
        /\ orders = [i \in DOMAIN s |->
                       [NewOrder(s[i], "entry", Holding[s[i]])
                          EXCEPT !.filled = Holding[s[i]], !.st = "filled"]]
        /\ trades = [p \in Profiles |->
                       IF p \in Holders
                         THEN <<Row(CHOOSE i \in DOMAIN s : s[i] = p, "buy",
                                    Holding[p], "open", TRUE)>>
                         ELSE <<>>]
  BY DEF Init
<1> DEFINE n == Cardinality(Holders)
<1>2. n \in Nat
  BY LifecycleAssumption, FS_Subset, FS_CardinalityType DEF Holders
<1>3. /\ s \in [1..n -> Holders]
      /\ \A i, j \in 1..n : s[i] = s[j] => i = j
  BY DEF InSomeOrder, Bijection, Injection, IsInjective
<1>4. OrderIds = 1..n
  <2>1. OwnCustody
    BY InitCustody
  <2>2. Len(orders) \in Nat /\ DOMAIN orders = 1..Len(orders) /\ DOMAIN orders = 1..n
    BY <1>1, <1>3, <2>1, LenProperties DEF OwnCustody, TypeOK
  <2>3. QED
    BY <1>2, <2>2 DEF OrderIds
<1>5. ASSUME NEW o \in OrderIds
      PROVE  /\ Filled(o) /\ orders[o].prof \in Profiles
             /\ o \in OidsOf(trades[orders[o].prof])
  <2>1. orders[o].st = "filled" /\ orders[o].prof = s[o] /\ s[o] \in Holders
    BY <1>1, <1>3, <1>4 DEF NewOrder
  <2>2. s[o] \in Profiles
    BY <2>1 DEF Holders
  <2>3. (CHOOSE i \in DOMAIN s : s[i] = s[o]) = o
    BY <1>3, <1>4
  <2>4. trades[s[o]] = <<Row(o, "buy", Holding[s[o]], "open", TRUE)>>
    BY <1>1, <2>1, <2>2, <2>3
  <2>5. Row(o, "buy", Holding[s[o]], "open", TRUE).oid = o
    BY DEF Row
  <2> DEFINE r == Row(o, "buy", Holding[s[o]], "open", TRUE)
  <2>6. o \in OidsOf(trades[s[o]])
    <3> HIDE DEF r
    <3>1. 1 \in DOMAIN <<r>> /\ <<r>>[1] = r
      BY OneRow
    <3>2. trades[s[o]] = <<r>> /\ r.oid = o
      BY <2>4, <2>5 DEF r
    <3>3. QED
      BY <3>1, <3>2 DEF OidsOf
  <2>7. QED
    BY <2>1, <2>2, <2>6 DEF Filled
<1>6. BookedOnce
  <2> SUFFICES ASSUME NEW p \in Profiles, NEW i \in DOMAIN trades[p], NEW j \in DOMAIN trades[p]
               PROVE  i = j
    BY DEF BookedOnce
  <2>1. trades[p] = <<>> \/ \E r : trades[p] = <<r>>
    BY <1>1
  <2>2. DOMAIN trades[p] \subseteq {1}
    BY <2>1, OneRow
  <2>3. QED
    BY <2>2
<1>7. ASSUME NEW p \in Profiles PROVE submitted[p] = {} /\ flight[p].pc = "idle"
  <2>1. submitted = [q \in Profiles |-> {}] /\ flight = [q \in Profiles |-> Idle]
    BY DEF Init
  <2>2. QED
    BY <2>1 DEF Idle
<1>8. QED
  BY <1>5, <1>6, <1>7

LEMMA AlwaysTrail == Spec => [](OwnCustody /\ Trail)
<1>1. Init => OwnCustody /\ Trail
  BY InitCustody, InitRecorded
  DEF Trail, SentIsRecorded, Whole, Unbooked
<1>2. OwnCustody /\ Trail /\ [Next]_vars => (OwnCustody /\ Trail)'
  BY NextKeepsCustody, NextRecovers DEF Recovers
<1>3. QED
  BY <1>1, <1>2, PTL DEF Spec

-----------------------------------------------------------------------------
(* The theorems.                                                            *)

\* What a thread, and what a table of any profile, answers for.
InHand == {flight[p].n : p \in {q \in Profiles : flight[q].pc = "sent"}}
OnRecord == UNION {OidsOf(trades[p]) \cup submitted[p] : p \in Profiles}

LEMMA AnsweredBy ==
  /\ \A o : o \in InHand <=> \E p \in Profiles : InFlight(p, o)
  /\ \A o : o \in OnRecord <=> \E p \in Profiles : o \in Ledger(p)
BY DEF InHand, OnRecord, InFlight, Ledger

\* What a step of the whole system does to the orders, in the words of
\* OrderCustody.
LEMMA CustodyStep ==
  ASSUME OwnCustody, OwnCustody', Recovers
  PROVE  /\ OrderIds \subseteq OrderIds'
         /\ \A o \in OrderIds : Canceled(o) => Canceled(o)' /\ (Held(o)' <=> Held(o))
         /\ \A o \in OrderIds : Forsaken(o) => Forsaken(o)'
         /\ OnRecord' \subseteq InHand \cup OnRecord \cup New
         /\ InHand' \subseteq InHand \cup New
         /\ \A o \in (InHand \cup OnRecord \cup New) \ (InHand' \cup OnRecord') :
              o \in OrderIds /\ Forsaken(o)
<1>1. Evolves /\ Recalled
  BY DEF Recovers
<1>2. OrderIds \subseteq OrderIds'
  <2>1. Len(orders) \in Nat /\ Len(orders') \in Nat /\ Len(orders) <= Len(orders')
    BY <1>1, LenProperties DEF Evolves, OwnCustody, TypeOK
  <2>2. QED
    BY <2>1 DEF OrderIds
<1>3. ASSUME NEW o \in OrderIds, Canceled(o)
      PROVE  Canceled(o)' /\ (Held(o)' <=> Held(o)) /\ (Forsaken(o) => Forsaken(o)')
  BY <1>1, <1>3 DEF Evolves, Canceled, Held, Forsaken
<1>4. /\ \A o : o \in InHand' <=> \E p \in Profiles : InFlight(p, o)'
      /\ \A o : o \in OnRecord' <=> \E p \in Profiles : o \in Ledger(p)'
  BY DEF InHand, OnRecord, InFlight, Ledger
<1>5. OnRecord' \subseteq InHand \cup OnRecord \cup New
  BY <1>1, <1>4, AnsweredBy DEF Recalled
<1>6. InHand' \subseteq InHand \cup New
  BY <1>1, <1>4, AnsweredBy DEF Recalled
<1>7. ASSUME NEW o \in (InHand \cup OnRecord \cup New) \ (InHand' \cup OnRecord')
      PROVE  o \in OrderIds /\ Forsaken(o)
  <2>1. o \notin New
    BY <1>1, <1>4, <1>7 DEF Recalled
  <2>2. o \notin InHand
    BY <1>1, <1>4, <1>7, AnsweredBy DEF Recalled
  <2>3. PICK p \in Profiles : o \in Ledger(p) \ Ledger(p)'
    BY <1>4, <1>7, <2>1, <2>2, AnsweredBy
  <2>4. QED
    BY <1>1, <2>3, OwnerOf DEF Recalled
<1>8. QED
  BY <1>2, <1>3, <1>5, <1>6, <1>7 DEF Forsaken

\* At first every order is on record and no thread has one in hand.
LEMMA CustodyInit ==
  ASSUME Init
  PROVE  OrderIds \subseteq Nat /\ InHand = {} /\ OnRecord = OrderIds
<1>1. OwnCustody
  BY InitCustody
<1>2. OnRecord \subseteq OrderIds
  BY <1>1, AnsweredBy, OwnerOf
<1>3. OrderIds \subseteq OnRecord /\ InHand = {}
  BY InitRecorded, AnsweredBy DEF Ledger, InFlight
<1>4. Len(orders) \in Nat
  BY <1>1, LenProperties DEF OwnCustody, TypeOK
<1>5. OrderIds \subseteq Nat
  BY <1>4 DEF OrderIds
<1>6. QED
  BY <1>2, <1>3, <1>5

\* The promise of OrderCustody with what the recovery forgets at most: an order
\* that ended without a fill, or, of the leaky kinds, that was canceled.
Promise == INSTANCE OrderCustodyProofs WITH
  sent <- OrderIds, empty <- {o \in OrderIds : Forsaken(o)},
  inHand <- InHand, onRecord <- OnRecord, alarm <- FALSE

\* No fill is booked twice, whichever writes are lost: the caller, the recovery
\* of lost writes (_reconstruct_unjournaled_submits) and the protective sweep
\* never write two rows of one order.
THEOREM NothingBookedTwice == Spec => []BookedOnce
<1>1. Trail => BookedOnce
  BY DEF Trail
<1>2. QED
  BY <1>1, AlwaysTrail, PTL

\* Whatever writes are lost and however orders fill and end, the threads, the
\* journals and the ledgers pass every order on and drop only what they may.
THEOREM RecoveryImplementsPromise == Spec => Promise!Spec
<1>1. Init => Promise!Init
  BY CustodyInit DEF Promise!Init
<1>2. ASSUME OwnCustody, Trail, [Next]_vars
      PROVE  [Promise!Next]_(Promise!vars)
  <2>1. OwnCustody' /\ Recovers
    BY <1>2, NextKeepsCustody, NextRecovers
  <2>2. /\ OrderIds \subseteq OrderIds'
        /\ \A o \in OrderIds : Forsaken(o) => Forsaken(o)'
        /\ OnRecord' \subseteq InHand \cup OnRecord \cup New
        /\ InHand' \subseteq InHand \cup New
        /\ \A o \in (InHand \cup OnRecord \cup New) \ (InHand' \cup OnRecord') :
             o \in OrderIds /\ Forsaken(o)
    BY <1>2, <2>1, CustodyStep
  <2>3. Promise!BrokerGoesOn
    BY <2>2 DEF Promise!BrokerGoesOn
  <2>4. Promise!NothingInvented
    BY <2>2 DEF Promise!NothingInvented, Promise!Answered, Promise!New, New
  <2>5. Promise!NothingDropped
    BY <2>2 DEF Promise!NothingDropped, Promise!Answered, Promise!New, New
  <2>6. QED
    BY <2>3, <2>4, <2>5 DEF Promise!Next
<1>3. QED
  BY <1>1, <1>2, AlwaysTrail, PTL DEF Spec, Promise!Spec

\* An order nobody accounts for any more was canceled; it may have fills only
\* if a journal write of its kind may be lost and its kind may fill in part.
NothingElseForgotten == \A o \in OrderIds : Accounted(o) \/ Forsaken(o)
THEOREM OnlyForsakenForgotten == Spec => []NothingElseForgotten
<1>1. OwnCustody /\ Promise!Answerable => NothingElseForgotten
  <2> SUFFICES ASSUME OwnCustody, Promise!Answerable, NEW o \in OrderIds, ~Forsaken(o)
               PROVE  Accounted(o)
    BY DEF NothingElseForgotten
  <2>1. o \in InHand \cup OnRecord
    BY DEF Promise!Answerable, Promise!Answered
  <2>2. PICK p \in Profiles : InFlight(p, o) \/ o \in Ledger(p)
    BY <2>1, AnsweredBy
  <2>3. orders[o].prof = p
    BY <2>2, OwnerOf
  <2>4. InFlight(p, o) => flight[p] = Sent(o)
    BY DEF InFlight, Sent, OwnCustody, TypeOK
  <2>5. QED
    BY <2>2, <2>3, <2>4 DEF Accounted, Ledger
<1>2. Promise!Spec => []Promise!Answerable
  BY Promise!EveryOrderAnswered
<1>3. QED
  BY <1>1, <1>2, RecoveryImplementsPromise, AlwaysInCustody, PTL

\* When no kind of order both loses journal writes and fills in pieces, and no
\* stop is rolled back late, the recovery is complete: the journal, the ledger
\* and the threads implement OrderCustody ...
THEOREM RecoveryImplementsCustody ==
  ASSUME Leaky = {}
  PROVE  Spec => KeepsCustody
<1>1. \A o : Forsaken(o) <=> Canceled(o) /\ ~Held(o)
  BY DEF Forsaken
<1>2. Init => Custody!Init
  BY CustodyInit DEF Custody!Init, InHand, OnRecord
<1>3. ASSUME OwnCustody, Trail, [Next]_vars
      PROVE  [Custody!Next]_(Custody!vars)
  <2>1. OwnCustody' /\ Recovers
    BY <1>3, NextKeepsCustody, NextRecovers
  <2>2. /\ OrderIds \subseteq OrderIds'
        /\ \A o \in OrderIds : Canceled(o) => Canceled(o)' /\ (Held(o)' <=> Held(o))
        /\ OnRecord' \subseteq InHand \cup OnRecord \cup New
        /\ InHand' \subseteq InHand \cup New
    BY <1>3, <2>1, CustodyStep
  <2>3. \A o \in (InHand \cup OnRecord \cup New) \ (InHand' \cup OnRecord') :
          o \in OrderIds /\ Canceled(o) /\ ~Held(o)
    BY <1>1, <1>3, <2>1, CustodyStep
  <2>4. Custody!BrokerGoesOn
    BY <2>2 DEF Custody!BrokerGoesOn
  <2>5. Custody!NothingInvented
    BY <2>2 DEF Custody!NothingInvented, Custody!Answered, Custody!New, New,
                InHand, OnRecord
  <2>6. Custody!NothingDropped
    BY <2>3 DEF Custody!NothingDropped, Custody!Answered, Custody!New, New,
                InHand, OnRecord
  <2>7. QED
    BY <2>4, <2>5, <2>6 DEF Custody!Next
<1>4. QED
  BY <1>2, <1>3, AlwaysTrail, PTL DEF Spec, KeepsCustody, Custody!Spec

\* ... and every order the broker has that may have filled is accounted for.
THEOREM NoOrderOrphaned ==
  ASSUME Leaky = {}
  PROVE  Spec => []NoOrphanOrder
<1>1. NothingElseForgotten => NoOrphanOrder
  BY DEF NothingElseForgotten, NoOrphanOrder, Forsaken
<1>2. QED
  BY <1>1, OnlyForsakenForgotten, PTL

-----------------------------------------------------------------------------
(* What the tasks may write off.  Whatever fills in pieces, however late   *)
(* cancels land and whichever writes are lost, no step stamps the row of   *)
(* an entry or an exit canceled while its order holds fills.  Three tasks  *)
(* do stamp a pending_protective row on its order's status alone, so the   *)
(* invariant is that only stops have one.                                  *)

PendingIsStop ==
  \A p \in Profiles : \A i \in DOMAIN trades[p] :
    trades[p][i].st = "pending_protective" => orders[trades[p][i].oid].kind = "protective"

\* The rows keep their orders; what is newly canceled holds no fills, or was a
\* pending stop; what is pending was so before, or is a new stop's.
KeepsFills(rows, new) ==
  /\ \A i \in DOMAIN rows :
       /\ i \in DOMAIN new /\ new[i].oid = rows[i].oid
       /\ new[i].st = "canceled" =>
            \/ rows[i].st \in {"canceled", "pending_protective"}
            \/ ~Held(rows[i].oid)
  /\ \A i \in DOMAIN new :
       new[i].st = "pending_protective" =>
         \/ i \in DOMAIN rows /\ rows[i].st = "pending_protective"
         \/ orders'[new[i].oid].kind = "protective"

Careful == Evolves /\ \A p \in Profiles : KeepsFills(trades[p], trades'[p])

LEMMA CarefulKeepsPending ==
  ASSUME OwnCustody, PendingIsStop, Careful
  PROVE  PendingIsStop' /\ ~WritesOff({"entry", "exit"})
<1>1. ASSUME NEW p \in Profiles, NEW i \in DOMAIN trades'[p],
             trades'[p][i].st = "pending_protective"
      PROVE  orders'[trades'[p][i].oid].kind = "protective"
  <2>1. SUFFICES ASSUME i \in DOMAIN trades[p], trades[p][i].st = "pending_protective"
                 PROVE  orders'[trades'[p][i].oid].kind = "protective"
    BY <1>1 DEF Careful, KeepsFills
  <2>2. trades'[p][i].oid = trades[p][i].oid /\ trades[p][i].oid \in OrderIds
    BY <2>1, InCustody DEF Careful, KeepsFills, Named
  <2>3. QED
    BY <2>1, <2>2 DEF PendingIsStop, Careful, Evolves
<1>2. ASSUME NEW p \in Profiles, NEW i \in DOMAIN trades[p],
             trades[p][i].st # "canceled", trades'[p][i].st = "canceled",
             orders[trades[p][i].oid].kind \in {"entry", "exit"}, Held(trades[p][i].oid)
      PROVE  FALSE
  BY <1>2 DEF Careful, KeepsFills, PendingIsStop
<1>3. QED
  BY <1>1, <1>2 DEF PendingIsStop, WritesOff

\* Rows that change no status and lose no order.
LEMMA SameStatus ==
  ASSUME NEW rows, NEW new, DOMAIN new = DOMAIN rows,
         \A i \in DOMAIN rows : new[i].oid = rows[i].oid /\ new[i].st = rows[i].st
  PROVE  KeepsFills(rows, new)
BY DEF KeepsFills

\* A step of p that writes new for its rows, or leaves the journals alone.
LEMMA CarefulStep ==
  ASSUME OwnCustody, Evolves,
         \/ UNCHANGED trades
         \/ \E p \in Profiles : \E new : /\ KeepsFills(trades[p], new)
                                         /\ trades' = [trades EXCEPT ![p] = new]
  PROVE  Careful
<1>1. \A p \in Profiles : KeepsFills(trades[p], trades[p])
  BY SameStatus
<1>2. CASE UNCHANGED trades
  BY <1>1, <1>2 DEF Careful
<1>3. CASE \E p \in Profiles : \E new : /\ KeepsFills(trades[p], new)
                                        /\ trades' = [trades EXCEPT ![p] = new]
  BY <1>1, <1>3 DEF Careful, OwnCustody, TypeOK
<1>4. QED
  BY <1>2, <1>3

-----------------------------------------------------------------------------
(* The thread.                                                              *)

LEMMA LogTradeCareful ==
  ASSUME OwnCustody, NEW p \in Profiles, Evolves, LogTrade(p)
  PROVE  Careful
<1> DEFINE o == flight[p].n
           st == IF orders[o].kind = "entry" THEN "open" ELSE "pending_fill"
           r == Row(o, SideOf(orders[o].kind), orders[o].qty, st, FALSE)
           new == Append(trades[p], r)
<1>1. trades' = [trades EXCEPT ![p] = new]
  BY DEF LogTrade
<1>2. r.st \in {"open", "pending_fill"}
  BY DEF Row
<1>3. trades[p] \in Seq(JournalRow)
  BY InCustody
<1> HIDE DEF r
<1>4. /\ DOMAIN trades[p] = 1..Len(trades[p]) /\ Len(trades[p]) \in Nat
      /\ DOMAIN new = 1..(Len(trades[p]) + 1)
      /\ \A i \in DOMAIN trades[p] : new[i] = trades[p][i]
      /\ new[Len(trades[p]) + 1] = r
  <2>1. DOMAIN new = 1..(Len(trades[p]) + 1) /\ new[Len(trades[p]) + 1] = r
        /\ \A i \in 1..Len(trades[p]) : new[i] = trades[p][i]
    BY <1>3
  <2>2. QED
    BY <1>3, <2>1, LenProperties
<1> HIDE DEF new
<1>5. KeepsFills(trades[p], new)
  BY <1>2, <1>4 DEF KeepsFills
<1>6. QED
  BY <1>1, <1>5, CarefulStep

LEMMA CancelThenSellCareful ==
  ASSUME OwnCustody, NEW p \in Profiles, Evolves,
         NEW path, NEW asked, NEW q, CancelThenSell(p, path, asked, q)
  PROVE  Careful
<1>1. PICK landed : trades' = [trades EXCEPT ![p] = ClearPointers(p, landed)]
  BY DEF CancelThenSell
<1>2. ASSUME NEW i \in DOMAIN trades[p]
      PROVE  /\ ClearPointers(p, landed)[i].oid = trades[p][i].oid
             /\ ClearPointers(p, landed)[i].st = trades[p][i].st
  <2>1. trades[p][i] \in JournalRow
    BY InCustody
  <2>2. \/ ClearPointers(p, landed)[i] = trades[p][i]
        \/ ClearPointers(p, landed)[i] = [trades[p][i] EXCEPT !.stop = 0]
    BY DEF ClearPointers
  <2>3. QED
    BY <2>1, <2>2 DEF JournalRow
<1>3. DOMAIN ClearPointers(p, landed) = DOMAIN trades[p]
  BY DEF ClearPointers
<1>4. KeepsFills(trades[p], ClearPointers(p, landed))
  BY <1>2, <1>3, SameStatus
<1>5. QED
  BY <1>1, <1>4, CarefulStep

-----------------------------------------------------------------------------
(* The reconciler.                                                          *)

\* It cancels phantom sells and entries that never filled, on the fills.
LEMMA ReconciledKeepsFills ==
  ASSUME NEW rows \in Seq(JournalRow), NEW used
  PROVE  KeepsFills(rows, Reconciled(rows, used))
<1> DEFINE new == Reconciled(rows, used)
<1>1. DOMAIN new = DOMAIN rows
  BY DEF Reconciled
<1>2. ASSUME NEW i \in DOMAIN rows
      PROVE  /\ new[i].oid = rows[i].oid
             /\ \/ new[i].st = rows[i].st
                \/ new[i].st \in {"open", "closed"}
                \/ new[i].st = "canceled" /\ ~Held(rows[i].oid)
  <2>1. rows[i] \in JournalRow
    BY LenProperties, ElementOfSeq
  <2>2. BookFill(rows[i]).oid = rows[i].oid /\ BookFill(rows[i]).st = rows[i].st
        /\ [BookFill(rows[i]) EXCEPT !.st = "closed"].oid = rows[i].oid
        /\ [BookFill(rows[i]) EXCEPT !.st = "closed"].st = "closed"
    BY <2>1 DEF BookFill, JournalRow
  <2>3. i \in PhantomSells(rows) \cup NeverFilled(rows, used) => ~Held(rows[i].oid)
    BY DEF PhantomSells, NeverFilled
  <2>4. \/ new[i] = BookFill(rows[i])
        \/ /\ i \in PhantomSells(rows) \cup NeverFilled(rows, used)
           /\ new[i] = [rows[i] EXCEPT !.st = "canceled"]
        \/ new[i] = [rows[i] EXCEPT !.st = "open"]
        \/ new[i] = [rows[i] EXCEPT !.st = "closed"]
        \/ new[i] = [BookFill(rows[i]) EXCEPT !.st = "closed"]
        \/ new[i] = rows[i]
    BY Zenon DEF Reconciled
  <2>5. QED
    BY <2>1, <2>2, <2>3, <2>4 DEF JournalRow
<1> HIDE DEF new
<1>3. KeepsFills(rows, new)
  BY <1>1, <1>2 DEF KeepsFills
<1>4. QED
  BY <1>3 DEF new

\* The rows rebuilt before it are open.
LEMMA FreshenCareful ==
  ASSUME OwnCustody, NEW p \in Profiles, Evolves, Freshen(p)
  PROVE  Careful
<1>1. PICK s \in RebuildOrders(p) :
        trades' = [trades EXCEPT ![p] = Reconciled(Rebuilt(p, s), {})]
  BY DEF Freshen
<1> DEFINE rebuilt == Rebuilt(p, s)
           new == Reconciled(rebuilt, {})
           rows == trades[p]
<1>2. rebuilt \in Seq(JournalRow)
  BY RebuiltRows
<1>3. KeepsFills(rebuilt, new)
  <2> HIDE DEF rebuilt
  <2>1. QED
    BY <1>2, ReconciledKeepsFills
<1>4. PICK n \in Nat : RebuiltAs(p, s, n)
  BY RebuiltShape
<1>5. Len(rows) \in Nat /\ DOMAIN rows = 1..Len(rows)
  BY InCustody, LenProperties
<1>6. /\ DOMAIN rebuilt = 1..(Len(rows) + n)
      /\ \A i \in 1..Len(rows) : rebuilt[i] = rows[i]
      /\ \A i \in DOMAIN rebuilt \ (1..Len(rows)) : rebuilt[i].st = "open"
  BY <1>4 DEF RebuiltAs
<1>7. trades' = [trades EXCEPT ![p] = new]
  BY <1>1
<1> HIDE DEF rebuilt, new, rows
<1>8. \A i \in DOMAIN rows : i \in DOMAIN rebuilt /\ rebuilt[i] = rows[i]
  BY <1>5, <1>6
<1>9. \A i \in DOMAIN rebuilt \ DOMAIN rows : rebuilt[i].st = "open"
  BY <1>5, <1>6
<1>10. KeepsFills(rows, new)
  BY <1>3, <1>8, <1>9 DEF KeepsFills
<1>11. KeepsFills(trades[p], new)
  BY <1>10 DEF rows
<1>12. QED
  BY <1>7, <1>11, CarefulStep

LEMMA ReconcileTaskCareful ==
  ASSUME OwnCustody, NEW p \in Profiles, Evolves, ReconcileTask(p)
  PROVE  Careful
<1>1. KeepsFills(trades[p], Reconciled(trades[p], JournaledSells))
  BY InCustody, ReconciledKeepsFills
<1>2. QED
  BY <1>1, CarefulStep DEF ReconcileTask

-----------------------------------------------------------------------------
(* The other tasks.                                                         *)

\* A row that is written off holds no fills; the others stay or are closed.
LEMMA UpdateFillsCareful ==
  ASSUME OwnCustody, NEW p \in Profiles, Evolves,
         NEW i \in DOMAIN trades[p], UpdateFills(p, i)
  PROVE  Careful
<1> DEFINE old == trades[p]
           r == old[i]
           o == r.oid
           trued == [r EXCEPT !.priced = TRUE,
                              !.qty = IF Dead(o) THEN orders[o].filled ELSE @]
           stamped == [old EXCEPT ![i] = trued]
           confirms == r.side = "sell" /\
                       r.st \in {"open", "pending_fill", "pending_protective"}
           rows == IF ~confirms THEN stamped
                   ELSE [k \in DOMAIN stamped |->
                           IF k = i \/ (/\ k \in FifoLotsFullyConsumed(stamped)
                                        /\ stamped[k].st = "open")
                             THEN [stamped[k] EXCEPT !.st = "closed"]
                             ELSE stamped[k]]
           written == [old EXCEPT ![i].st = "canceled"]
<1>1. \A k \in DOMAIN old : old[k] \in JournalRow
  BY InCustody
<1>2. trued \in [oid : {o}, side : {"buy", "sell"}, qty : {trued.qty},
                 st : {r.st}, priced : BOOLEAN, stop : Nat]
  BY <1>1 DEF JournalRow
<1> HIDE DEF trued
<1>3. /\ DOMAIN stamped = DOMAIN old
      /\ \A k \in DOMAIN old :
           stamped[k].oid = old[k].oid /\ stamped[k].st = old[k].st
           /\ [stamped[k] EXCEPT !.st = "closed"].oid = old[k].oid
           /\ [stamped[k] EXCEPT !.st = "closed"].st = "closed"
  <2>1. DOMAIN stamped = DOMAIN old
    OBVIOUS
  <2>2. ASSUME NEW k \in DOMAIN old
        PROVE  stamped[k] \in [oid : {old[k].oid}, side : {"buy", "sell"},
                               qty : {stamped[k].qty}, st : {old[k].st},
                               priced : BOOLEAN, stop : Nat]
    BY <1>1, <1>2 DEF JournalRow
  <2> HIDE DEF stamped
  <2>3. QED
    BY <2>1, <2>2
<1> HIDE DEF stamped
<1>4. KeepsFills(old, rows)
  <2>1. CASE ~confirms
    BY <1>3, <2>1, SameStatus
  <2>2. CASE confirms
    <3>1. DOMAIN rows = DOMAIN old
      BY <1>3, <2>2
    <3>2. ASSUME NEW k \in DOMAIN old
          PROVE  rows[k].oid = old[k].oid /\ rows[k].st \in {old[k].st, "closed"}
      <4>1. rows[k] = stamped[k] \/ rows[k] = [stamped[k] EXCEPT !.st = "closed"]
        BY <1>3, <2>2
      <4>2. QED
        BY <1>3, <4>1
    <3> HIDE DEF rows
    <3>3. QED
      BY <3>1, <3>2 DEF KeepsFills
  <2>3. QED
    BY <2>1, <2>2
<1>5. ASSUME Canceled(o), ~Held(o) PROVE KeepsFills(old, written)
  <2>1. DOMAIN written = DOMAIN old
    OBVIOUS
  <2>2. ASSUME NEW k \in DOMAIN old
        PROVE  written[k].oid = old[k].oid
               /\ (written[k].st = old[k].st \/ (k = i /\ written[k].st = "canceled"))
    <3>1. old[k] \in JournalRow
      BY <1>1
    <3>2. written[k] = IF k = i THEN [old[k] EXCEPT !.st = "canceled"] ELSE old[k]
      OBVIOUS
    <3> HIDE DEF written
    <3>3. QED
      BY <3>1, <3>2 DEF JournalRow
  <2> HIDE DEF written
  <2>3. QED
    BY <1>5, <2>1, <2>2 DEF KeepsFills
<1>6. \/ trades' = [trades EXCEPT ![p] = rows]
      \/ Canceled(o) /\ ~Held(o) /\ trades' = [trades EXCEPT ![p] = written]
  BY DEF UpdateFills, trued, stamped
<1> HIDE DEF rows, written
<1>7. QED
  BY <1>4, <1>5, <1>6, CarefulStep

\* Rows of which only pending stops are written off.
LEMMA StopsOnly ==
  ASSUME NEW rows, NEW new, DOMAIN new = DOMAIN rows,
         \A i \in DOMAIN rows :
           /\ new[i].oid = rows[i].oid
           /\ \/ new[i].st = rows[i].st
              \/ rows[i].st = "pending_protective" /\ new[i].st = "canceled"
  PROVE  KeepsFills(rows, new)
BY DEF KeepsFills

LEMMA SyncPendingCareful ==
  ASSUME OwnCustody, NEW p \in Profiles, Evolves, SyncPending(p)
  PROVE  Careful
<1> DEFINE new == [i \in DOMAIN trades[p] |->
                     LET r == trades[p][i] IN
                     IF r.st = "pending_protective" /\ Canceled(r.oid) /\ ~Held(r.oid)
                       THEN [r EXCEPT !.st = "canceled"] ELSE r]
<1>1. ASSUME NEW i \in DOMAIN trades[p]
      PROVE  /\ new[i].oid = trades[p][i].oid
             /\ \/ new[i].st = trades[p][i].st
                \/ trades[p][i].st = "pending_protective" /\ new[i].st = "canceled"
  <2>1. \/ new[i] = trades[p][i]
        \/ /\ trades[p][i].st = "pending_protective"
           /\ new[i] = [trades[p][i] EXCEPT !.st = "canceled"]
    OBVIOUS
  <2>2. trades[p][i] \in JournalRow
    BY InCustody
  <2> HIDE DEF new
  <2>3. QED
    BY <2>1, <2>2 DEF JournalRow
<1>2. DOMAIN new = DOMAIN trades[p] /\ trades' = [trades EXCEPT ![p] = new]
  BY DEF SyncPending
<1> HIDE DEF new
<1>3. KeepsFills(trades[p], new)
  BY <1>1, <1>2, StopsOnly
<1>4. QED
  BY <1>2, <1>3, CarefulStep

LEMMA CancelOrphanedCareful ==
  ASSUME OwnCustody, NEW p \in Profiles, Evolves, CancelOrphaned(p)
  PROVE  Careful
<1> DEFINE rows == trades[p]
           flat == OpenEntries(rows) = {}
           new(landed) ==
             [i \in DOMAIN rows |->
                LET r == rows[i] IN
                IF r.st = "closed" /\ r.stop # NoOrder
                     /\ (r.stop \in landed \/ Canceled(r.stop))
                  THEN [r EXCEPT !.stop = NoOrder]
                ELSE IF r.st = "pending_protective" /\ flat
                     /\ (r.oid \in landed \/ Canceled(r.oid))
                  THEN [r EXCEPT !.st = "canceled"]
                ELSE r]
<1>1. PICK landed : trades' = [trades EXCEPT ![p] = new(landed)]
  BY DEF CancelOrphaned
<1> DEFINE fresher == new(landed)
<1>2. ASSUME NEW i \in DOMAIN trades[p]
      PROVE  /\ fresher[i].oid = trades[p][i].oid
             /\ \/ fresher[i].st = trades[p][i].st
                \/ trades[p][i].st = "pending_protective" /\ fresher[i].st = "canceled"
  <2>1. \/ fresher[i] = trades[p][i]
        \/ fresher[i] = [trades[p][i] EXCEPT !.stop = NoOrder]
        \/ /\ trades[p][i].st = "pending_protective"
           /\ fresher[i] = [trades[p][i] EXCEPT !.st = "canceled"]
    OBVIOUS
  <2>2. trades[p][i] \in JournalRow
    BY InCustody
  <2> HIDE DEF fresher
  <2>3. QED
    BY <2>1, <2>2 DEF JournalRow
<1>3. DOMAIN fresher = DOMAIN trades[p] /\ trades' = [trades EXCEPT ![p] = fresher]
  BY <1>1
<1> HIDE DEF fresher
<1>4. KeepsFills(trades[p], fresher)
  BY <1>2, <1>3, StopsOnly
<1>5. QED
  BY <1>3, <1>4, CarefulStep

-----------------------------------------------------------------------------
(* The sweep.  It marks the latest pending stop, which must be shown to be   *)
(* one: a set of row numbers has its maximum, by induction on the numbers.   *)

LEMMA LeastOf ==
  ASSUME NEW T, T \subseteq Nat, T # {}
  PROVE  \E x \in T : \A y \in T : x <= y
<1>1. IsWellFoundedOn(OpToRel(<, Nat), Nat)
  BY NatLessThanWellFounded
<1>2. PICK x \in T : \A y \in T : ~(<<y, x>> \in OpToRel(<, Nat))
  BY <1>1, WFMin
<1>3. \A y \in T : ~(y < x)
  BY <1>2 DEF OpToRel
<1>4. QED
  BY <1>3

LEMMA MaxIn ==
  ASSUME NEW n \in Nat, NEW S, S \subseteq 1..n, S # {}
  PROVE  Max(S) \in S /\ \A y \in S : Max(S) >= y
<1> DEFINE T == {n - i : i \in S}
<1>1. \A i \in S : i \in 1..n
  OBVIOUS
<1>2. T \subseteq Nat /\ T # {}
  <2>1. \A i \in S : n - i \in Nat
    BY <1>1
  <2>2. QED
    BY <2>1
<1>3. \E m \in T : \A y \in T : m <= y
  <2> HIDE DEF T
  <2>1. QED
    BY <1>2, LeastOf
<1>4. PICK x \in S : \A y \in S : n - x <= n - y
  BY <1>3
<1>5. \A y \in S : x >= y
  BY <1>1, <1>4
<1>6. QED
  BY <1>5 DEF Max

\* Rows the sweep marks and links: in place, nothing but a pending stop is
\* written off.
LEMMA SweptRows ==
  ASSUME OwnCustody, NEW p \in Profiles, NEW k, NEW o, NEW new,
         new \in {Marked(trades[p]), [Marked(trades[p]) EXCEPT ![k].stop = o]}
  PROVE  /\ DOMAIN new = DOMAIN trades[p]
         /\ KeepsFills(trades[p], new)
<1> DEFINE rows == trades[p]
           marked == Marked(rows)
           linked == [marked EXCEPT ![k].stop = o]
<1>1. LatestPending(rows) \subseteq RowsOf(rows, "sell", {"pending_protective"})
  <2> DEFINE S == RowsOf(rows, "sell", {"pending_protective"})
  <2>1. S \subseteq 1..Len(rows) /\ Len(rows) \in Nat
    BY InCustody, LenProperties DEF RowsOf
  <2> HIDE DEF S
  <2>2. S # {} => Max(S) \in S
    BY <2>1, MaxIn
  <2>3. Latest(S) \subseteq S
    BY <2>2 DEF Latest
  <2>4. QED
    BY <2>3 DEF LatestPending, S
<1>2. /\ DOMAIN marked = DOMAIN rows
      /\ \A i \in DOMAIN rows :
           /\ marked[i].oid = rows[i].oid
           /\ \/ marked[i].st = rows[i].st
              \/ rows[i].st = "pending_protective" /\ marked[i].st = "canceled"
  <2>1. ASSUME NEW i \in DOMAIN rows
        PROVE  /\ marked[i].oid = rows[i].oid
               /\ \/ marked[i].st = rows[i].st
                  \/ rows[i].st = "pending_protective" /\ marked[i].st = "canceled"
    <3>1. \/ marked[i] = rows[i]
          \/ i \in LatestPending(rows) /\ marked[i] = [rows[i] EXCEPT !.st = "canceled"]
      BY DEF Marked
    <3>2. i \in LatestPending(rows) => rows[i].st = "pending_protective"
      BY <1>1 DEF RowsOf
    <3>3. rows[i] \in JournalRow
      BY InCustody
    <3> HIDE DEF marked
    <3>4. QED
      BY <3>1, <3>2, <3>3 DEF JournalRow
  <2>2. DOMAIN marked = DOMAIN rows
    BY DEF Marked
  <2>3. QED
    BY <2>1, <2>2
<1>3. marked \in Seq(JournalRow)
  BY MarkedRows
<1> HIDE DEF marked
<1>4. ASSUME NEW i \in DOMAIN rows
      PROVE  linked[i].oid = marked[i].oid /\ linked[i].st = marked[i].st
  <2>1. marked[i] \in JournalRow
    BY <1>2, <1>3, LenProperties, ElementOfSeq
  <2>2. linked[i] = marked[i] \/ linked[i] = [marked[i] EXCEPT !.stop = o]
    BY <1>2
  <2> HIDE DEF linked
  <2>3. QED
    BY <2>1, <2>2 DEF JournalRow
<1>5. DOMAIN linked = DOMAIN rows
  BY <1>2
<1>6. new = marked \/ new = linked
  BY DEF marked
<1> HIDE DEF linked
<1>7. DOMAIN new = DOMAIN rows
  BY <1>2, <1>5, <1>6
<1>8. ASSUME NEW i \in DOMAIN rows
      PROVE  /\ new[i].oid = rows[i].oid
             /\ \/ new[i].st = rows[i].st
                \/ rows[i].st = "pending_protective" /\ new[i].st = "canceled"
  BY <1>2, <1>4, <1>6
<1> HIDE DEF rows
<1>9. KeepsFills(rows, new)
  BY <1>7, <1>8, StopsOnly
<1>10. QED
  BY <1>7, <1>9 DEF rows

LEMMA MarkedCareful ==
  ASSUME OwnCustody, NEW p \in Profiles, Evolves, NEW k, NEW o,
         \/ trades' = [trades EXCEPT ![p] = Marked(trades[p])]
         \/ trades' = [trades EXCEPT ![p] = [Marked(trades[p]) EXCEPT ![k].stop = o]]
  PROVE  Careful
<1>1. /\ KeepsFills(trades[p], Marked(trades[p]))
      /\ KeepsFills(trades[p], [Marked(trades[p]) EXCEPT ![k].stop = o])
  BY SweptRows
<1>2. QED
  BY <1>1, CarefulStep

\* The row it adds is of the stop it placed.
LEMMA PlaceStopCareful ==
  ASSUME OwnCustody, NEW p \in Profiles, Evolves, PlaceStop(p)
  PROVE  Careful
<1> PICK o \in Nat : o = Len(orders) + 1
  BY LenProperties DEF OwnCustody, TypeOK
<1> DEFINE q == BookQty(trades[p])
           x == NewOrder(p, "protective", q)
           linked == [Marked(trades[p]) EXCEPT ![Protected(p)].stop = o]
           r == Row(o, "sell", q, "pending_protective", FALSE)
           new == Append(linked, r)
<1>1. orders' = Append(orders, x) /\ trades' = [trades EXCEPT ![p] = new]
  BY DEF PlaceStop
<1>2. x.kind = "protective" /\ r.oid = o /\ q \in Qty
  BY DEF NewOrder, Row, PlaceStop, PlaceableStop, NeedsStop, SweepProceeds
<1> HIDE DEF q
<1>3. orders'[o].kind = "protective"
  <2>1. x \in Order
    BY <1>2, AccountAssumption DEF NewOrder, Order, OrderStatus, Kinds, Qty
  <2>2. orders'[o] = x
    <3> HIDE DEF x
    <3>1. QED
      BY <1>1, <2>1, NewOrderEvolves DEF OwnCustody
  <2>3. QED
    BY <1>2, <2>2
<1>4. linked \in Seq(JournalRow)
  <2> DEFINE own == OwnOrders(p) \cup {o}
             marked == Marked(trades[p])
  <2>1. marked \in Seq(JournalRow) /\ Named(own, marked) /\ o \in own
    BY MarkedRows DEF Named
  <2> HIDE DEF own, marked
  <2>2. [marked EXCEPT ![Protected(p)].stop = o] \in Seq(JournalRow)
    BY <2>1, LinkedRow
  <2>3. QED
    BY <2>2 DEF marked
<1>5. DOMAIN linked = DOMAIN trades[p] /\ KeepsFills(trades[p], linked)
  BY SweptRows
<1> HIDE DEF r, linked
<1>6. /\ DOMAIN linked = 1..Len(linked) /\ Len(linked) \in Nat
      /\ DOMAIN new = 1..(Len(linked) + 1)
      /\ \A i \in DOMAIN linked : new[i] = linked[i]
      /\ new[Len(linked) + 1] = r
  <2>1. DOMAIN new = 1..(Len(linked) + 1) /\ new[Len(linked) + 1] = r
        /\ \A i \in 1..Len(linked) : new[i] = linked[i]
    BY <1>4
  <2>2. QED
    BY <1>4, <2>1, LenProperties
<1> HIDE DEF new
<1>7. KeepsFills(trades[p], new)
  BY <1>2, <1>3, <1>5, <1>6 DEF KeepsFills
<1>8. QED
  BY <1>1, <1>7, CarefulStep

-----------------------------------------------------------------------------
(* Every step, and the theorem.                                             *)

LEMMA TaskStepCareful ==
  ASSUME OwnCustody, NEW p \in Profiles, Evolves, TaskStep(p)
  PROVE  Careful
<1>1. CASE Freshen(p)
  BY <1>1, FreshenCareful
<1>2. CASE ReconcileTask(p)
  BY <1>2, ReconcileTaskCareful
<1>3. CASE \E i \in DOMAIN trades[p] : UpdateFills(p, i)
  BY <1>3, UpdateFillsCareful
<1>4. CASE CancelStale(p)
  BY <1>4, CarefulStep DEF CancelStale
<1>5. CASE CancelOrphaned(p)
  BY <1>5, CancelOrphanedCareful
<1>6. CASE SyncPending(p)
  BY <1>6, SyncPendingCareful
<1>7. CASE HealPointer(p)
  BY <1>7, MarkedCareful DEF HealPointer
<1>8. CASE PlaceStop(p)
  BY <1>8, PlaceStopCareful
<1>9. CASE RollBackStop(p) \/ StopRefused(p)
  BY <1>9, MarkedCareful DEF RollBackStop, StopRefused
<1>10. QED
  BY <1>1, <1>2, <1>3, <1>4, <1>5, <1>6, <1>7, <1>8, <1>9 DEF TaskStep

LEMMA NextCareful ==
  ASSUME OwnCustody, Trail, [Next]_vars
  PROVE  Careful
<1>1. Evolves
  BY NextRecovers DEF Recovers
<1>2. ASSUME NEW p \in Profiles, OrderStep(p)
      PROVE  Careful
  <2>1. CASE LogTrade(p)
    BY <1>1, <2>1, LogTradeCareful
  <2>2. CASE PollExit(p)
    BY <1>1, <2>2, CancelThenSellCareful DEF PollExit
  <2>3. CASE \E q \in Qty : AiSell(p, q)
    BY <1>1, <2>3, CancelThenSellCareful DEF AiSell
  <2>4. CASE \/ \E q \in Qty : SubmitBuy(p, q)
             \/ LoseJournalWrite(p) \/ PollExitDeferred(p)
             \/ ExitSubmit(p) \/ ExitAbandoned(p)
    <3>1. UNCHANGED trades
      BY <2>4 DEF SubmitBuy, LoseJournalWrite, PollExitDeferred, ExitSubmit, ExitAbandoned
    <3>2. QED
      BY <1>1, <3>1, CarefulStep
  <2>5. QED
    BY <1>2, <2>1, <2>2, <2>3, <2>4 DEF OrderStep
<1>3. CASE \/ ExchangeStep \/ CycleStart \/ UNCHANGED vars
           \/ \E p \in Workers : ClearHalt(p)
  <2>1. UNCHANGED trades
    BY <1>3 DEF ExchangeStep, CycleStart, ClearHalt, vars
  <2>2. QED
    BY <1>1, <2>1, CarefulStep
<1>4. QED
  BY <1>1, <1>2, <1>3, LifecycleAssumption, TaskStepCareful DEF Next

\* The rows of the holdings are open.
LEMMA InitPending ==
  ASSUME Init
  PROVE  PendingIsStop
<1>1. PICK s \in InSomeOrder(Holders) :
        trades = [p \in Profiles |->
                    IF p \in Holders
                      THEN <<Row(CHOOSE i \in DOMAIN s : s[i] = p, "buy",
                                 Holding[p], "open", TRUE)>>
                      ELSE <<>>]
  BY DEF Init
<1> SUFFICES ASSUME NEW p \in Profiles, NEW k \in DOMAIN trades[p]
             PROVE  trades[p][k].st # "pending_protective"
  BY DEF PendingIsStop
<1> DEFINE r == Row(CHOOSE i \in DOMAIN s : s[i] = p, "buy", Holding[p], "open", TRUE)
<1>2. r.st = "open"
  BY DEF Row
<1>3. trades[p] = <<>> \/ trades[p] = <<r>>
  BY <1>1
<1> HIDE DEF r
<1>4. trades[p][k] = r
  BY <1>3, OneRow
<1>5. QED
  BY <1>2, <1>4

\* No task writes off the row of an entry or an exit whose order has fills: the
\* reconciler and update_fills decide on the fills, never on the status alone.
THEOREM NoFillWrittenOff == Spec => FillsNeverWrittenOff
<1>1. Init => PendingIsStop
  BY InitPending
<1>2. /\ OwnCustody /\ Trail /\ PendingIsStop /\ [Next]_vars
      => PendingIsStop' /\ ~WritesOff({"entry", "exit"})
  BY NextCareful, CarefulKeepsPending
<1>3. QED
  BY <1>1, <1>2, AlwaysTrail, PTL DEF Spec, FillsNeverWrittenOff
=============================================================================

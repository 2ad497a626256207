---------------------------- MODULE SpreadProofs ----------------------------
(***************************************************************************)
(* Theorems of SpreadOrders: its types, that rows fit the orders they      *)
(* name, that no voided row hides a fill, and that the executor, its       *)
(* roll-backs and the tasks that settle the rows implement OrderCustody.   *)
(***************************************************************************)
EXTENDS SpreadOrders, SequenceTheorems, FiniteSetTheorems, TLAPS

-----------------------------------------------------------------------------
(* The invariant.                                                          *)

\* The orders the roll-back cancels.
Mine == IF ex.combo # 0 THEN <<ex.combo>> ELSE ex.sent

\* Where the executor is, and what it then holds; while it is at work no task
\* settles rows.
PlaceOK ==
  /\ ex.at = "idle" => ex = Idle
  /\ ex.at # "idle" => polling = <<>>
  /\ ex.at \in {"combo", "leg", "undo", "skip"} => ex.combo = 0
  /\ ex.at = "combo" => ex.sent = <<>>
  /\ ex.at = "leg" => ex.k \in Leg /\ Len(ex.sent) = ex.k - 1
  /\ ex.at \in {"undo", "skip"} => ex.k \in 1..Len(ex.sent) \/ (ex.sent = <<>> /\ ex.k = 1)
  /\ ex.at \in {"log", "cancel", "mark"} =>
       \/ ex.combo # 0 /\ ex.sent = <<>>
       \/ ex.combo = 0 /\ Len(ex.sent) = Len(Legs)
  /\ ex.at = "log" => ex.k \in Leg
  /\ ex.at = "cancel" => ex.k \in 1..Len(Mine)
  /\ ex.at = "mark" => ex.k = Len(Mine) + 1
  /\ ex.at = "skip" => "mismatch" \in Faults

\* What the executor holds are its own orders: a combo, or the open of the leg
\* that was due.
HandOK ==
  /\ ex.combo # 0 => ex.combo \in DOMAIN orders /\ orders[ex.combo].kind = "combo"
  /\ \A j \in DOMAIN ex.sent :
       /\ j \in Leg /\ ex.sent[j] \in DOMAIN orders
       /\ orders[ex.sent[j]].kind = "open"
       /\ orders[ex.sent[j]].leg = Sequence[j]
       /\ orders[ex.sent[j]].side = Legs[Sequence[j]]
  /\ \A i \in ex.logged : i \in DOMAIN rows /\ rows[i].oid \in Range(Mine)

\* Every order but a combo is of a leg.
OrdersOK == \A o \in DOMAIN orders : orders[o].kind # "combo" => orders[o].leg \in Leg

\* A row r names an order of the orders os that carries its leg on its side.
Fits(os, r) ==
  /\ r.oid \in DOMAIN os
  /\ os[r.oid].kind = "combo" \/ os[r.oid].leg = r.leg
  /\ r.side = IF os[r.oid].kind = "combo" THEN Legs[r.leg] ELSE os[r.oid].side
RowsFit == \A i \in DOMAIN rows : Fits(orders, rows[i])

\* Unless a cancel fails, a voided row is of an order that has ended, and the
\* roll-back knows of each order it has been through that it ended or filled.
VoidOK ==
  "cancel" \notin Faults =>
    /\ \A i \in DOMAIN rows : rows[i].st = "dead" => orders[rows[i].oid].st = "dead"
    /\ ~ex.bad
    /\ ex.at \in {"cancel", "mark"} =>
         \A j \in 1..(ex.k - 1) : orders[Mine[j]].st = "dead" \/ Mine[j] \in ex.filled

\* The legs that were journaled, or reversed, are on record.
LegOid(leg) == IF ex.combo # 0 THEN ex.combo ELSE ex.sent[Position(leg)]
RecordOK ==
  /\ ex.at = "log" => \A leg \in 1..(ex.k - 1) : Journaled(LegOid(leg))
  /\ Sound /\ ex.at \in {"undo", "skip"} => \A j \in 1..(ex.k - 1) : Journaled(ex.sent[j])

SpreadInv ==
  /\ SpreadTypeOK /\ PlaceOK /\ HandOK /\ OrdersOK /\ RowsFit /\ VoidOK /\ RecordOK

-----------------------------------------------------------------------------
(* Sorted lists the elements of a finite set of numbers, each once.        *)

LEMMA RankIsCount ==
  ASSUME NEW S \in SUBSET Int, IsFiniteSet(S), NEW x \in S
  PROVE  Rank(S, x) \in 1..Cardinality(S)
<1>1. {y \in S : y <= x} \in SUBSET S /\ x \in {y \in S : y <= x}
  OBVIOUS
<1>2. /\ IsFiniteSet({y \in S : y <= x})
      /\ Cardinality({y \in S : y <= x}) <= Cardinality(S)
  BY <1>1, FS_Subset
<1>3. Cardinality({y \in S : y <= x}) \in Nat /\ Cardinality(S) \in Nat
  BY <1>2, FS_CardinalityType
<1>4. Cardinality({y \in S : y <= x}) # 0
  BY <1>1, <1>2, FS_EmptySet
<1>. QED
  BY <1>2, <1>3, <1>4 DEF Rank

LEMMA RankGrows ==
  ASSUME NEW S \in SUBSET Int, IsFiniteSet(S), NEW x \in S, NEW z \in S, x < z
  PROVE  Rank(S, x) # Rank(S, z)
<1>1. {y \in S : y <= x} \in SUBSET {y \in S : y <= z}
  <2>1. \A y \in S : y \in Int
    OBVIOUS
  <2>2. \A y \in S : y <= x => y <= z
    BY <2>1
  <2>. QED
    BY <2>2
<1>2. z \in {y \in S : y <= z} /\ z \notin {y \in S : y <= x}
  OBVIOUS
<1>3. {y \in S : y <= z} \in SUBSET S
  OBVIOUS
<1>4. IsFiniteSet({y \in S : y <= z})
  BY <1>3, FS_Subset
<1>5. Cardinality({y \in S : y <= z}) = Cardinality({y \in S : y <= x})
        => {y \in S : y <= z} = {y \in S : y <= x}
  BY <1>1, <1>4, FS_Subset
<1>. QED
  BY <1>2, <1>5 DEF Rank

\* Every rank is somebody's, and nobody else's.
LEMMA RankIsBijection ==
  ASSUME NEW S \in SUBSET Int, IsFiniteSet(S)
  PROVE  /\ \A x, z \in S : Rank(S, x) = Rank(S, z) => x = z
         /\ \A n \in 1..Cardinality(S) : \E x \in S : Rank(S, x) = n
<1>1. ASSUME NEW x \in S, NEW z \in S, Rank(S, x) = Rank(S, z)
      PROVE  x = z
  <2>1. ~(x < z) /\ ~(z < x)
    BY <1>1, RankGrows
  <2>. QED
    BY <2>1
<1>2. PICK r : r = [x \in S |-> Rank(S, x)]
  OBVIOUS
<1>3. r \in [S -> 1..Cardinality(S)] /\ \A x \in S : r[x] = Rank(S, x)
  BY <1>2, RankIsCount
<1>4. r \in Injection(S, 1..Cardinality(S))
  BY <1>1, <1>3 DEF Injection, IsInjective
<1>5. Cardinality(S) \in Nat
  BY FS_CardinalityType
<1>6. IsFiniteSet(1..Cardinality(S)) /\ Cardinality(1..Cardinality(S)) = Cardinality(S)
  BY <1>5, FS_Interval
<1>7. r \in Surjection(S, 1..Cardinality(S))
  BY <1>4, <1>6, FS_Injection
<1>. QED
  BY <1>1, <1>3, <1>7 DEF Surjection

LEMMA SortedLists ==
  ASSUME NEW S \in SUBSET Int, IsFiniteSet(S)
  PROVE  /\ Sorted(S) \in Seq(S) /\ Len(Sorted(S)) = Cardinality(S)
         /\ Cardinality(S) \in Nat
         /\ \A x \in S : \E n \in 1..Cardinality(S) : Sorted(S)[n] = x
         /\ \A m, n \in 1..Cardinality(S) : Sorted(S)[m] = Sorted(S)[n] => m = n
<1>1. ASSUME NEW n \in 1..Cardinality(S)
      PROVE  Sorted(S)[n] \in S /\ Rank(S, Sorted(S)[n]) = n
  <2>1. \E x \in S : Rank(S, x) = n
    BY RankIsBijection
  <2>2. Sorted(S)[n] = CHOOSE x \in S : Rank(S, x) = n
    BY DEF Sorted
  <2>. QED
    BY <2>1, <2>2
<1>2. Cardinality(S) \in Nat
  BY FS_CardinalityType
<1>3. Sorted(S) \in [1..Cardinality(S) -> S]
  BY <1>1 DEF Sorted
<1>4. Sorted(S) \in Seq(S)
  BY <1>2, <1>3, SeqDef
<1>5. Len(Sorted(S)) = Cardinality(S)
  BY <1>2, <1>3, <1>4, LenProperties
<1>6. ASSUME NEW x \in S
      PROVE  \E n \in 1..Cardinality(S) : Sorted(S)[n] = x
  <2>1. PICK n \in 1..Cardinality(S) : n = Rank(S, x)
    BY RankIsCount
  <2>2. Sorted(S)[n] \in S /\ Rank(S, Sorted(S)[n]) = Rank(S, x)
    BY <1>1, <2>1
  <2>3. \A y, z \in S : Rank(S, y) = Rank(S, z) => y = z
    BY RankIsBijection
  <2>4. Sorted(S)[n] = x
    BY <2>2, <2>3
  <2>. QED
    BY <2>4
<1>7. ASSUME NEW m \in 1..Cardinality(S), NEW n \in 1..Cardinality(S),
             Sorted(S)[m] = Sorted(S)[n]
      PROVE  m = n
  BY <1>1, <1>7
<1>. QED
  BY <1>2, <1>4, <1>5, <1>6, <1>7

-----------------------------------------------------------------------------
(* The order in which the legs are sent names every leg once.              *)

LEMMA SetupTyped ==
  ASSUME setup \in Setups
  PROVE  /\ Legs \in Seq({"buy", "sell"}) /\ Len(Legs) \in Nat /\ Len(Legs) > 1
         /\ Leg = 1..Len(Legs)
         /\ \A leg \in Leg : Legs[leg] \in {"buy", "sell"}
         /\ MaxFaults \in Nat /\ MaxAttempts \in Nat
<1>1. setup \in Setup /\ Len(setup.legs) > 1
  BY SpreadAssumption
<1>2. /\ Legs \in Seq({"buy", "sell"}) /\ Len(Legs) > 1
      /\ MaxFaults \in Nat /\ MaxAttempts \in Nat
  BY <1>1 DEF Setup, Legs, MaxFaults, MaxAttempts
<1>3. /\ Len(Legs) \in Nat /\ DOMAIN Legs = 1..Len(Legs)
  BY <1>2, LenProperties
<1>4. \A leg \in DOMAIN Legs : Legs[leg] \in {"buy", "sell"}
  BY <1>2, <1>3, ElementOfSeq
<1>. QED
  BY <1>2, <1>3, <1>4 DEF Leg

SideLegs(side) == {i \in Leg : Legs[i] = side}

LEMMA LegsOfSide ==
  ASSUME setup \in Setups, NEW side
  PROVE  /\ IsFiniteSet(SideLegs(side)) /\ SideLegs(side) \subseteq Leg
         /\ SideLegs(side) \in SUBSET Int
         /\ LegsOf(side) = Sorted(SideLegs(side))
<1>1. IsFiniteSet(Leg) /\ SideLegs(side) \in SUBSET Leg /\ Leg \subseteq Int
  BY SetupTyped, FS_Interval DEF SideLegs
<1>. QED
  BY <1>1, FS_Subset DEF LegsOf, SideLegs

LEMMA SequenceIsPermutation ==
  ASSUME setup \in Setups
  PROVE  /\ Sequence \in Seq(Leg) /\ Len(Sequence) = Len(Legs)
         /\ \A leg \in Leg : \E k \in Leg : Sequence[k] = leg
         /\ \A j, k \in Leg : Sequence[j] = Sequence[k] => j = k
<1>1. PICK B \in SUBSET Int : B = SideLegs("buy") /\ IsFiniteSet(B) /\ B \subseteq Leg
  BY LegsOfSide
<1>2. PICK S \in SUBSET Int : S = SideLegs("sell") /\ IsFiniteSet(S) /\ S \subseteq Leg
  BY LegsOfSide
<1>3. PICK b : b = Sorted(B)
  OBVIOUS
<1>4. PICK s : s = Sorted(S)
  OBVIOUS
<1>5. /\ IsFiniteSet(B) /\ Cardinality(B) \in Nat /\ B \subseteq Leg
      /\ b \in Seq(B) /\ Len(b) = Cardinality(B)
      /\ \A x \in B : \E n \in 1..Cardinality(B) : b[n] = x
      /\ \A m, n \in 1..Cardinality(B) : b[m] = b[n] => m = n
  BY <1>1, <1>3, SortedLists
<1>6. /\ IsFiniteSet(S) /\ Cardinality(S) \in Nat /\ S \subseteq Leg
      /\ s \in Seq(S) /\ Len(s) = Cardinality(S)
      /\ \A x \in S : \E n \in 1..Cardinality(S) : s[n] = x
      /\ \A m, n \in 1..Cardinality(S) : s[m] = s[n] => m = n
  BY <1>2, <1>4, SortedLists
<1>7. B \cup S = Leg /\ B \cap S = {}
  BY <1>1, <1>2, SetupTyped DEF SideLegs
<1>8. Cardinality(B) + Cardinality(S) = Len(Legs)
  <2>1. Cardinality(Leg) = Len(Legs)
    BY SetupTyped, FS_Interval
  <2>2. Cardinality(B \cap S) = 0
    BY <1>7, FS_EmptySet
  <2>3. Cardinality(B \cup S) = Cardinality(B) + Cardinality(S) - Cardinality(B \cap S)
    BY <1>5, <1>6, FS_Union
  <2>4. Cardinality(B) \in Nat /\ Cardinality(S) \in Nat
    BY <1>5, <1>6
  <2>5. B \cup S = Leg
    BY <1>7
  <2>6. Len(Legs) = Cardinality(B) + Cardinality(S) - 0
    BY <2>1, <2>2, <2>3, <2>5
  <2>. QED
    BY <2>4, <2>6
<1>9. b \in Seq(Leg) /\ s \in Seq(Leg)
  BY <1>5, <1>6, SeqMonotonic
<1>10. Sequence = b \o s
  BY <1>1, <1>2, <1>3, <1>4, LegsOfSide DEF Sequence
<1>11. /\ Sequence \in Seq(Leg) /\ Len(Sequence) = Len(b) + Len(s)
       /\ \A i \in 1..Len(b) + Len(s) :
            Sequence[i] = IF i <= Len(b) THEN b[i] ELSE s[i - Len(b)]
  BY <1>9, <1>10, ConcatProperties
<1>12. Leg = 1..Len(b) + Len(s) /\ Len(b) \in Nat /\ Len(s) \in Nat
  BY <1>5, <1>6, <1>8, SetupTyped
<1>13. \A i \in 1..Len(b) : i \in Leg /\ Sequence[i] = b[i] /\ b[i] \in B
  BY <1>5, <1>11, <1>12, ElementOfSeq
<1>14. \A i \in 1..Len(s) :
         /\ Len(b) + i \in Leg /\ Sequence[Len(b) + i] = s[i] /\ s[i] \in S
  BY <1>6, <1>11, <1>12, ElementOfSeq
<1>15. \A k \in Leg : k \in 1..Len(b) \/ \E i \in 1..Len(s) : k = Len(b) + i
  <2>1. SUFFICES ASSUME NEW k \in Leg, k \notin 1..Len(b)
                 PROVE  k - Len(b) \in 1..Len(s) /\ k = Len(b) + (k - Len(b))
    OBVIOUS
  <2>. QED
    BY <1>12, <2>1
<1>16. ASSUME NEW leg \in Leg
       PROVE  \E k \in Leg : Sequence[k] = leg
  <2>1. CASE leg \in B
    BY <1>5, <1>13, <2>1
  <2>2. CASE leg \in S
    BY <1>6, <1>14, <2>2
  <2>. QED
    BY <1>7, <2>1, <2>2
<1>17. ASSUME NEW j \in Leg, NEW k \in Leg, Sequence[j] = Sequence[k]
       PROVE  j = k
  <2>1. CASE j \in 1..Len(b) /\ k \in 1..Len(b)
    BY <1>5, <1>13, <1>17, <2>1
  <2>2. CASE j \notin 1..Len(b) /\ k \notin 1..Len(b)
    <3>1. PICK m \in 1..Len(s) : j = Len(b) + m
      BY <1>15, <2>2
    <3>2. PICK n \in 1..Len(s) : k = Len(b) + n
      BY <1>15, <2>2
    <3>3. s[m] = s[n]
      BY <1>14, <1>17, <3>1, <3>2
    <3>4. m = n
      BY <1>6, <3>3
    <3>. QED
      BY <3>1, <3>2, <3>4
  <2>3. CASE j \in 1..Len(b) /\ k \notin 1..Len(b)
    <3>1. Sequence[j] \in B
      BY <1>13, <2>3
    <3>2. PICK n \in 1..Len(s) : k = Len(b) + n
      BY <1>15, <2>3
    <3>3. Sequence[k] \in S
      BY <1>14, <3>2
    <3>. QED
      BY <1>7, <1>17, <3>1, <3>3
  <2>4. CASE j \notin 1..Len(b) /\ k \in 1..Len(b)
    <3>1. Sequence[k] \in B
      BY <1>13, <2>4
    <3>2. PICK n \in 1..Len(s) : j = Len(b) + n
      BY <1>15, <2>4
    <3>3. Sequence[j] \in S
      BY <1>14, <3>2
    <3>. QED
      BY <1>7, <1>17, <3>1, <3>3
  <2>. QED
    BY <2>1, <2>2, <2>3, <2>4
<1>. QED
  BY <1>5, <1>6, <1>8, <1>11, <1>16, <1>17

LEMMA PositionInverts ==
  ASSUME setup \in Setups
  PROVE  /\ \A k \in Leg : Sequence[k] \in Leg /\ Position(Sequence[k]) = k
         /\ \A leg \in Leg : Position(leg) \in Leg /\ Sequence[Position(leg)] = leg
<1>1. ASSUME NEW leg \in Leg
      PROVE  Position(leg) \in Leg /\ Sequence[Position(leg)] = leg
  <2>1. \E k \in Leg : Sequence[k] = leg
    BY SequenceIsPermutation
  <2>. QED
    BY <2>1 DEF Position
<1>2. \A k \in Leg : Sequence[k] \in Leg
  BY SequenceIsPermutation, SetupTyped, ElementOfSeq
<1>3. ASSUME NEW k \in Leg
      PROVE  Position(Sequence[k]) = k
  <2>1. /\ Position(Sequence[k]) \in Leg
        /\ Sequence[Position(Sequence[k])] = Sequence[k]
    BY <1>1, <1>2
  <2>. QED
    BY <2>1, SequenceIsPermutation
<1>. QED
  BY <1>1, <1>2, <1>3

-----------------------------------------------------------------------------
(* What a step does to orders and rows.                                    *)

\* Orders are added and move on; a dead one stays dead.
OrdersGo ==
  /\ orders' \in Seq(OrderRecord) /\ Len(orders) <= Len(orders')
  /\ \A o \in 1..Len(orders) :
       /\ orders'[o].kind = orders[o].kind /\ orders'[o].leg = orders[o].leg
       /\ orders'[o].side = orders[o].side
       /\ orders[o].st = "dead" => orders'[o].st = "dead"
  /\ \A o \in 1..Len(orders') : orders'[o].kind # "combo" => orders'[o].leg \in Leg

\* Rows are added for the orders they fit; the old ones keep their order.
RowsGo ==
  /\ rows' \in Seq(RowRecord) /\ Len(rows) <= Len(rows')
  /\ \A i \in 1..Len(rows) :
       rows'[i].leg = rows[i].leg /\ rows'[i].side = rows[i].side /\ rows'[i].oid = rows[i].oid
  /\ \A i \in 1..Len(rows') :
       i \in 1..Len(rows) \/ (Fits(orders', rows'[i]) /\ rows'[i].st # "dead")

\* A row is voided only when its order had ended.
VoidsEnded ==
  \A i \in 1..Len(rows) :
    rows'[i].st = "dead" => rows[i].st = "dead" \/ orders[rows[i].oid].st = "dead"
\* No row is voided at all.
NoneVoided == \A i \in 1..Len(rows) : rows'[i].st = "dead" => rows[i].st = "dead"

LEMMA Domains ==
  ASSUME SpreadTypeOK
  PROVE  /\ DOMAIN orders = 1..Len(orders) /\ Len(orders) \in Nat
         /\ DOMAIN rows = 1..Len(rows) /\ Len(rows) \in Nat
         /\ \A o \in 1..Len(orders) : orders[o] \in OrderRecord
         /\ \A i \in 1..Len(rows) : rows[i] \in RowRecord /\ rows[i].oid \in 1..Len(orders)
         /\ DOMAIN ex.sent = 1..Len(ex.sent) /\ Len(ex.sent) \in Nat
         /\ \A j \in 1..Len(ex.sent) : ex.sent[j] \in Nat
<1>1. orders \in Seq(OrderRecord) /\ rows \in Seq(RowRecord) /\ ex.sent \in Seq(Nat)
  BY DEF SpreadTypeOK, Progress
<1>. QED
  BY <1>1, LenProperties, ElementOfSeq DEF SpreadTypeOK

LEMMA SameRecords ==
  ASSUME UNCHANGED setup
  PROVE  /\ Legs' = Legs /\ Leg' = Leg /\ Faults' = Faults
         /\ MaxFaults' = MaxFaults /\ MaxAttempts' = MaxAttempts
         /\ OrderRecord' = OrderRecord /\ RowRecord' = RowRecord
         /\ Sequence' = Sequence /\ Sound' = Sound
BY DEF Legs, Leg, Faults, MaxFaults, MaxAttempts, OrderRecord, RowRecord, Sequence, LegsOf,
       Sound

LEMMA OrdersStay ==
  ASSUME SpreadTypeOK, OrdersOK, UNCHANGED orders
  PROVE  OrdersGo
BY Domains DEF OrdersGo, OrdersOK, SpreadTypeOK

LEMMA OrderSent ==
  ASSUME SpreadTypeOK, OrdersOK, NEW o \in OrderRecord, o.kind # "combo" => o.leg \in Leg,
         orders' = Append(orders, o)
  PROVE  /\ OrdersGo /\ Len(orders') = Len(orders) + 1 /\ orders'[Len(orders) + 1] = o
         /\ \A x \in 1..Len(orders) : orders'[x] = orders[x]
<1>1. orders \in Seq(OrderRecord) /\ Len(orders) \in Nat
  BY Domains DEF SpreadTypeOK
<1>2. /\ orders' \in Seq(OrderRecord) /\ Len(orders') = Len(orders) + 1
      /\ orders'[Len(orders) + 1] = o
      /\ \A x \in 1..Len(orders) : orders'[x] = orders[x]
  BY <1>1, AppendProperties
<1>3. \A x \in 1..Len(orders') : x \in 1..Len(orders) \/ x = Len(orders) + 1
  BY <1>1, <1>2
<1>4. \A x \in 1..Len(orders) : orders[x].kind # "combo" => orders[x].leg \in Leg
  BY Domains DEF OrdersOK
<1>. QED
  BY <1>1, <1>2, <1>3, <1>4 DEF OrdersGo

LEMMA OrderMoves ==
  ASSUME SpreadTypeOK, OrdersOK, NEW x \in DOMAIN orders,
         NEW s \in {"working", "filled", "dead"}, orders[x].st = "dead" => s = "dead",
         orders' = [orders EXCEPT ![x].st = s]
  PROVE  /\ OrdersGo /\ Len(orders') = Len(orders) /\ orders'[x].st = s
         /\ \A y \in 1..Len(orders) : y # x => orders'[y] = orders[y]
<1>1. orders \in Seq(OrderRecord) /\ Len(orders) \in Nat /\ DOMAIN orders = 1..Len(orders)
  BY Domains DEF SpreadTypeOK
<1>2. PICK r : r = [orders[x] EXCEPT !.st = s]
  OBVIOUS
<1>3. /\ r \in OrderRecord /\ r.st = s /\ r.kind = orders[x].kind /\ r.leg = orders[x].leg
      /\ r.side = orders[x].side
  BY <1>1, <1>2, Domains DEF OrderRecord
<1>4. orders' = [orders EXCEPT ![x] = r]
  BY <1>2
<1>5. /\ orders' \in Seq(OrderRecord) /\ Len(orders') = Len(orders)
      /\ orders'[x] = r /\ \A y \in 1..Len(orders) : y # x => orders'[y] = orders[y]
  BY <1>1, <1>3, <1>4, ExceptSeq
<1>6. \A y \in 1..Len(orders) : orders[y].kind # "combo" => orders[y].leg \in Leg
  BY Domains DEF OrdersOK
<1>. QED
  BY <1>1, <1>3, <1>5, <1>6 DEF OrdersGo

LEMMA OrdersAdded ==
  ASSUME SpreadTypeOK, OrdersOK, NEW cs \in Seq(OrderRecord),
         \A n \in 1..Len(cs) : cs[n].leg \in Leg, orders' = orders \o cs
  PROVE  /\ OrdersGo /\ Len(orders') = Len(orders) + Len(cs)
         /\ \A x \in 1..Len(orders) : orders'[x] = orders[x]
         /\ \A n \in 1..Len(cs) : orders'[Len(orders) + n] = cs[n]
<1>1. orders \in Seq(OrderRecord) /\ Len(orders) \in Nat /\ Len(cs) \in Nat
  BY Domains, LenProperties DEF SpreadTypeOK
<1>2. /\ orders' \in Seq(OrderRecord) /\ Len(orders') = Len(orders) + Len(cs)
      /\ \A x \in 1..Len(orders) + Len(cs) :
            orders'[x] = IF x <= Len(orders) THEN orders[x] ELSE cs[x - Len(orders)]
  BY <1>1, ConcatProperties
<1>3. \A x \in 1..Len(orders) : orders'[x] = orders[x]
  BY <1>1, <1>2
<1>4. \A n \in 1..Len(cs) : orders'[Len(orders) + n] = cs[n]
  <2>1. SUFFICES ASSUME NEW n \in 1..Len(cs) PROVE orders'[Len(orders) + n] = cs[n]
    OBVIOUS
  <2>2. /\ Len(orders) + n \in 1..Len(orders) + Len(cs) /\ ~(Len(orders) + n <= Len(orders))
        /\ Len(orders) + n - Len(orders) = n
    BY <1>1
  <2>. QED
    BY <1>2, <2>2
<1>5. \A x \in 1..Len(orders') : x \in 1..Len(orders) \/
        \E n \in 1..Len(cs) : x = Len(orders) + n
  <2>1. SUFFICES ASSUME NEW x \in 1..Len(orders'), x \notin 1..Len(orders)
                 PROVE  x - Len(orders) \in 1..Len(cs) /\ x = Len(orders) + (x - Len(orders))
    OBVIOUS
  <2>. QED
    BY <1>1, <1>2, <2>1
<1>6. \A x \in 1..Len(orders) : orders[x].kind # "combo" => orders[x].leg \in Leg
  BY Domains DEF OrdersOK
<1>. QED
  BY <1>1, <1>2, <1>3, <1>4, <1>5, <1>6 DEF OrdersGo

LEMMA RowsStay ==
  ASSUME SpreadTypeOK, UNCHANGED rows
  PROVE  RowsGo /\ NoneVoided /\ VoidsEnded
BY Domains DEF RowsGo, NoneVoided, VoidsEnded, SpreadTypeOK

\* Rows that keep their order, and new ones.
LEMMA RowsRewritten ==
  ASSUME SpreadTypeOK, NEW f \in Seq(RowRecord), Len(f) = Len(rows),
         \A i \in 1..Len(rows) : /\ f[i].leg = rows[i].leg /\ f[i].side = rows[i].side
                                 /\ f[i].oid = rows[i].oid,
         NEW rs \in Seq(RowRecord),
         \A n \in 1..Len(rs) : Fits(orders', rs[n]) /\ rs[n].st # "dead",
         rows' = f \o rs
  PROVE  /\ RowsGo /\ Len(rows') = Len(rows) + Len(rs)
         /\ \A i \in 1..Len(rows) : rows'[i] = f[i]
         /\ \A n \in 1..Len(rs) : rows'[Len(rows) + n] = rs[n]
<1>1. Len(rows) \in Nat /\ Len(rs) \in Nat
  BY Domains, LenProperties
<1>2. /\ rows' \in Seq(RowRecord) /\ Len(rows') = Len(rows) + Len(rs)
      /\ \A x \in 1..Len(rows) + Len(rs) :
            rows'[x] = IF x <= Len(rows) THEN f[x] ELSE rs[x - Len(rows)]
  <2>1. PICK q : q = f \o rs
    OBVIOUS
  <2>2. f \in Seq(RowRecord) /\ rs \in Seq(RowRecord) /\ Len(f) = Len(rows) /\ rows' = q
    BY <2>1
  <2>3. /\ q \in Seq(RowRecord) /\ Len(q) = Len(f) + Len(rs)
        /\ \A x \in 1..Len(f) + Len(rs) : q[x] = IF x <= Len(f) THEN f[x] ELSE rs[x - Len(f)]
    BY ONLY <2>1, <2>2, ConcatProperties
  <2>. QED
    BY ONLY <2>2, <2>3
<1>3. \A i \in 1..Len(rows) : rows'[i] = f[i]
  BY <1>1, <1>2
<1>4. \A n \in 1..Len(rs) : rows'[Len(rows) + n] = rs[n]
  <2>1. SUFFICES ASSUME NEW n \in 1..Len(rs) PROVE rows'[Len(rows) + n] = rs[n]
    OBVIOUS
  <2>2. /\ Len(rows) + n \in 1..Len(rows) + Len(rs) /\ ~(Len(rows) + n <= Len(rows))
        /\ Len(rows) + n - Len(rows) = n
    BY <1>1
  <2>. QED
    BY <1>2, <2>2
<1>5. \A x \in 1..Len(rows') : x \in 1..Len(rows) \/
        \E n \in 1..Len(rs) : x = Len(rows) + n
  <2>1. SUFFICES ASSUME NEW x \in 1..Len(rows'), x \notin 1..Len(rows)
                 PROVE  x - Len(rows) \in 1..Len(rs) /\ x = Len(rows) + (x - Len(rows))
    OBVIOUS
  <2>. QED
    BY <1>1, <1>2, <2>1
<1>6. \A i \in 1..Len(rows') :
        i \in 1..Len(rows) \/ (Fits(orders', rows'[i]) /\ rows'[i].st # "dead")
  BY Zenon, <1>4, <1>5
<1>7. Len(rows) <= Len(rows')
  BY <1>1, <1>2
<1>. QED
  BY <1>2, <1>3, <1>4, <1>6, <1>7 DEF RowsGo

LEMMA RowsAdded ==
  ASSUME SpreadTypeOK, NEW rs \in Seq(RowRecord),
         \A n \in 1..Len(rs) : Fits(orders', rs[n]) /\ rs[n].st # "dead",
         rows' = rows \o rs
  PROVE  /\ RowsGo /\ NoneVoided /\ VoidsEnded /\ Len(rows') = Len(rows) + Len(rs)
         /\ \A i \in 1..Len(rows) : rows'[i] = rows[i]
         /\ \A n \in 1..Len(rs) : rows'[Len(rows) + n] = rs[n]
<1>1. rows \in Seq(RowRecord)
  BY DEF SpreadTypeOK
<1>2. /\ RowsGo /\ Len(rows') = Len(rows) + Len(rs)
      /\ \A i \in 1..Len(rows) : rows'[i] = rows[i]
      /\ \A n \in 1..Len(rs) : rows'[Len(rows) + n] = rs[n]
  BY <1>1, RowsRewritten
<1>. QED
  BY <1>2 DEF NoneVoided, VoidsEnded

LEMMA RowAdded ==
  ASSUME SpreadTypeOK, NEW r \in RowRecord, Fits(orders', r), r.st # "dead",
         rows' = Append(rows, r)
  PROVE  /\ RowsGo /\ NoneVoided /\ VoidsEnded /\ Len(rows') = Len(rows) + 1
         /\ \A i \in 1..Len(rows) : rows'[i] = rows[i]
         /\ rows'[Len(rows) + 1] = r
<1>1. rows \in Seq(RowRecord) /\ Len(rows) \in Nat
  BY Domains DEF SpreadTypeOK
<1>2. /\ rows' \in Seq(RowRecord) /\ Len(rows') = Len(rows) + 1
      /\ rows'[Len(rows) + 1] = r
      /\ \A x \in 1..Len(rows) : rows'[x] = rows[x]
  BY <1>1, AppendProperties
<1>3. \A x \in 1..Len(rows') : x \in 1..Len(rows) \/ x = Len(rows) + 1
  BY <1>1, <1>2
<1>. QED
  BY <1>1, <1>2, <1>3 DEF RowsGo, NoneVoided, VoidsEnded

LEMMA RowsRestated ==
  ASSUME SpreadTypeOK, NEW f \in [DOMAIN rows -> RowRecord],
         \A i \in 1..Len(rows) : /\ f[i].leg = rows[i].leg /\ f[i].side = rows[i].side
                                 /\ f[i].oid = rows[i].oid
  PROVE  /\ f \in Seq(RowRecord) /\ Len(f) = Len(rows)
         /\ rows' = f => RowsGo /\ Len(rows') = Len(rows)
<1>1. Len(rows) \in Nat /\ DOMAIN rows = 1..Len(rows)
  BY Domains
<1>2. f \in Seq(RowRecord)
  BY <1>1, SeqDef
<1>3. Len(f) = Len(rows)
  BY <1>1, <1>2, LenProperties
<1>. QED
  BY <1>1, <1>2, <1>3 DEF RowsGo

-----------------------------------------------------------------------------
(* What keeps the parts of the invariant.                                  *)

LEMMA OrdersAndRows ==
  ASSUME SpreadTypeOK, OrdersOK, RowsFit, UNCHANGED setup, OrdersGo, RowsGo
  PROVE  /\ OrdersOK' /\ RowsFit'
         /\ DOMAIN orders' = 1..Len(orders') /\ DOMAIN rows' = 1..Len(rows')
         /\ 1..Len(orders) \subseteq 1..Len(orders') /\ 1..Len(rows) \subseteq 1..Len(rows')
         /\ \A i \in 1..Len(rows') : rows'[i].oid \in 1..Len(orders')
<1>1. /\ DOMAIN orders' = 1..Len(orders') /\ Len(orders') \in Nat
      /\ DOMAIN rows' = 1..Len(rows') /\ Len(rows') \in Nat
  BY LenProperties DEF OrdersGo, RowsGo
<1>2. 1..Len(orders) \subseteq 1..Len(orders') /\ 1..Len(rows) \subseteq 1..Len(rows')
  BY <1>1, Domains DEF OrdersGo, RowsGo
<1>3. OrdersOK'
  BY <1>1, SameRecords DEF OrdersGo, OrdersOK
<1>4. ASSUME NEW i \in 1..Len(rows')
      PROVE  Fits(orders', rows'[i])
  <2>1. CASE i \in 1..Len(rows)
    <3>1. Fits(orders, rows[i]) /\ rows[i].oid \in 1..Len(orders)
      BY <2>1, Domains DEF RowsFit
    <3>2. PICK x \in 1..Len(orders) : x = rows[i].oid
      BY <3>1
    <3>3. x \in DOMAIN orders' /\ orders'[x].kind = orders[x].kind
          /\ orders'[x].leg = orders[x].leg /\ orders'[x].side = orders[x].side
      BY <1>1, <1>2 DEF OrdersGo
    <3>4. /\ rows'[i].oid = x /\ rows'[i].leg = rows[i].leg /\ rows'[i].side = rows[i].side
      BY <2>1, <3>2 DEF RowsGo
    <3>. QED
      BY <3>1, <3>2, <3>3, <3>4 DEF Fits
  <2>2. CASE i \notin 1..Len(rows)
    BY <2>2 DEF RowsGo
  <2>. QED
    BY <2>1, <2>2
<1>5. RowsFit'
  BY <1>1, <1>4, SameRecords DEF RowsFit, Fits
<1>. QED
  BY <1>1, <1>2, <1>3, <1>4, <1>5 DEF Fits

LEMMA TypesAgain ==
  ASSUME SpreadTypeOK, OrdersOK, RowsFit, UNCHANGED setup, OrdersGo, RowsGo,
         ex' \in Progress, polling' \in Seq({Sweep} \cup DOMAIN rows), halted' \in BOOLEAN,
         used' \in 0..MaxFaults, attempts' \in 0..MaxAttempts
  PROVE  SpreadTypeOK'
<1>1. /\ DOMAIN orders' = 1..Len(orders') /\ DOMAIN rows' = 1..Len(rows')
      /\ 1..Len(rows) \subseteq 1..Len(rows')
      /\ \A i \in 1..Len(rows') : rows'[i].oid \in 1..Len(orders')
  BY OrdersAndRows
<1>2. {Sweep} \cup DOMAIN rows \subseteq {Sweep} \cup DOMAIN rows'
  BY <1>1, Domains
<1>3. polling' \in Seq({Sweep} \cup DOMAIN rows')
  BY <1>2, SeqMonotonic
<1>4. orders' \in Seq(OrderRecord)' /\ rows' \in Seq(RowRecord)' /\ setup' \in Setups
  BY SameRecords DEF OrdersGo, RowsGo, SpreadTypeOK
<1>5. used' \in 0..MaxFaults' /\ attempts' \in 0..MaxAttempts' /\ ex' \in Progress'
  BY SameRecords DEF Progress
<1>. QED
  BY <1>1, <1>3, <1>4, <1>5 DEF SpreadTypeOK, Sweep

\* The executor holds what it held.
LEMMA HandAgain ==
  ASSUME SpreadTypeOK, OrdersOK, RowsFit, HandOK, UNCHANGED setup, OrdersGo, RowsGo,
         ex'.sent = ex.sent, ex'.combo = ex.combo, ex'.logged = ex.logged
  PROVE  HandOK' /\ Mine' = Mine
<1>1. /\ DOMAIN orders' = 1..Len(orders') /\ DOMAIN rows' = 1..Len(rows')
      /\ 1..Len(orders) \subseteq 1..Len(orders') /\ 1..Len(rows) \subseteq 1..Len(rows')
  BY OrdersAndRows
<1>2. Mine' = Mine
  BY DEF Mine
<1>3. ex'.combo # 0 => ex'.combo \in DOMAIN orders' /\ orders'[ex'.combo].kind = "combo"
  BY <1>1, Domains DEF HandOK, OrdersGo
<1>4. ASSUME NEW j \in DOMAIN ex.sent
      PROVE  /\ j \in Leg /\ ex.sent[j] \in DOMAIN orders'
             /\ orders'[ex.sent[j]].kind = "open"
             /\ orders'[ex.sent[j]].leg = Sequence[j]
             /\ orders'[ex.sent[j]].side = Legs[Sequence[j]]
  <2>1. PICK x \in 1..Len(orders) : x = ex.sent[j]
    BY Domains DEF HandOK
  <2>. QED
    BY <1>1, <2>1 DEF HandOK, OrdersGo
<1>5. ASSUME NEW i \in ex.logged
      PROVE  i \in DOMAIN rows' /\ rows'[i].oid \in Range(Mine)
  <2>1. i \in 1..Len(rows) /\ rows[i].oid \in Range(Mine)
    BY Domains DEF HandOK
  <2>. QED
    BY <1>1, <2>1 DEF RowsGo
<1>6. Range(Mine)' = Range(Mine)
  BY <1>2 DEF Range
<1>. QED
  BY <1>2, <1>3, <1>4, <1>5, <1>6, SameRecords DEF HandOK

LEMMA JournaledAgain ==
  ASSUME SpreadTypeOK, OrdersOK, RowsFit, UNCHANGED setup, OrdersGo, RowsGo, NEW oid,
         Journaled(oid),
         \/ NoneVoided
         \/ VoidsEnded /\ oid \in 1..Len(orders) /\ orders[oid].st # "dead"
  PROVE  Journaled(oid)'
<1>1. PICK i \in 1..Len(rows) : rows[i].oid = oid /\ rows[i].st # "dead"
  BY Domains DEF Journaled
<1>2. i \in DOMAIN rows' /\ rows'[i].oid = oid
  BY <1>1, OrdersAndRows DEF RowsGo
<1>3. rows'[i].st # "dead"
  BY <1>1 DEF NoneVoided, VoidsEnded
<1>. QED
  BY <1>2, <1>3 DEF Journaled

LEMMA UsedTyped ==
  ASSUME SpreadTypeOK, NEW f, Fine \/ Fails(f)
  PROVE  used' \in 0..MaxFaults
BY SetupTyped DEF SpreadTypeOK, Fine, Fails

LEMMA MineKnown ==
  ASSUME SpreadTypeOK, PlaceOK, HandOK
  PROVE  /\ Len(Mine) \in Nat /\ DOMAIN Mine = 1..Len(Mine)
         /\ \A j \in 1..Len(Mine) : Mine[j] \in 1..Len(orders)
         /\ ex.at \in {"cancel", "mark"} => 1..(ex.k - 1) \subseteq 1..Len(Mine)
<1>1. CASE ex.combo # 0
  <2>1. Mine = <<ex.combo>> /\ ex.combo \in 1..Len(orders)
    BY <1>1, Domains DEF Mine, HandOK
  <2>2. Len(Mine) = 1 /\ DOMAIN Mine = 1..1 /\ Mine[1] \in 1..Len(orders)
    BY <2>1
  <2>. QED
    BY <2>2 DEF PlaceOK
<1>2. CASE ex.combo = 0
  <2>1. Mine = ex.sent
    BY <1>2 DEF Mine
  <2>2. \A j \in 1..Len(ex.sent) : ex.sent[j] \in 1..Len(orders)
    BY Domains DEF HandOK
  <2>3. Len(Mine) \in Nat /\ DOMAIN Mine = 1..Len(Mine)
    BY <2>1, Domains
  <2>4. \A j \in 1..Len(Mine) : Mine[j] \in 1..Len(orders)
    BY <2>1, <2>2
  <2>5. ex.at \in {"cancel", "mark"} => 1..(ex.k - 1) \subseteq 1..Len(Mine)
    BY <2>3 DEF PlaceOK
  <2>. QED
    BY <2>3, <2>4, <2>5
<1>. QED
  BY <1>1, <1>2

LEMMA VoidAgain ==
  ASSUME SpreadTypeOK, PlaceOK, HandOK, OrdersOK, RowsFit, VoidOK, UNCHANGED setup,
         OrdersGo, RowsGo,
         "cancel" \notin Faults => VoidsEnded, ex'.bad => ex.bad,
         \/ ex'.at \notin {"cancel", "mark"}
         \/ ex'.at = "cancel" /\ ex'.k = 1
         \/ ex' = ex
  PROVE  VoidOK'
<1>. SUFFICES ASSUME "cancel" \notin Faults
              PROVE  /\ \A i \in DOMAIN rows' :
                          rows'[i].st = "dead" => orders'[rows'[i].oid].st = "dead"
                     /\ ~ex'.bad
                     /\ ex'.at \in {"cancel", "mark"} =>
                          \A j \in 1..(ex'.k - 1) :
                            orders'[Mine'[j]].st = "dead" \/ Mine'[j] \in ex'.filled
  BY SameRecords DEF VoidOK
<1>1. /\ DOMAIN orders' = 1..Len(orders') /\ DOMAIN rows' = 1..Len(rows')
      /\ 1..Len(orders) \subseteq 1..Len(orders') /\ 1..Len(rows) \subseteq 1..Len(rows')
  BY OrdersAndRows
<1>2. ASSUME NEW i \in 1..Len(rows'), rows'[i].st = "dead"
      PROVE  orders'[rows'[i].oid].st = "dead"
  <2>1. i \in 1..Len(rows) /\ rows'[i].oid = rows[i].oid
    BY <1>2 DEF RowsGo
  <2>2. PICK o \in 1..Len(orders) : o = rows[i].oid
    BY <2>1, Domains
  <2>3. rows[i].st = "dead" => orders[rows[i].oid].st = "dead"
    BY <2>1, Domains DEF VoidOK
  <2>4. orders[o].st = "dead"
    BY <1>2, <2>1, <2>2, <2>3 DEF VoidsEnded
  <2>. QED
    BY <2>1, <2>2, <2>4 DEF OrdersGo
<1>3. ~ex'.bad
  BY DEF VoidOK
<1>4. CASE ex'.at \notin {"cancel", "mark"}
  BY <1>1, <1>2, <1>3, <1>4
<1>5. CASE ex'.at = "cancel" /\ ex'.k = 1
  BY <1>1, <1>2, <1>3, <1>5
<1>6. CASE ex' = ex
  <2>1. Mine' = Mine
    BY <1>6 DEF Mine
  <2>2. ASSUME ex.at \in {"cancel", "mark"}, NEW j \in 1..(ex.k - 1)
        PROVE  orders'[Mine[j]].st = "dead" \/ Mine[j] \in ex.filled
    <3>1. orders[Mine[j]].st = "dead" \/ Mine[j] \in ex.filled
      BY <2>2 DEF VoidOK
    <3>2. PICK o \in 1..Len(orders) : o = Mine[j]
      BY <2>2, MineKnown
    <3>. QED
      BY <3>1, <3>2 DEF OrdersGo
  <2>. QED
    BY <1>1, <1>2, <1>3, <1>6, <2>1, <2>2
<1>. QED
  BY <1>4, <1>5, <1>6

\* The step keeps the whole invariant once it keeps its parts.
LEMMA InvAgain ==
  ASSUME SpreadInv, UNCHANGED setup, OrdersGo, RowsGo,
         ex' \in Progress, polling' \in Seq({Sweep} \cup DOMAIN rows), halted' \in BOOLEAN,
         used' \in 0..MaxFaults, attempts' \in 0..MaxAttempts,
         PlaceOK', HandOK', VoidOK', RecordOK'
  PROVE  SpreadInv'
BY TypesAgain, OrdersAndRows DEF SpreadInv

\* A step that leaves the executor where it is.
LEMMA ElsewhereAgain ==
  ASSUME SpreadInv, UNCHANGED <<setup, ex>>, OrdersGo, RowsGo,
         \/ ex.at = "idle"
         \/ UNCHANGED <<rows, polling>>,
         "cancel" \notin Faults => VoidsEnded,
         polling' \in Seq({Sweep} \cup DOMAIN rows), halted' \in BOOLEAN,
         used' \in 0..MaxFaults, attempts' \in 0..MaxAttempts
  PROVE  SpreadInv' /\ HandOK' /\ InHand' = InHand
<1>1. SpreadTypeOK /\ PlaceOK /\ HandOK /\ OrdersOK /\ RowsFit /\ VoidOK /\ RecordOK
  BY DEF SpreadInv
<1>2. HandOK' /\ Mine' = Mine
  BY <1>1, HandAgain
<1>3. PlaceOK'
  BY <1>1, <1>2, SameRecords DEF PlaceOK, Idle
<1>4. VoidOK'
  BY <1>1, VoidAgain
<1>5. RecordOK'
  <2>1. CASE ex.at = "idle"
    BY <2>1 DEF RecordOK
  <2>2. CASE UNCHANGED rows
    <3>1. \A oid : Journaled(oid) => Journaled(oid)'
      BY <2>2 DEF Journaled
    <3>2. \A leg : LegOid(leg)' = LegOid(leg)
      BY SameRecords DEF LegOid, Position
    <3>. QED
      BY <1>1, <3>1, <3>2, SameRecords DEF RecordOK
  <2>. QED
    BY <2>1, <2>2
<1>6. ex' \in Progress
  BY <1>1 DEF SpreadTypeOK
<1>. QED
  BY <1>2, <1>3, <1>4, <1>5, <1>6, InvAgain DEF InHand, Range

-----------------------------------------------------------------------------
(* What a step must keep of custody.                                       *)

Passed ==
  /\ \A i \in 1..Len(rows) : rows[i].st = "dead" => rows'[i].st = "dead"
  /\ \A i \in 1..Len(rows') :
       i \in 1..Len(rows) \/ rows'[i].oid \in InHand \/ rows'[i].oid \notin 1..Len(orders)
  /\ \A o \in InHand' : o \in InHand \/ o \notin 1..Len(orders)
  /\ \/ halted' = TRUE
     \/ /\ halted' = halted /\ VoidsEnded
        /\ \A o \in InHand : o \in InHand' \/ Journaled(o)' \/ orders[o].st = "dead"
        /\ \A o \in 1..Len(orders') :
             o \in 1..Len(orders) \/ o \in InHand' \/ Journaled(o)'

LEMMA HandKnown ==
  ASSUME SpreadTypeOK, HandOK
  PROVE  InHand \subseteq 1..Len(orders)
BY Domains DEF HandOK, InHand, Range

LEMMA PassedIsCustody ==
  ASSUME SpreadInv, UNCHANGED setup, OrdersGo, RowsGo, HandOK', SpreadInv', Passed
  PROVE  Custody!Next
<1>1. SpreadTypeOK /\ HandOK /\ OrdersOK /\ RowsFit /\ SpreadTypeOK'
  BY DEF SpreadInv
<1>2. /\ DOMAIN orders = 1..Len(orders) /\ DOMAIN orders' = 1..Len(orders')
      /\ DOMAIN rows = 1..Len(rows) /\ DOMAIN rows' = 1..Len(rows')
      /\ 1..Len(orders) \subseteq 1..Len(orders') /\ 1..Len(rows) \subseteq 1..Len(rows')
      /\ \A i \in 1..Len(rows) : rows[i].oid \in 1..Len(orders)
      /\ \A i \in 1..Len(rows') : rows'[i].oid \in 1..Len(orders')
  BY <1>1, OrdersAndRows, Domains
<1>3. InHand \subseteq 1..Len(orders)
  BY <1>1, HandKnown
<1>4. Custody!BrokerGoesOn
  BY <1>2 DEF Custody!BrokerGoesOn, OrdersGo
<1>5. ASSUME NEW oid \in 1..Len(orders'), Journaled(oid)'
      PROVE  Journaled(oid) \/ oid \in InHand \/ oid \notin 1..Len(orders)
  <2>1. PICK i \in 1..Len(rows') : rows'[i].oid = oid /\ rows'[i].st # "dead"
    BY <1>2, <1>5 DEF Journaled
  <2>2. CASE i \in 1..Len(rows)
    BY <1>2, <2>1, <2>2 DEF Passed, RowsGo, Journaled
  <2>3. CASE i \notin 1..Len(rows)
    BY <2>1, <2>3 DEF Passed
  <2>. QED
    BY <2>2, <2>3
<1>6. Custody!NothingInvented
  <2>1. \A oid \in InHand' :
          oid \in InHand \/ (oid \in DOMAIN orders' /\ oid \notin DOMAIN orders)
    <3>1. InHand' \subseteq DOMAIN orders'
      BY DEF HandOK, InHand, Range
    <3>. QED
      BY <1>2, <3>1 DEF Passed
  <2>. QED
    BY <1>2, <1>5, <2>1 DEF Custody!NothingInvented, Custody!Answered, Custody!New
<1>7. CASE halted' = TRUE
  BY <1>4, <1>6, <1>7 DEF Custody!Next, Custody!Raised
<1>8. CASE halted' # TRUE
  <2>1. ASSUME NEW oid \in 1..Len(orders'), ~(oid \in InHand'), ~Journaled(oid)',
               oid \in InHand \/ Journaled(oid) \/ oid \notin 1..Len(orders)
        PROVE  oid \in 1..Len(orders) /\ orders[oid].st = "dead"
    <3>1. oid \in 1..Len(orders)
      BY <1>8, <2>1 DEF Passed
    <3>2. CASE oid \in InHand
      BY <1>8, <2>1, <3>1, <3>2 DEF Passed
    <3>3. CASE Journaled(oid)
      <4>1. VoidsEnded
        BY <1>8 DEF Passed
      <4>. QED
        BY <1>1, <2>1, <3>1, <3>3, <4>1, JournaledAgain
    <3>. QED
      BY <2>1, <3>1, <3>2, <3>3
  <2>2. \A oid : oid \in InHand => oid \in 1..Len(orders')
    BY <1>2, <1>3
  <2>3. Custody!NothingDropped
    BY <1>2, <2>1, <2>2 DEF Custody!NothingDropped, Custody!Answered, Custody!New
  <2>. QED
    BY <1>4, <1>6, <1>8, <2>3 DEF Custody!Next, Passed
<1>. QED
  BY Zenon, <1>7, <1>8

-----------------------------------------------------------------------------
(* The broker, and the tasks that settle the rows.                         *)

\* Neither the executor nor the number of orders or rows changes.
LEMMA InPlace ==
  ASSUME SpreadInv, UNCHANGED <<setup, ex, halted>>, OrdersGo, RowsGo,
         Len(orders') = Len(orders), Len(rows') = Len(rows),
         "cancel" \notin Faults => VoidsEnded,
         \/ ex.at = "idle"
         \/ UNCHANGED <<rows, polling>>,
         polling' \in Seq({Sweep} \cup DOMAIN rows), used' \in 0..MaxFaults,
         attempts' \in 0..MaxAttempts,
         Sound => \A i \in 1..Len(rows) : rows[i].st = "dead" => rows'[i].st = "dead"
  PROVE  SpreadInv' /\ (Sound => Custody!Next)
<1>1. SpreadTypeOK /\ PlaceOK /\ HandOK
  BY DEF SpreadInv
<1>2. SpreadInv' /\ HandOK' /\ InHand' = InHand
  BY <1>1, ElsewhereAgain DEF SpreadTypeOK
<1>3. Sound => "cancel" \notin Faults
  BY DEF Sound
<1>4. Sound => Passed
  BY <1>2, <1>3 DEF Passed
<1>. QED
  BY <1>2, <1>4, PassedIsCustody

LEMMA AsTyped ==
  ASSUME SpreadInv
  PROVE  /\ SpreadTypeOK /\ OrdersOK
         /\ DOMAIN orders = 1..Len(orders) /\ DOMAIN rows = 1..Len(rows)
         /\ polling \in Seq({Sweep} \cup DOMAIN rows) /\ attempts \in 0..MaxAttempts
         /\ used \in 0..MaxFaults /\ halted \in BOOLEAN
         /\ (polling # <<>> => ex.at = "idle")
BY Domains DEF SpreadInv, SpreadTypeOK, PlaceOK

LEMMA BrokerFillKeeps ==
  ASSUME SpreadInv, UNCHANGED setup, NEW oid \in DOMAIN orders, BrokerFill(oid)
  PROVE  SpreadInv' /\ (Sound => Custody!Next)
<1>1. SpreadTypeOK /\ OrdersOK
  BY AsTyped
<1>2. OrdersGo /\ Len(orders') = Len(orders)
  BY <1>1, OrderMoves DEF BrokerFill
<1>3. UNCHANGED <<rows, ex, polling, halted, attempts, used>>
  BY DEF BrokerFill
<1>4. RowsGo /\ NoneVoided /\ VoidsEnded
  BY <1>1, <1>3, RowsStay
<1>. QED
  BY <1>2, <1>3, <1>4, AsTyped, InPlace

LEMMA BrokerEndKeeps ==
  ASSUME SpreadInv, UNCHANGED setup, NEW oid \in DOMAIN orders, BrokerEnd(oid)
  PROVE  SpreadInv' /\ (Sound => Custody!Next)
<1>1. SpreadTypeOK /\ OrdersOK
  BY AsTyped
<1>2. OrdersGo /\ Len(orders') = Len(orders)
  BY <1>1, OrderMoves DEF BrokerEnd
<1>3. UNCHANGED <<rows, ex, polling, halted, attempts>>
  BY DEF BrokerEnd
<1>4. used' \in 0..MaxFaults
  BY <1>1, UsedTyped DEF BrokerEnd
<1>5. RowsGo /\ NoneVoided /\ VoidsEnded
  BY <1>1, <1>3, RowsStay
<1>. QED
  BY <1>2, <1>3, <1>4, <1>5, AsTyped, InPlace

LEMMA PassRowKeeps ==
  ASSUME SpreadInv, UNCHANGED setup, PassRow
  PROVE  SpreadInv' /\ (Sound => Custody!Next)
<1>1. SpreadTypeOK /\ OrdersOK
  BY AsTyped
<1>2. /\ UNCHANGED <<orders, rows, ex, halted, attempts>>
      /\ polling # <<>> /\ polling' = Tail(polling)
  BY DEF PassRow, Looking
<1>3. used' \in 0..MaxFaults
  BY <1>1, UsedTyped DEF PassRow
<1>4. OrdersGo /\ RowsGo /\ NoneVoided /\ VoidsEnded
  BY <1>1, <1>2, RowsStay, OrdersStay
<1>5. polling' \in Seq({Sweep} \cup DOMAIN rows)
  BY <1>2, AsTyped, HeadTailProperties
<1>. QED
  BY <1>2, <1>3, <1>4, <1>5, AsTyped, InPlace

LEMMA StartUpdateKeeps ==
  ASSUME SpreadInv, UNCHANGED setup, StartUpdate
  PROVE  SpreadInv' /\ (Sound => Custody!Next)
<1>1. SpreadTypeOK /\ OrdersOK
  BY AsTyped
<1>2. /\ UNCHANGED <<orders, rows, ex, halted, attempts, used>> /\ ex.at = "idle"
      /\ polling' = Append(Polled, Sweep)
  BY DEF StartUpdate, Free
<1>3. OrdersGo /\ RowsGo /\ NoneVoided /\ VoidsEnded
  BY <1>1, <1>2, RowsStay, OrdersStay
<1>4. polling' \in Seq({Sweep} \cup DOMAIN rows)
  <2>1. PICK S \in SUBSET DOMAIN rows : Polled = Sorted(S)
    BY DEF Polled
  <2>2. S \in SUBSET Int /\ IsFiniteSet(S)
    <3>1. DOMAIN rows \subseteq Int /\ IsFiniteSet(DOMAIN rows)
      BY <1>1, Domains, FS_Interval
    <3>. QED
      BY <3>1, FS_Subset
  <2>3. Polled \in Seq(S)
    BY <2>1, <2>2, SortedLists
  <2>4. Polled \in Seq({Sweep} \cup DOMAIN rows)
    BY <2>3, SeqMonotonic
  <2>. QED
    BY <1>2, <2>4, AppendProperties
<1>. QED
  BY <1>2, <1>3, <1>4, AsTyped, InPlace

LEMMA LookAt ==
  ASSUME SpreadInv, Looking
  PROVE  /\ Head(polling) \in 1..Len(rows) /\ Tail(polling) \in Seq({Sweep} \cup DOMAIN rows)
         /\ ex.at = "idle"
BY AsTyped, HeadTailProperties DEF Looking

LEMMA RowWith ==
  ASSUME NEW r \in RowRecord, NEW s \in {"open", "pending_fill", "closed", "dead"},
         NEW q, q = [r EXCEPT !.st = s]
  PROVE  q \in RowRecord /\ q.st = s /\ q.leg = r.leg /\ q.side = r.side /\ q.oid = r.oid
BY DEF RowRecord

LEMMA FillRowKeeps ==
  ASSUME SpreadInv, UNCHANGED setup, FillRow
  PROVE  SpreadInv' /\ (Sound => Custody!Next)
<1>. DEFINE i == Head(polling)
            r == rows[i]
            exit == /\ r.st = "pending_fill"
                    /\ r.side = "sell" \/ RowNet(r.leg, i) < 0
            p == [rows EXCEPT ![i].priced = TRUE,
                    ![i].st = IF exit THEN "closed"
                              ELSE IF @ = "pending_fill" THEN "open" ELSE @]
            gone == IF exit THEN UsedUp(p, r.leg, r.side) ELSE {}
<1>1. SpreadTypeOK /\ OrdersOK /\ DOMAIN rows = 1..Len(rows)
  BY AsTyped
<1>2. rows' = [j \in DOMAIN rows |->
          IF j \in gone /\ p[j].st = "open" THEN [p[j] EXCEPT !.st = "closed"] ELSE p[j]]
  BY DEF FillRow
<1>3. i \in 1..Len(rows)
  BY LookAt DEF FillRow
<1>4. PICK x \in 1..Len(rows) : x = i
  BY <1>3
<1>5. PICK q : q = rows[x] /\ q \in RowRecord
  BY <1>1, Domains
<1>6. PICK s : s = IF exit THEN "closed" ELSE IF r.st = "pending_fill" THEN "open" ELSE r.st
  OBVIOUS
<1>7. /\ s \in {"open", "pending_fill", "closed", "dead"}
      /\ s = "dead" <=> q.st = "dead"
  BY <1>4, <1>5, <1>6 DEF RowRecord
<1>8. PICK t : t = [q EXCEPT !.priced = TRUE, !.st = s]
  OBVIOUS
<1>9. t \in RowRecord /\ t.st = s /\ t.leg = q.leg /\ t.side = q.side /\ t.oid = q.oid
  BY ONLY <1>5, <1>7, <1>8 DEF RowRecord
<1>10. p = [rows EXCEPT ![x] = t]
  BY <1>4, <1>5, <1>6, <1>8
<1>11. DOMAIN p = 1..Len(rows) /\ p[x] = t /\ \A j \in 1..Len(rows) : j # x => p[j] = rows[j]
  BY <1>1, <1>10
<1>. HIDE DEF p, gone
<1>13. ASSUME NEW j \in 1..Len(rows)
       PROVE  /\ rows'[j] \in RowRecord /\ rows'[j].leg = rows[j].leg
              /\ rows'[j].side = rows[j].side /\ rows'[j].oid = rows[j].oid
              /\ rows'[j].st = "dead" <=> rows[j].st = "dead"
  <2>1. /\ p[j] \in RowRecord /\ p[j].leg = rows[j].leg
        /\ p[j].side = rows[j].side /\ p[j].oid = rows[j].oid
        /\ p[j].st = "dead" <=> rows[j].st = "dead"
    <3>1. rows[j] \in RowRecord
      BY <1>1, Domains
    <3>. QED
      BY <1>5, <1>7, <1>9, <1>11, <3>1
  <2>2. CASE j \in gone /\ p[j].st = "open"
    <3>1. rows'[j] = [p[j] EXCEPT !.st = "closed"]
      BY <1>1, <1>2, <2>2
    <3>2. /\ rows'[j] \in RowRecord /\ rows'[j].st = "closed" /\ rows'[j].leg = p[j].leg
          /\ rows'[j].side = p[j].side /\ rows'[j].oid = p[j].oid
      BY <2>1, <3>1, RowWith
    <3>. QED
      BY <2>1, <2>2, <3>2
  <2>3. CASE ~(j \in gone /\ p[j].st = "open")
    <3>1. rows'[j] = p[j]
      BY <1>1, <1>2, <2>3
    <3>. QED
      BY <2>1, <3>1
  <2>. QED
    BY <2>2, <2>3
<1>14. rows' \in [DOMAIN rows -> RowRecord]
  BY <1>1, <1>2, <1>13
<1>15. RowsGo /\ Len(rows') = Len(rows) /\ VoidsEnded
  BY <1>1, <1>13, <1>14, RowsRestated DEF VoidsEnded
<1>16. UNCHANGED <<orders, ex, halted, attempts, used>> /\ polling' = Tail(polling) /\ Looking
  BY DEF FillRow
<1>17. OrdersGo
  BY <1>1, <1>16, OrdersStay
<1>. QED
  BY <1>13, <1>15, <1>16, <1>17, AsTyped, LookAt, InPlace

LEMMA ResurrectKeeps ==
  ASSUME SpreadInv, UNCHANGED setup, Resurrect
  PROVE  SpreadInv' /\ (Sound => Custody!Next)
<1>1. SpreadTypeOK /\ OrdersOK /\ DOMAIN rows = 1..Len(rows) /\ ex.at = "idle"
  BY AsTyped DEF Resurrect
<1>2. PICK back \in SUBSET WronglyVoided :
        /\ rows' = Restored(back)
        /\ IF back = WronglyVoided THEN Fine ELSE Fails("read")
  BY DEF Resurrect
<1>3. ASSUME NEW i \in 1..Len(rows)
      PROVE  /\ rows'[i] \in RowRecord /\ rows'[i].leg = rows[i].leg
             /\ rows'[i].side = rows[i].side /\ rows'[i].oid = rows[i].oid
             /\ i \notin back => rows'[i] = rows[i]
             /\ i \in back => rows'[i].st # "dead"
  <2>1. PICK q : q = rows[i] /\ q \in RowRecord
    BY <1>1, Domains
  <2>2. CASE i \in back
    <3>1. \E s \in {"pending_fill", "open"} : rows'[i] = [q EXCEPT !.priced = TRUE, !.st = s]
      BY Zenon, <1>1, <1>2, <2>1, <2>2 DEF Restored
    <3>2. PICK s \in {"pending_fill", "open"} : rows'[i] = [q EXCEPT !.priced = TRUE, !.st = s]
      BY <3>1
    <3>3. PICK t : t = [q EXCEPT !.priced = TRUE, !.st = s]
      OBVIOUS
    <3>4. t \in RowRecord /\ t.st = s /\ t.leg = q.leg /\ t.side = q.side /\ t.oid = q.oid
      BY ONLY <2>1, <3>3 DEF RowRecord
    <3>. QED
      BY <2>1, <2>2, <3>2, <3>3, <3>4
  <2>3. CASE i \notin back
    <3>1. rows'[i] = rows[i]
      BY Zenon, <1>1, <1>2, <2>3 DEF Restored
    <3>. QED
      BY <2>1, <2>3, <3>1
  <2>. QED
    BY <2>2, <2>3
<1>4. rows' \in [DOMAIN rows -> RowRecord]
  <2>1. DOMAIN rows' = DOMAIN rows /\ rows' = [i \in DOMAIN rows |-> rows'[i]]
    BY Zenon, <1>2 DEF Restored
  <2>. QED
    BY <1>1, <1>3, <2>1
<1>5. RowsGo /\ Len(rows') = Len(rows)
  BY <1>1, <1>3, <1>4, RowsRestated
<1>6. VoidsEnded
  BY <1>3 DEF VoidsEnded
<1>7. Sound => back = {}
  <2>1. Sound => "cancel" \notin Faults
    BY DEF Sound
  <2>2. VoidOK
    BY DEF SpreadInv
  <2>. QED
    BY <2>1, <2>2 DEF VoidOK, WronglyVoided
<1>8. Sound => \A i \in 1..Len(rows) : rows[i].st = "dead" => rows'[i].st = "dead"
  BY <1>3, <1>7
<1>9. /\ UNCHANGED <<orders, ex, halted, attempts>> /\ polling' = <<>>
  BY DEF Resurrect
<1>10. used' \in 0..MaxFaults
  BY <1>1, <1>2, UsedTyped
<1>11. OrdersGo /\ polling' \in Seq({Sweep} \cup DOMAIN rows)
  BY <1>1, <1>9, OrdersStay, EmptySeq
<1>. QED
  BY <1>1, <1>5, <1>6, <1>8, <1>9, <1>10, <1>11, AsTyped, InPlace

LEMMA BackstopKeeps ==
  ASSUME SpreadInv, UNCHANGED setup, NEW x \in DOMAIN rows, Backstop(x)
  PROVE  SpreadInv' /\ (Sound => Custody!Next)
<1>1. SpreadTypeOK /\ OrdersOK /\ DOMAIN rows = 1..Len(rows)
  BY AsTyped
<1>2. /\ UNCHANGED <<orders, ex, polling, halted, attempts, used>>
      /\ ex.at = "idle" /\ rows[x].st = "open"
  BY DEF Backstop, Free
<1>3. ASSUME NEW i \in 1..Len(rows)
      PROVE  \/ rows'[i] = rows[i]
             \/ /\ i = x /\ rows'[i] = [rows[i] EXCEPT !.st = "dead"]
                /\ orders[rows[i].oid].st = "dead"
             \/ rows[i].st # "dead" /\ rows'[i] = [rows[i] EXCEPT !.st = "closed"]
  <2>1. CASE /\ orders[rows[x].oid].st = "dead"
             /\ rows' = [rows EXCEPT ![x].st = "dead"]
    BY <1>1, <2>1
  <2>2. CASE rows' = [j \in DOMAIN rows |->
                IF j \in RoundTrip(rows[x].leg) THEN [rows[j] EXCEPT !.st = "closed"]
                ELSE rows[j]]
    <3>1. i \in RoundTrip(rows[x].leg) => rows[i].st # "dead"
      BY DEF RoundTrip
    <3>. QED
      BY <1>1, <2>2, <3>1
  <2>. QED
    BY <2>1, <2>2 DEF Backstop
<1>4. ASSUME NEW i \in 1..Len(rows)
      PROVE  /\ rows'[i] \in RowRecord /\ rows'[i].leg = rows[i].leg
             /\ rows'[i].side = rows[i].side /\ rows'[i].oid = rows[i].oid
             /\ rows[i].st = "dead" => rows'[i].st = "dead"
             /\ rows'[i].st = "dead" => rows[i].st = "dead" \/ orders[rows[i].oid].st = "dead"
  <2>1. PICK q : q = rows[i] /\ q \in RowRecord
    BY <1>1, Domains
  <2>2. CASE rows'[i] = rows[i]
    BY <2>1, <2>2
  <2>3. CASE /\ i = x /\ rows'[i] = [rows[i] EXCEPT !.st = "dead"]
             /\ orders[rows[i].oid].st = "dead"
    <3>1. /\ rows'[i] \in RowRecord /\ rows'[i].st = "dead" /\ rows'[i].leg = q.leg
          /\ rows'[i].side = q.side /\ rows'[i].oid = q.oid
      BY <2>1, <2>3, RowWith
    <3>. QED
      BY <2>1, <2>3, <3>1
  <2>4. CASE rows[i].st # "dead" /\ rows'[i] = [rows[i] EXCEPT !.st = "closed"]
    <3>1. /\ rows'[i] \in RowRecord /\ rows'[i].st = "closed" /\ rows'[i].leg = q.leg
          /\ rows'[i].side = q.side /\ rows'[i].oid = q.oid
      BY <2>1, <2>4, RowWith
    <3>. QED
      BY <2>1, <2>4, <3>1
  <2>. QED
    BY <1>3, <2>2, <2>3, <2>4
<1>5. rows' \in [DOMAIN rows -> RowRecord]
  <2>1. DOMAIN rows' = DOMAIN rows /\ rows' = [i \in DOMAIN rows |-> rows'[i]]
    BY <1>1 DEF Backstop
  <2>. QED
    BY <1>1, <1>4, <2>1
<1>6. RowsGo /\ Len(rows') = Len(rows)
  BY <1>1, <1>4, <1>5, RowsRestated
<1>7. VoidsEnded
  BY <1>4 DEF VoidsEnded
<1>8. OrdersGo
  BY <1>1, <1>2, OrdersStay
<1>. QED
  BY <1>2, <1>4, <1>6, <1>7, <1>8, AsTyped, InPlace

LEMMA FunctionIsSeq ==
  ASSUME NEW S, NEW n \in Nat, NEW f, f = [j \in 1..n |-> f[j]], \A j \in 1..n : f[j] \in S
  PROVE  f \in Seq(S) /\ Len(f) = n
<1>1. f \in [1..n -> S]
  OBVIOUS
<1>2. f \in Seq(S)
  BY <1>1, SeqDef
<1>. QED
  BY <1>1, <1>2, LenProperties

LEMMA VoidRowKeeps ==
  ASSUME SpreadInv, UNCHANGED setup, VoidRow
  PROVE  SpreadInv' /\ (Sound => Custody!Next)
<1>1. /\ SpreadTypeOK /\ PlaceOK /\ HandOK /\ OrdersOK /\ RowsFit
      /\ DOMAIN rows = 1..Len(rows) /\ DOMAIN orders = 1..Len(orders)
      /\ Len(orders) \in Nat /\ Len(rows) \in Nat
  BY AsTyped, Domains DEF SpreadInv
<1>2. /\ UNCHANGED <<ex, halted, attempts>> /\ polling' = Tail(polling) /\ Looking
      /\ orders[rows[Head(polling)].oid].st = "dead"
  BY DEF VoidRow
<1>3. PICK i \in 1..Len(rows) : i = Head(polling)
  BY <1>2, LookAt
<1>4. PICK sent \in SUBSET Partners(i) :
        /\ IF sent = Partners(i) THEN Fine ELSE Fails("reject")
        /\ orders' = orders \o [n \in DOMAIN Sorted(sent) |->
             Order("close", rows[Sorted(sent)[n]].leg, Opposite(rows[Sorted(sent)[n]].side))]
        /\ rows' = [j \in DOMAIN rows |->
                      IF j \in sent THEN [Voided(i)[j] EXCEPT !.st = "closed"]
                                    ELSE Voided(i)[j]]
                   \o [n \in DOMAIN Sorted(sent) |->
                         Row(rows[Sorted(sent)[n]].leg, Opposite(rows[Sorted(sent)[n]].side),
                             Len(orders) + n, "pending_fill", FALSE, 0 - attempts)]
  BY Zenon, <1>3 DEF VoidRow
<1>5. PICK ps : ps = Sorted(sent)
  OBVIOUS
<1>6. PICK N \in Nat : N = Cardinality(sent)
                       /\ DOMAIN ps = 1..N /\ \A n \in 1..N : ps[n] \in 1..Len(rows)
  <2>1. sent \in SUBSET Int /\ IsFiniteSet(sent) /\ sent \subseteq 1..Len(rows)
    <3>1. sent \subseteq 1..Len(rows)
      BY <1>1 DEF Partners
    <3>2. 1..Len(rows) \subseteq Int /\ IsFiniteSet(1..Len(rows))
      BY <1>1, FS_Interval
    <3>. QED
      BY <3>1, <3>2, FS_Subset
  <2>2. ps \in Seq(sent) /\ Len(ps) = Cardinality(sent) /\ Cardinality(sent) \in Nat
    BY <1>5, <2>1, SortedLists
  <2>3. DOMAIN ps = 1..Cardinality(sent)
    BY <2>2, LenProperties
  <2>4. \A n \in 1..Cardinality(sent) : ps[n] \in sent
    BY <2>2, ElementOfSeq
  <2>. QED
    BY <2>1, <2>2, <2>3, <2>4
<1>7. PICK cs : cs = [n \in 1..N |-> Order("close", rows[ps[n]].leg, Opposite(rows[ps[n]].side))]
  OBVIOUS
<1>8. PICK rs : rs = [n \in 1..N |->
                        Row(rows[ps[n]].leg, Opposite(rows[ps[n]].side),
                            Len(orders) + n, "pending_fill", FALSE, 0 - attempts)]
  OBVIOUS
<1>9. PICK f : f = [j \in DOMAIN rows |->
                      IF j \in sent THEN [Voided(i)[j] EXCEPT !.st = "closed"]
                                    ELSE Voided(i)[j]]
  OBVIOUS
<1>10. orders' = orders \o cs /\ rows' = f \o rs
  BY <1>4, <1>5, <1>6, <1>7, <1>8, <1>9
<1>11. ASSUME NEW n \in 1..N
       PROVE  /\ cs[n] \in OrderRecord /\ cs[n].kind = "close" /\ cs[n].leg \in Leg
              /\ rs[n] \in RowRecord /\ rs[n].oid = Len(orders) + n /\ rs[n].st = "pending_fill"
              /\ rs[n].leg = cs[n].leg /\ rs[n].side = cs[n].side
  <2>1. PICK r : r = rows[ps[n]] /\ r \in RowRecord
    BY <1>1, <1>6, Domains
  <2>2. r.leg \in Leg /\ Opposite(r.side) \in {"buy", "sell"} /\ Len(orders) + n \in Nat
        /\ 0 - attempts \in Int
    BY <1>1, <2>1 DEF RowRecord, Opposite, SpreadTypeOK
  <2>3. cs[n] = Order("close", r.leg, Opposite(r.side))
    BY <1>7, <2>1
  <2>4. cs[n] = [kind |-> "close", leg |-> r.leg, side |-> Opposite(r.side), st |-> "working"]
    BY <2>3 DEF Order
  <2>5. cs[n] \in OrderRecord
    BY <2>2, <2>4 DEF OrderRecord
  <2>6. rs[n] = Row(r.leg, Opposite(r.side), Len(orders) + n, "pending_fill", FALSE, 0 - attempts)
    BY <1>8, <2>1
  <2>7. rs[n] = [leg |-> r.leg, side |-> Opposite(r.side), oid |-> Len(orders) + n,
                 st |-> "pending_fill", priced |-> FALSE, batch |-> 0 - attempts]
    BY <2>6 DEF Row
  <2>8. rs[n] \in RowRecord
    BY <2>2, <2>7 DEF RowRecord
  <2>. QED
    BY <2>2, <2>4, <2>5, <2>7, <2>8
<1>12. cs \in Seq(OrderRecord) /\ Len(cs) = N
  <2>1. \A n \in 1..N : cs[n] \in OrderRecord
    BY <1>11
  <2>2. cs = [n \in 1..N |-> cs[n]]
    BY <1>7
  <2>. QED
    BY <2>1, <2>2, FunctionIsSeq
<1>13. rs \in Seq(RowRecord) /\ Len(rs) = N
  <2>1. \A n \in 1..N : rs[n] \in RowRecord
    BY <1>11
  <2>2. rs = [n \in 1..N |-> rs[n]]
    BY <1>8
  <2>. QED
    BY <2>1, <2>2, FunctionIsSeq
<1>14. /\ OrdersGo /\ Len(orders') = Len(orders) + N
       /\ \A n \in 1..N : orders'[Len(orders) + n] = cs[n]
  <2>1. \A n \in 1..Len(cs) : cs[n].leg \in Leg
    BY <1>11, <1>12
  <2>. QED
    BY <1>1, <1>10, <1>12, <2>1, OrdersAdded
<1>15. ASSUME NEW n \in 1..N
       PROVE  Fits(orders', rs[n])
  <2>1. Len(orders) + n \in DOMAIN orders'
    <3>1. Len(orders) + n \in 1..Len(orders')
      BY <1>1, <1>14
    <3>2. DOMAIN orders' = 1..Len(orders')
      BY <1>14, LenProperties DEF OrdersGo
    <3>. QED
      BY <3>1, <3>2
  <2>. QED
    BY <1>11, <1>14, <2>1 DEF Fits
<1>16. ASSUME NEW j \in 1..Len(rows)
       PROVE  /\ f[j] \in RowRecord /\ f[j].leg = rows[j].leg
              /\ f[j].side = rows[j].side /\ f[j].oid = rows[j].oid
              /\ rows[j].st = "dead" => f[j].st = "dead"
              /\ f[j].st = "dead" => rows[j].st = "dead" \/ orders[rows[j].oid].st = "dead"
  <2>1. PICK q : q = rows[j] /\ q \in RowRecord
    BY <1>1, Domains
  <2>2. PICK v : v = Voided(i)
    OBVIOUS
  <2>3. v[j] = IF j = i THEN [q EXCEPT !.st = "dead"] ELSE q
    BY <1>1, <2>1, <2>2 DEF Voided
  <2>4. /\ v[j] \in RowRecord /\ v[j].leg = q.leg /\ v[j].side = q.side /\ v[j].oid = q.oid
        /\ j = i => v[j].st = "dead"
        /\ j # i => v[j] = q
    <3>1. CASE j = i
      BY <2>1, <2>3, <3>1, RowWith
    <3>2. CASE j # i
      BY <2>1, <2>3, <3>2
    <3>. QED
      BY <3>1, <3>2
  <2>5. CASE j \in sent
    <3>1. q.st = "open"
      BY <2>1, <2>5 DEF Partners
    <3>2. f[j] = [v[j] EXCEPT !.st = "closed"]
      BY <1>1, <1>9, <2>2, <2>5
    <3>3. /\ f[j] \in RowRecord /\ f[j].st = "closed" /\ f[j].leg = v[j].leg
          /\ f[j].side = v[j].side /\ f[j].oid = v[j].oid
      BY <2>4, <3>2, RowWith
    <3>. QED
      BY <2>1, <2>4, <3>1, <3>3
  <2>6. CASE j \notin sent
    <3>1. f[j] = v[j]
      BY <1>1, <1>9, <2>2, <2>6
    <3>. QED
      BY <1>2, <1>3, <2>1, <2>4, <3>1
  <2>. QED
    BY <2>5, <2>6
<1>17. f \in Seq(RowRecord) /\ Len(f) = Len(rows)
  <2>1. f \in [DOMAIN rows -> RowRecord]
    BY <1>1, <1>9, <1>16
  <2>. QED
    BY <1>1, <1>16, <2>1, RowsRestated
<1>18. /\ RowsGo /\ Len(rows') = Len(rows) + N
       /\ \A j \in 1..Len(rows) : rows'[j] = f[j]
       /\ \A n \in 1..N : rows'[Len(rows) + n] = rs[n]
  <2>1. \A n \in 1..Len(rs) : Fits(orders', rs[n]) /\ rs[n].st # "dead"
    BY <1>11, <1>13, <1>15
  <2>2. \A j \in 1..Len(rows) : /\ f[j].leg = rows[j].leg /\ f[j].side = rows[j].side
                                /\ f[j].oid = rows[j].oid
    BY <1>16
  <2>. QED
    BY <1>1, <1>10, <1>13, <1>17, <2>1, <2>2, RowsRewritten
<1>19. VoidsEnded
  BY <1>16, <1>18 DEF VoidsEnded
<1>20. used' \in 0..MaxFaults
  BY <1>1, <1>4, UsedTyped
<1>21. ex.at = "idle" /\ polling' \in Seq({Sweep} \cup DOMAIN rows)
  BY <1>2, LookAt
<1>22. SpreadInv' /\ HandOK' /\ InHand' = InHand
  BY <1>2, <1>14, <1>18, <1>19, <1>20, <1>21, AsTyped, ElsewhereAgain
<1>23. ASSUME NEW x \in 1..Len(orders'), x \notin 1..Len(orders)
       PROVE  Journaled(x)'
  <2>1. PICK n \in 1..N : x = Len(orders) + n
    <3>1. x - Len(orders) \in 1..N /\ x = Len(orders) + (x - Len(orders))
      BY <1>1, <1>14, <1>23
    <3>. QED
      BY <3>1
  <2>2. /\ rows'[Len(rows) + n] = rs[n] /\ rs[n].oid = x /\ rs[n].st # "dead"
    BY <1>11, <1>18, <2>1
  <2>3. Len(rows) + n \in DOMAIN rows'
    <3>1. Len(rows) + n \in 1..Len(rows')
      BY <1>1, <1>18
    <3>2. DOMAIN rows' = 1..Len(rows')
      BY <1>18, LenProperties DEF RowsGo
    <3>. QED
      BY <3>1, <3>2
  <2>. QED
    BY <2>2, <2>3 DEF Journaled
<1>24. ASSUME NEW y \in 1..Len(rows'), y \notin 1..Len(rows)
       PROVE  rows'[y].oid \notin 1..Len(orders)
  <2>1. PICK n \in 1..N : y = Len(rows) + n
    <3>1. y - Len(rows) \in 1..N /\ y = Len(rows) + (y - Len(rows))
      BY <1>1, <1>18, <1>24
    <3>. QED
      BY <3>1
  <2>2. rows'[y].oid = Len(orders) + n
    BY <1>11, <1>18, <2>1
  <2>. QED
    BY <1>1, <2>2
<1>25. \A y \in 1..Len(rows) : rows[y].st = "dead" => rows'[y].st = "dead"
  BY <1>16, <1>18
<1>26. Passed
  BY <1>2, <1>19, <1>22, <1>23, <1>24, <1>25 DEF Passed
<1>. QED
  BY <1>14, <1>18, <1>22, <1>26, PassedIsCustody

-----------------------------------------------------------------------------
(* The executor.                                                           *)

LEMMA AllParts ==
  ASSUME SpreadInv
  PROVE  /\ SpreadTypeOK /\ PlaceOK /\ HandOK /\ OrdersOK /\ RowsFit /\ VoidOK /\ RecordOK
         /\ ex \in Progress /\ Len(Legs) \in Nat /\ Len(Legs) > 1 /\ Leg = 1..Len(Legs)
         /\ DOMAIN orders = 1..Len(orders) /\ DOMAIN rows = 1..Len(rows)
         /\ Len(orders) \in Nat /\ Len(rows) \in Nat
         /\ DOMAIN ex.sent = 1..Len(ex.sent) /\ Len(ex.sent) \in Nat
BY Domains, SetupTyped DEF SpreadInv, SpreadTypeOK

LEMMA IdleTyped == Idle \in Progress /\ Idle.at = "idle" /\ Idle.sent = <<>> /\ Idle.combo = 0
                   /\ Idle.logged = {} /\ Idle.bad = FALSE
<1>1. <<>> \in Seq(Nat)
  BY EmptySeq
<1>. QED
  BY <1>1 DEF Idle, Progress

\* A step of the executor that voids no row and is not about a cancel.
LEMMA AtWork ==
  ASSUME SpreadInv, UNCHANGED <<setup, polling>>, OrdersGo, RowsGo, NoneVoided,
         ex' \in Progress, halted' \in BOOLEAN, used' \in 0..MaxFaults,
         attempts' \in 0..MaxAttempts, ex'.bad => ex.bad,
         \/ ex'.at \notin {"cancel", "mark"}
         \/ ex'.at = "cancel" /\ ex'.k = 1,
         PlaceOK', HandOK', RecordOK'
  PROVE  SpreadInv'
<1>1. VoidsEnded
  BY DEF NoneVoided, VoidsEnded
<1>2. polling' \in Seq({Sweep} \cup DOMAIN rows)
  BY AsTyped
<1>3. VoidOK'
  BY <1>1, AllParts, VoidAgain
<1>. QED
  BY <1>2, <1>3, InvAgain

\* The executor at rest fits whatever orders and rows there are.
LEMMA AtRest ==
  ASSUME SpreadInv, UNCHANGED setup, ex' = Idle
  PROVE  PlaceOK' /\ HandOK' /\ RecordOK' /\ InHand' = {} /\ ex' \in Progress
         /\ ex'.at = "idle" /\ ex'.bad = FALSE
<1>1. PlaceOK' /\ RecordOK' /\ InHand' = {}
  BY IdleTyped DEF PlaceOK, RecordOK, InHand, Idle
<1>2. DOMAIN ex'.sent = {}
  BY IdleTyped
<1>3. HandOK'
  BY <1>2, IdleTyped DEF HandOK
<1>. QED
  BY <1>1, <1>3, IdleTyped DEF Progress

LEMMA ProposeKeeps ==
  ASSUME SpreadInv, UNCHANGED setup, Propose
  PROVE  SpreadInv' /\ (Sound => Custody!Next)
<1>1. /\ UNCHANGED <<orders, rows, polling, halted, used>> /\ ex.at = "idle" /\ polling = <<>>
      /\ ex' = [Idle EXCEPT !.at = "combo"]
      /\ attempts < MaxAttempts /\ attempts' = attempts + 1
  BY DEF Propose, Free
<1>2. ex = Idle
  BY <1>1, AllParts DEF PlaceOK
<1>3. ex' = [at |-> "combo", k |-> 0, combo |-> 0, sent |-> <<>>, seen |-> FALSE,
             logged |-> {}, filled |-> {}, bad |-> FALSE]
  BY <1>1 DEF Idle
<1>4. ex' \in Progress
  BY <1>3, EmptySeq DEF Progress
<1>5. OrdersGo /\ RowsGo /\ NoneVoided /\ VoidsEnded
  BY <1>1, AllParts, OrdersStay, RowsStay
<1>6. PlaceOK'
  BY <1>1, <1>3 DEF PlaceOK
<1>7. ex'.sent = ex.sent /\ ex'.combo = ex.combo /\ ex'.logged = ex.logged
  BY <1>2, <1>3 DEF Idle
<1>8. HandOK'
  BY <1>5, <1>7, AllParts, HandAgain
<1>9. RecordOK'
  BY <1>3 DEF RecordOK
<1>10. attempts' \in 0..MaxAttempts /\ halted' \in BOOLEAN /\ used' \in 0..MaxFaults
  BY <1>1, AsTyped, AllParts, SetupTyped DEF SpreadTypeOK
<1>11. SpreadInv'
  BY <1>1, <1>3, <1>4, <1>5, <1>6, <1>8, <1>9, <1>10, AtWork
<1>12. InHand' = {} /\ InHand = {}
  <2>1. Range(<<>>) = {}
    BY DEF Range
  <2>. QED
    BY <1>1, <1>3, <2>1 DEF InHand
<1>13. Passed
  BY <1>1, <1>5, <1>12 DEF Passed
<1>. QED
  BY <1>5, <1>8, <1>11, <1>13, PassedIsCustody

LEMMA NothingInHand ==
  ASSUME SpreadInv, ex.combo = 0, ex.sent = <<>>
  PROVE  InHand = {} /\ ex.logged = {} /\ Mine = <<>>
<1>1. Mine = <<>> /\ Range(<<>>) = {}
  BY DEF Mine, Range
<1>2. InHand = {}
  BY <1>1 DEF InHand
<1>3. ex.logged = {}
  BY <1>1, AllParts DEF HandOK
<1>. QED
  BY <1>1, <1>2, <1>3

LEMMA SubmitComboKeeps ==
  ASSUME SpreadInv, UNCHANGED setup, SubmitCombo
  PROVE  SpreadInv' /\ (Sound => Custody!Next)
<1>1. /\ UNCHANGED <<rows, polling, halted, attempts>> /\ ex.at = "combo"
      /\ ex.combo = 0 /\ ex.sent = <<>> /\ polling = <<>>
  BY AllParts DEF SubmitCombo, PlaceOK
<1>2. InHand = {} /\ ex.logged = {} /\ Mine = <<>>
  BY <1>1, NothingInHand
<1>3. RowsGo /\ NoneVoided /\ VoidsEnded
  BY <1>1, AllParts, RowsStay
<1>4. /\ attempts' \in 0..MaxAttempts /\ halted' \in BOOLEAN
  BY <1>1, AsTyped
<1>5. Order("combo", 0, "buy") \in OrderRecord /\ Order("combo", 0, "buy").kind = "combo"
  BY DEF OrderRecord, Order
<1>6. 1 \in Leg
  BY AllParts
<1>7. CASE /\ orders' = Append(orders, Order("combo", 0, "buy"))
           /\ ex' = [ex EXCEPT !.at = "log", !.k = 1, !.combo = Len(orders) + 1]
           /\ Fine
  <2>1. /\ OrdersGo /\ Len(orders') = Len(orders) + 1
        /\ orders'[Len(orders) + 1] = Order("combo", 0, "buy")
    BY <1>5, <1>7, AllParts, OrderSent
  <2>2. PICK c \in Nat : c = Len(orders) + 1
    BY AllParts
  <2>3. ex' = [ex EXCEPT !.at = "log", !.k = 1, !.combo = c]
    BY <1>7, <2>2
  <2>4. /\ ex' \in Progress /\ ex'.at = "log" /\ ex'.k = 1 /\ ex'.combo = c /\ ex'.sent = ex.sent
        /\ ex'.logged = ex.logged /\ ex'.bad = ex.bad
    BY <2>3, AllParts DEF Progress
  <2>5. PlaceOK'
    BY <1>1, <1>6, <2>2, <2>4, AllParts, SameRecords DEF PlaceOK
  <2>6. c \in DOMAIN orders' /\ orders'[c].kind = "combo" /\ DOMAIN orders' = 1..Len(orders')
    BY <1>5, <2>1, <2>2, LenProperties, AllParts DEF OrdersGo
  <2>7. HandOK'
    BY <1>1, <1>2, <2>4, <2>6 DEF HandOK
  <2>8. RecordOK'
    BY <2>4 DEF RecordOK
  <2>9. SpreadInv'
    BY <1>1, <1>3, <1>4, <1>7, <2>1, <2>4, <2>5, <2>7, <2>8, AllParts, UsedTyped, AtWork
  <2>10. InHand' = {c}
    <3>1. Range(<<>>) = {}
      BY DEF Range
    <3>. QED
      BY <1>1, <2>2, <2>4, <3>1, AllParts DEF InHand
  <2>11. Passed
    <3>1. c \notin 1..Len(orders) /\ \A x \in 1..Len(orders') : x \in 1..Len(orders) \/ x = c
      BY <2>1, <2>2, AllParts
    <3>. QED
      BY <1>1, <1>2, <1>3, <2>10, <3>1 DEF Passed
  <2>. QED
    BY <1>3, <2>1, <2>7, <2>9, <2>11, PassedIsCustody
<1>8. CASE Fails("reject") /\ ex' = [ex EXCEPT !.at = "leg", !.k = 1] /\ UNCHANGED orders
  <2>1. /\ ex' \in Progress /\ ex'.at = "leg" /\ ex'.k = 1 /\ ex'.combo = 0 /\ ex'.sent = <<>>
        /\ ex'.logged = ex.logged /\ ex'.bad = ex.bad
    BY <1>1, <1>8, AllParts DEF Progress
  <2>2. OrdersGo
    BY <1>8, AllParts, OrdersStay
  <2>3. PlaceOK'
    BY <1>1, <1>6, <2>1, AllParts, SameRecords DEF PlaceOK
  <2>4. HandOK'
    BY <1>1, <1>3, <2>1, <2>2, AllParts, HandAgain
  <2>5. RecordOK'
    BY <2>1 DEF RecordOK
  <2>6. SpreadInv'
    BY <1>1, <1>3, <1>4, <1>8, <2>1, <2>2, <2>3, <2>4, <2>5, AllParts, UsedTyped, AtWork
  <2>7. InHand' = {}
    <3>1. Range(<<>>) = {}
      BY DEF Range
    <3>. QED
      BY <2>1, <3>1 DEF InHand
  <2>8. Passed
    BY <1>1, <1>2, <1>3, <1>8, <2>7 DEF Passed
  <2>. QED
    BY <1>3, <2>2, <2>4, <2>6, <2>8, PassedIsCustody
<1>9. CASE Fails("mismatch") /\ ex' = Idle /\ UNCHANGED orders
  <2>1. OrdersGo
    BY <1>9, AllParts, OrdersStay
  <2>2. SpreadInv' /\ HandOK' /\ InHand' = {}
    BY <1>1, <1>3, <1>4, <1>9, <2>1, AllParts, UsedTyped, AtRest, AtWork
  <2>3. Passed
    BY <1>1, <1>2, <1>3, <1>9, <2>2 DEF Passed
  <2>. QED
    BY <1>3, <2>1, <2>2, <2>3, PassedIsCustody
<1>10. CASE /\ Fails("lost") /\ orders' = Append(orders, Order("combo", 0, "buy"))
            /\ ex' = SendAgain
  <2>1. OrdersGo
    BY <1>5, <1>10, AllParts, OrderSent
  <2>2. /\ ex' \in Progress /\ ex'.at \in {"combo", "leg"} /\ ex'.combo = 0 /\ ex'.sent = <<>>
        /\ ex'.logged = ex.logged /\ ex'.bad = ex.bad
        /\ ex'.at = "leg" => ex'.k = 1
    <3>1. CASE ex.k < Retries
      <4>1. ex' = [ex EXCEPT !.k = ex.k + 1]
        BY <1>10, <3>1 DEF SendAgain
      <4>. QED
        BY <1>1, <4>1, AllParts DEF Progress
    <3>2. CASE ~(ex.k < Retries)
      <4>1. ex' = [ex EXCEPT !.at = "leg", !.k = 1]
        BY <1>10, <3>2 DEF SendAgain
      <4>. QED
        BY <1>1, <4>1, AllParts DEF Progress
    <3>. QED
      BY <3>1, <3>2
  <2>3. PlaceOK'
    BY <1>1, <1>6, <2>2, AllParts, SameRecords DEF PlaceOK
  <2>4. HandOK'
    BY <1>1, <1>3, <2>1, <2>2, AllParts, HandAgain
  <2>5. RecordOK'
    BY <2>2 DEF RecordOK
  <2>6. SpreadInv'
    BY <1>1, <1>3, <1>4, <1>10, <2>1, <2>2, <2>3, <2>4, <2>5, AllParts, UsedTyped, AtWork
  <2>7. ~Sound
    BY <1>10 DEF Sound, Fails
  <2>. QED
    BY <2>6, <2>7
<1>. QED
  BY <1>7, <1>8, <1>9, <1>10 DEF SubmitCombo

LEMMA SubmitLegKeeps ==
  ASSUME SpreadInv, UNCHANGED setup, SubmitLeg
  PROVE  SpreadInv' /\ (Sound => Custody!Next)
<1>. DEFINE leg == Sequence[ex.k]
            o == Order("open", leg, Legs[leg])
            taken == Append(orders, o)
<1>1. /\ UNCHANGED <<rows, polling, halted, attempts>> /\ ex.at = "leg" /\ ex.combo = 0
      /\ ex.k \in Leg /\ Len(ex.sent) = ex.k - 1 /\ polling = <<>>
  BY AllParts DEF SubmitLeg, PlaceOK
<1>2. \/ /\ orders' = taken
         /\ ex' = [ex EXCEPT !.sent = Append(@, Len(orders) + 1),
                             !.at = IF ex.k = Len(Legs) THEN "log" ELSE "leg",
                             !.k = IF ex.k = Len(Legs) THEN 1 ELSE @ + 1]
         /\ Fine
      \/ /\ Fails("reject") /\ UNCHANGED orders
         /\ ex' = [ex EXCEPT !.at = "undo", !.k = 1]
      \/ /\ Fails("mismatch") /\ UNCHANGED orders
         /\ ex' = [ex EXCEPT !.at = "skip", !.k = 1]
      \/ /\ Fails("lost") /\ orders' = taken
         /\ ex' = [ex EXCEPT !.at = "undo", !.k = 1]
  BY DEF SubmitLeg
<1>3. RowsGo /\ NoneVoided /\ VoidsEnded
  BY <1>1, AllParts, RowsStay
<1>4. attempts' \in 0..MaxAttempts /\ halted' \in BOOLEAN
  BY <1>1, AsTyped
<1>5. leg \in Leg /\ Legs[leg] \in {"buy", "sell"}
  BY <1>1, AllParts, PositionInverts, SetupTyped DEF SpreadTypeOK
<1>6. o \in OrderRecord /\ o.kind = "open" /\ o.leg = leg /\ o.side = Legs[leg]
  BY <1>5 DEF OrderRecord, Order
<1>7. orders' = taken =>
        /\ OrdersGo /\ Len(orders') = Len(orders) + 1 /\ orders'[Len(orders) + 1] = o
        /\ DOMAIN orders' = 1..Len(orders')
  <2>1. HAVE orders' = taken
  <2>2. OrdersGo /\ Len(orders') = Len(orders) + 1 /\ orders'[Len(orders) + 1] = o
    BY <1>5, <1>6, <2>1, AllParts, OrderSent
  <2>. QED
    BY <2>2, LenProperties DEF OrdersGo
<1>8. UNCHANGED orders => OrdersGo
  BY AllParts, OrdersStay
<1>9. CASE /\ orders' = taken
           /\ ex' = [ex EXCEPT !.sent = Append(@, Len(orders) + 1),
                               !.at = IF ex.k = Len(Legs) THEN "log" ELSE "leg",
                               !.k = IF ex.k = Len(Legs) THEN 1 ELSE @ + 1]
           /\ Fine
  <2>1. PICK n \in Nat : n = Len(orders) + 1
    BY AllParts
  <2>2. PICK sent : sent = Append(ex.sent, n)
    OBVIOUS
  <2>3. /\ sent \in Seq(Nat) /\ Len(sent) = ex.k /\ sent[ex.k] = n
        /\ \A j \in 1..(ex.k - 1) : sent[j] = ex.sent[j]
        /\ DOMAIN sent = 1..ex.k
    <3>1. ex.sent \in Seq(Nat)
      BY AllParts DEF Progress
    <3>2. /\ sent \in Seq(Nat) /\ Len(sent) = Len(ex.sent) + 1 /\ sent[Len(ex.sent) + 1] = n
          /\ \A j \in 1..Len(ex.sent) : sent[j] = ex.sent[j]
      BY <2>1, <2>2, <3>1, AppendProperties
    <3>3. Len(ex.sent) + 1 = ex.k
      BY <1>1, AllParts
    <3>. QED
      BY <1>1, <3>2, <3>3, LenProperties
  <2>4. PICK at \in {"log", "leg"} : at = IF ex.k = Len(Legs) THEN "log" ELSE "leg"
    OBVIOUS
  <2>5. PICK k \in Leg : k = IF ex.k = Len(Legs) THEN 1 ELSE ex.k + 1
    BY <1>1, AllParts
  <2>6. ex' = [ex EXCEPT !.sent = sent, !.at = at, !.k = k]
    BY <1>9, <2>1, <2>2, <2>4, <2>5
  <2>7. /\ ex' \in Progress /\ ex'.at = at /\ ex'.k = k /\ ex'.combo = 0 /\ ex'.sent = sent
        /\ ex'.logged = ex.logged /\ ex'.bad = ex.bad
    <3>1. ex \in Progress /\ ex.combo = 0 /\ k \in Nat /\ sent \in Seq(Nat)
      BY <1>1, <2>3, AllParts
    <3>2. PICK e : e = [ex EXCEPT !.sent = sent, !.at = at, !.k = k]
      OBVIOUS
    <3>3. /\ e \in Progress /\ e.at = at /\ e.k = k /\ e.combo = 0 /\ e.sent = sent
          /\ e.logged = ex.logged /\ e.bad = ex.bad
      BY ONLY <3>1, <3>2 DEF Progress
    <3>. QED
      BY <2>6, <3>2, <3>3
  <2>8. OrdersGo /\ Len(orders') = n /\ orders'[n] = o /\ DOMAIN orders' = 1..n
    BY <1>7, <1>9, <2>1
  <2>9. PlaceOK'
    <3>1. at = "log" => k = 1 /\ Len(sent) = Len(Legs)
      BY <2>3, <2>4, <2>5
    <3>2. at = "leg" => Len(sent) = k - 1
      BY <1>1, <2>3, <2>4, <2>5, AllParts
    <3>. QED
      BY <1>1, <2>5, <2>7, <3>1, <3>2, AllParts, SameRecords DEF PlaceOK
  <2>10. HandOK'
    <3>1. ASSUME NEW j \in 1..ex.k
          PROVE  /\ j \in Leg /\ sent[j] \in 1..n
                 /\ orders'[sent[j]].kind = "open"
                 /\ orders'[sent[j]].leg = Sequence[j]
                 /\ orders'[sent[j]].side = Legs[Sequence[j]]
      <4>1. CASE j = ex.k
        BY <1>1, <1>6, <2>1, <2>3, <2>8, <4>1, AllParts
      <4>2. CASE j # ex.k
        <5>1. j \in 1..(ex.k - 1) /\ j \in DOMAIN ex.sent
          BY <1>1, <3>1, <4>2, AllParts
        <5>2. PICK x \in 1..Len(orders) : x = ex.sent[j]
          BY <5>1, AllParts DEF HandOK
        <5>3. x \in 1..n /\ sent[j] = x
          BY <2>1, <2>3, <5>1, <5>2, AllParts
        <5>. QED
          BY <2>8, <5>1, <5>2, <5>3, AllParts DEF HandOK, OrdersGo
      <4>. QED
        BY <4>1, <4>2
    <3>2. ASSUME NEW i \in ex.logged
          PROVE  i \in DOMAIN rows /\ rows[i].oid \in Range(sent)
      <4>1. i \in DOMAIN rows /\ rows[i].oid \in Range(ex.sent)
        BY <1>1, AllParts DEF HandOK, Mine
      <4>2. PICK j \in 1..(ex.k - 1) : rows[i].oid = ex.sent[j]
        BY <1>1, <4>1, AllParts DEF Range
      <4>3. j \in DOMAIN sent /\ rows[i].oid = sent[j]
        BY <1>1, <2>3, <4>2, AllParts
      <4>. QED
        BY <4>1, <4>3 DEF Range
    <3>3. Mine' = sent /\ Range(Mine)' = Range(sent)
      BY <2>7 DEF Mine, Range
    <3>. QED
      BY <1>1, <2>3, <2>7, <2>8, <3>1, <3>2, <3>3, SameRecords DEF HandOK
  <2>11. RecordOK'
    BY <2>4, <2>5, <2>7 DEF RecordOK
  <2>12. SpreadInv'
    BY <1>1, <1>3, <1>4, <1>9, <2>7, <2>8, <2>9, <2>10, <2>11, AllParts, UsedTyped, AtWork
  <2>13. /\ InHand' = Range(sent) /\ InHand = Range(ex.sent)
    BY <1>1, <2>7 DEF InHand, Range
  <2>14. /\ \A x \in Range(sent) : x \in Range(ex.sent) \/ x = n
         /\ n \in Range(sent) /\ \A x \in Range(ex.sent) : x \in Range(sent)
    <3>1. DOMAIN ex.sent = 1..(ex.k - 1) /\ ex.k \in Nat /\ ex.k \in 1..ex.k
      BY <1>1, AllParts
    <3>2. \A j \in 1..ex.k : j \in 1..(ex.k - 1) \/ j = ex.k
      BY <3>1
    <3>3. \A j \in 1..(ex.k - 1) : j \in 1..ex.k
      BY <3>1
    <3>. QED
      BY <2>3, <3>1, <3>2, <3>3 DEF Range
  <2>15. n \notin 1..Len(orders) /\ \A x \in 1..n : x \in 1..Len(orders) \/ x = n
    BY <2>1, AllParts
  <2>16. Passed
    BY <1>1, <1>3, <2>8, <2>13, <2>14, <2>15 DEF Passed
  <2>. QED
    BY <1>3, <2>8, <2>10, <2>12, <2>16, PassedIsCustody
<1>10. ASSUME NEW at \in {"undo", "skip"}, ex' = [ex EXCEPT !.at = at, !.k = 1],
              at = "skip" => "mismatch" \in Faults, OrdersGo,
              NEW f, Fails(f), f = "lost" \/ UNCHANGED orders
       PROVE  SpreadInv' /\ (Sound => Custody!Next)
  <2>1. /\ ex' \in Progress /\ ex'.at = at /\ ex'.k = 1 /\ ex'.combo = 0 /\ ex'.sent = ex.sent
        /\ ex'.logged = ex.logged /\ ex'.bad = ex.bad
    BY <1>1, <1>10, AllParts DEF Progress
  <2>2. PlaceOK'
    <3>1. 1 \in 1..Len(ex.sent) \/ ex.sent = <<>>
      <4>1. ex.sent \in Seq(Nat)
        BY AllParts DEF Progress
      <4>2. ex.sent = <<>> \/ Len(ex.sent) > 0
        BY <4>1, EmptySeq
      <4>. QED
        BY <4>2, AllParts
    <3>. QED
      BY <1>1, <1>10, <2>1, <3>1, SameRecords DEF PlaceOK
  <2>3. HandOK'
    BY <1>1, <1>3, <1>10, <2>1, AllParts, HandAgain
  <2>4. RecordOK'
    BY <2>1 DEF RecordOK
  <2>5. SpreadInv'
    BY <1>1, <1>3, <1>4, <1>10, <2>1, <2>2, <2>3, <2>4, AllParts, UsedTyped, AtWork
  <2>6. InHand' = InHand
    BY <1>1, <2>1 DEF InHand, Range
  <2>7. CASE f = "lost"
    BY <1>10, <2>5, <2>7 DEF Sound, Fails
  <2>8. CASE UNCHANGED orders
    <3>1. Passed
      BY <1>1, <1>3, <2>6, <2>8 DEF Passed
    <3>. QED
      BY <1>3, <1>10, <2>3, <2>5, <3>1, PassedIsCustody
  <2>. QED
    BY <1>10, <2>7, <2>8
<1>11. CASE /\ Fails("reject") /\ UNCHANGED orders
            /\ ex' = [ex EXCEPT !.at = "undo", !.k = 1]
  BY <1>8, <1>10, <1>11
<1>12. CASE /\ Fails("mismatch") /\ UNCHANGED orders
            /\ ex' = [ex EXCEPT !.at = "skip", !.k = 1]
  <2>1. "mismatch" \in Faults
    BY <1>12 DEF Fails
  <2>. QED
    BY <1>8, <1>10, <1>12, <2>1
<1>13. CASE /\ Fails("lost") /\ orders' = taken
            /\ ex' = [ex EXCEPT !.at = "undo", !.k = 1]
  BY <1>7, <1>10, <1>13
<1>. QED
  BY <1>2, <1>9, <1>11, <1>12, <1>13

\* The order whose turn it is.
LEMMA DueOrder ==
  ASSUME SpreadInv, ex.at \in {"undo", "skip"}, ex.sent # <<>>
  PROVE  /\ ex.combo = 0 /\ polling = <<>> /\ ex.k \in 1..Len(ex.sent) /\ ex.k \in Leg
         /\ ex.sent[ex.k] \in 1..Len(orders)
         /\ orders[ex.sent[ex.k]].kind = "open" /\ orders[ex.sent[ex.k]].leg \in Leg
         /\ orders[ex.sent[ex.k]].side = Legs[orders[ex.sent[ex.k]].leg]
         /\ InHand = Range(ex.sent)
<1>1. ex.combo = 0 /\ polling = <<>> /\ ex.k \in 1..Len(ex.sent)
  BY AllParts DEF PlaceOK
<1>2. /\ ex.k \in Leg /\ ex.sent[ex.k] \in 1..Len(orders)
      /\ orders[ex.sent[ex.k]].kind = "open" /\ orders[ex.sent[ex.k]].leg = Sequence[ex.k]
      /\ orders[ex.sent[ex.k]].side = Legs[Sequence[ex.k]]
  BY <1>1, AllParts DEF HandOK
<1>3. Sequence[ex.k] \in Leg
  BY <1>2, AllParts, PositionInverts DEF SpreadTypeOK
<1>4. InHand = Range(ex.sent)
  BY <1>1 DEF InHand
<1>. QED
  BY <1>1, <1>2, <1>3, <1>4

\* A row of rs names the order.
NamedIn(rs, oid) == \E i \in DOMAIN rs : rs[i].oid = oid /\ rs[i].st # "dead"

LEMMA Reversing ==
  ASSUME SpreadInv, UNCHANGED <<setup, polling, halted, attempts>>, used' \in 0..MaxFaults,
         ex.at \in {"undo", "skip"}, ex.sent # <<>>, ex' = NextSent,
         OrdersGo, RowsGo, NoneVoided,
         \A i \in 1..Len(rows) : rows'[i] = rows[i],
         \A i \in 1..Len(rows') :
           \/ i \in 1..Len(rows)
           \/ rows'[i].oid = ex.sent[ex.k] \/ rows'[i].oid \notin 1..Len(orders),
         Sound => NamedIn(rows', ex.sent[ex.k]),
         Sound => \A o \in 1..Len(orders') : o \in 1..Len(orders) \/ NamedIn(rows', o)
  PROVE  SpreadInv' /\ (Sound => Custody!Next)
<1>1. /\ ex.combo = 0 /\ polling = <<>> /\ ex.k \in 1..Len(ex.sent)
      /\ InHand = Range(ex.sent) /\ ex.sent[ex.k] \in Range(ex.sent)
  BY DueOrder, AllParts DEF Range
<1>2. VoidsEnded
  BY DEF NoneVoided, VoidsEnded
<1>3. ASSUME Sound, NEW j \in 1..ex.k
      PROVE  NamedIn(rows', ex.sent[j])
  <2>1. CASE j = ex.k
    BY <1>3, <2>1
  <2>2. CASE j # ex.k
    <3>1. j \in 1..(ex.k - 1)
      BY <1>1, <1>3, <2>2, AllParts
    <3>2. Journaled(ex.sent[j])
      BY <1>3, <3>1, AllParts DEF RecordOK
    <3>3. PICK oid : oid = ex.sent[j]
      OBVIOUS
    <3>4. Journaled(oid)
      BY <3>2, <3>3
    <3>5. Journaled(oid)'
      BY <3>4, AllParts, JournaledAgain
    <3>. QED
      BY <3>3, <3>5 DEF Journaled, NamedIn
  <2>. QED
    BY <2>1, <2>2
<1>4. attempts' \in 0..MaxAttempts /\ halted' \in BOOLEAN
  BY AsTyped
<1>5. CASE ex.k < Len(ex.sent)
  <2>1. ex' = [ex EXCEPT !.k = ex.k + 1]
    BY <1>5 DEF NextSent
  <2>2. /\ ex' \in Progress /\ ex'.at = ex.at /\ ex'.k = ex.k + 1 /\ ex'.combo = 0
        /\ ex'.sent = ex.sent /\ ex'.logged = ex.logged /\ ex'.bad = ex.bad
    <3>1. PICK k \in Nat : k = ex.k + 1
      BY <1>1, AllParts
    <3>2. PICK e : e = [ex EXCEPT !.k = k]
      OBVIOUS
    <3>3. ex \in Progress
      BY AllParts
    <3>4. /\ e \in Progress /\ e.at = ex.at /\ e.k = k /\ e.combo = ex.combo
          /\ e.sent = ex.sent /\ e.logged = ex.logged /\ e.bad = ex.bad
      BY ONLY <3>1, <3>2, <3>3 DEF Progress
    <3>. QED
      BY <1>1, <2>1, <3>1, <3>2, <3>4
  <2>3. PlaceOK'
    <3>1. ex.k + 1 \in 1..Len(ex.sent)
      BY <1>1, <1>5, AllParts
    <3>2. ex.at = "skip" => "mismatch" \in Faults
      BY AllParts DEF PlaceOK
    <3>. QED
      BY <1>1, <2>2, <3>1, <3>2, SameRecords DEF PlaceOK
  <2>4. HandOK'
    BY <1>1, <2>2, AllParts, HandAgain
  <2>5. RecordOK'
    <3>1. ASSUME Sound, NEW j \in 1..(ex'.k - 1)
          PROVE  NamedIn(rows', ex.sent[j])
      <4>1. j \in 1..ex.k
        BY <1>1, <2>2, AllParts
      <4>. QED
        BY <1>3, <3>1, <4>1
    <3>. QED
      BY <2>2, <3>1, SameRecords DEF RecordOK, Journaled, NamedIn
  <2>6. SpreadInv'
    BY <1>4, <2>2, <2>3, <2>4, <2>5, AtWork
  <2>7. InHand' = InHand
    BY <1>1, <2>2 DEF InHand, Range
  <2>8. Sound => Passed
    BY <1>1, <1>2, <2>7 DEF Passed, NamedIn, Journaled
  <2>. QED
    BY <2>4, <2>6, <2>8, PassedIsCustody
<1>6. CASE ~(ex.k < Len(ex.sent))
  <2>1. ex' = Idle
    BY <1>6 DEF NextSent
  <2>2. SpreadInv' /\ HandOK' /\ InHand' = {}
    BY <1>4, <2>1, AtRest, AtWork
  <2>3. ASSUME Sound, NEW o \in InHand
        PROVE  NamedIn(rows', o)
    <3>1. PICK j \in 1..Len(ex.sent) : o = ex.sent[j]
      BY <1>1, AllParts DEF Range
    <3>2. j \in 1..ex.k
      BY <1>1, <1>6, AllParts
    <3>3. NamedIn(rows', ex.sent[j])
      BY <1>3, <2>3, <3>2
    <3>. QED
      BY <3>1, <3>3
  <2>4. Sound => Passed
    BY <1>1, <1>2, <2>2, <2>3 DEF Passed, NamedIn, Journaled
  <2>. QED
    BY <2>2, <2>4, PassedIsCustody
<1>. QED
  BY <1>5, <1>6

LEMMA NothingToReverse ==
  ASSUME SpreadInv, UNCHANGED <<setup, polling, halted, attempts>>,
         ex.at \in {"undo", "skip"}, NothingSent
  PROVE  SpreadInv' /\ (Sound => Custody!Next)
<1>1. UNCHANGED <<orders, rows, used>> /\ ex' = Idle /\ ex.sent = <<>> /\ ex.combo = 0
  BY AllParts DEF NothingSent, PlaceOK
<1>2. OrdersGo /\ RowsGo /\ NoneVoided /\ VoidsEnded
  BY <1>1, AllParts, OrdersStay, RowsStay
<1>3. SpreadInv' /\ HandOK' /\ InHand' = {}
  BY <1>1, <1>2, AllParts, AsTyped, AtRest, AtWork
<1>4. InHand = {}
  BY <1>1, NothingInHand
<1>5. Passed
  BY <1>1, <1>2, <1>3, <1>4 DEF Passed
<1>. QED
  BY <1>2, <1>3, <1>5, PassedIsCustody

\* The two rows of a reversal fit the orders they name.
LEMMA ReversedFit ==
  ASSUME SpreadInv, ex.at \in {"undo", "skip"}, ex.sent # <<>>, UNCHANGED setup, OrdersGo,
         NEW open, open = Reversed(ex.sent[ex.k]).open,
         NEW close, close = Reversed(ex.sent[ex.k]).close
  PROVE  /\ open \in RowRecord /\ open.oid = ex.sent[ex.k] /\ open.st = "pending_fill"
         /\ Fits(orders', open)
         /\ close \in RowRecord /\ close.oid = Len(orders) + 1 /\ close.st = "pending_fill"
         /\ orders' = Reversal(ex.sent[ex.k]) => Fits(orders', close)
<1>1. PICK due \in 1..Len(orders) : due = ex.sent[ex.k]
  BY DueOrder
<1>2. PICK leg \in Leg : leg = orders[due].leg /\ orders[due].kind = "open"
                         /\ orders[due].side = Legs[leg]
  BY <1>1, DueOrder
<1>3. Legs[leg] \in {"buy", "sell"} /\ Opposite(Legs[leg]) \in {"buy", "sell"}
  BY AllParts, SetupTyped DEF SpreadTypeOK, Opposite
<1>4. PICK n \in Nat : n = Len(orders) + 1
  BY AllParts
<1>5. open = [leg |-> leg, side |-> Legs[leg], oid |-> due, st |-> "pending_fill",
              priced |-> FALSE, batch |-> 0]
  BY <1>1, <1>2 DEF Reversed, Row, NoBatch
<1>6. close = [leg |-> leg, side |-> Opposite(Legs[leg]), oid |-> n, st |-> "pending_fill",
               priced |-> FALSE, batch |-> 0]
  BY <1>1, <1>2, <1>4 DEF Reversed, Row, NoBatch
<1>7. open \in RowRecord /\ close \in RowRecord
  <2>1. due \in Nat /\ 0 \in Int /\ n \in Nat
    BY AllParts
  <2>. QED
    BY <1>3, <1>5, <1>6, <2>1 DEF RowRecord
<1>8. DOMAIN orders' = 1..Len(orders') /\ 1..Len(orders) \subseteq 1..Len(orders')
  <2>1. DOMAIN orders' = 1..Len(orders') /\ Len(orders') \in Nat
    BY LenProperties DEF OrdersGo
  <2>. QED
    BY <2>1, AllParts DEF OrdersGo
<1>9. Fits(orders', open)
  BY <1>2, <1>5, <1>8 DEF Fits, OrdersGo
<1>10. ASSUME orders' = Reversal(ex.sent[ex.k])
       PROVE  Fits(orders', close)
  <2>1. PICK o : o = Order("close", leg, Opposite(Legs[leg]))
    OBVIOUS
  <2>2. o = [kind |-> "close", leg |-> leg, side |-> Opposite(Legs[leg]), st |-> "working"]
    BY <2>1 DEF Order
  <2>3. o \in OrderRecord
    BY <1>3, <2>2 DEF OrderRecord
  <2>4. orders' = Append(orders, o)
    BY <1>1, <1>2, <1>10, <2>1 DEF Reversal
  <2>5. Len(orders') = n /\ orders'[n] = o
    BY <1>4, <2>2, <2>3, <2>4, AllParts, OrderSent
  <2>6. n \in DOMAIN orders'
    BY <1>4, <1>8, <2>5, AllParts
  <2>. QED
    BY <1>6, <2>2, <2>5, <2>6 DEF Fits
<1>. QED
  BY <1>1, <1>4, <1>5, <1>6, <1>7, <1>9, <1>10

LEMMA ReversalSent ==
  ASSUME SpreadInv, ex.at \in {"undo", "skip"}, ex.sent # <<>>,
         orders' = Reversal(ex.sent[ex.k])
  PROVE  OrdersGo /\ Len(orders') = Len(orders) + 1
<1>1. PICK leg \in Leg : leg = orders[ex.sent[ex.k]].leg
                         /\ orders[ex.sent[ex.k]].side = Legs[leg]
  BY DueOrder
<1>2. PICK o : o = Order("close", leg, Opposite(Legs[leg]))
  OBVIOUS
<1>3. o = [kind |-> "close", leg |-> leg, side |-> Opposite(Legs[leg]), st |-> "working"]
  BY <1>2 DEF Order
<1>4. o \in OrderRecord
  BY <1>3 DEF OrderRecord, Opposite
<1>5. orders' = Append(orders, o)
  BY <1>1, <1>2 DEF Reversal
<1>. QED
  BY <1>3, <1>4, <1>5, AllParts, OrderSent

\* One of the two rows, or both, of a reversal that was taken or refused.
LEMMA RowsOfReversal ==
  ASSUME SpreadInv, ex.at \in {"undo", "skip"}, ex.sent # <<>>, UNCHANGED setup, OrdersGo,
         NEW open, open = Reversed(ex.sent[ex.k]).open,
         NEW close, close = Reversed(ex.sent[ex.k]).close,
         \/ rows' = rows \o <<open, close>> /\ orders' = Reversal(ex.sent[ex.k])
         \/ rows' = Append(rows, open)
         \/ rows' = Append(rows, close) /\ orders' = Reversal(ex.sent[ex.k])
  PROVE  /\ RowsGo /\ NoneVoided /\ \A i \in 1..Len(rows) : rows'[i] = rows[i]
         /\ \A i \in 1..Len(rows') :
              \/ i \in 1..Len(rows)
              \/ rows'[i].oid = ex.sent[ex.k] \/ rows'[i].oid = Len(orders) + 1
         /\ rows' # Append(rows, close) => NamedIn(rows', ex.sent[ex.k])
         /\ rows' = rows \o <<open, close>> => NamedIn(rows', Len(orders) + 1)
<1>1. /\ open \in RowRecord /\ open.oid = ex.sent[ex.k] /\ open.st = "pending_fill"
      /\ Fits(orders', open)
      /\ close \in RowRecord /\ close.oid = Len(orders) + 1 /\ close.st = "pending_fill"
      /\ orders' = Reversal(ex.sent[ex.k]) => Fits(orders', close)
  BY ReversedFit
<1>2. RowsGo => DOMAIN rows' = 1..Len(rows') /\ Len(rows') \in Nat
  BY LenProperties DEF RowsGo
<1>3. ASSUME NEW r \in {open, close}, rows' = Append(rows, r), Fits(orders', r)
      PROVE  /\ RowsGo /\ NoneVoided /\ \A i \in 1..Len(rows) : rows'[i] = rows[i]
             /\ \A i \in 1..Len(rows') : i \in 1..Len(rows) \/ rows'[i] = r
             /\ NamedIn(rows', r.oid)
  <2>1. r \in RowRecord /\ r.st # "dead"
    BY <1>1, <1>3
  <2>2. /\ RowsGo /\ NoneVoided /\ Len(rows') = Len(rows) + 1
        /\ \A i \in 1..Len(rows) : rows'[i] = rows[i]
        /\ rows'[Len(rows) + 1] = r
    BY <1>3, <2>1, AllParts, RowAdded
  <2>3. Len(rows) + 1 \in DOMAIN rows'
        /\ \A i \in 1..Len(rows') : i \in 1..Len(rows) \/ i = Len(rows) + 1
    BY <1>2, <2>2, AllParts
  <2>. QED
    BY <2>1, <2>2, <2>3 DEF NamedIn
<1>4. CASE rows' = rows \o <<open, close>> /\ orders' = Reversal(ex.sent[ex.k])
  <2>1. PICK rs : rs = <<open, close>>
    OBVIOUS
  <2>2. rs \in Seq(RowRecord) /\ Len(rs) = 2 /\ rs[1] = open /\ rs[2] = close
    BY <1>1, <2>1
  <2>3. \A n \in 1..Len(rs) : n = 1 \/ n = 2
    BY <2>2
  <2>4. \A n \in 1..Len(rs) : Fits(orders', rs[n]) /\ rs[n].st # "dead"
    BY <1>1, <1>4, <2>2, <2>3
  <2>5. /\ RowsGo /\ NoneVoided /\ Len(rows') = Len(rows) + 2
        /\ \A i \in 1..Len(rows) : rows'[i] = rows[i]
        /\ \A n \in 1..Len(rs) : rows'[Len(rows) + n] = rs[n]
    <3>1. rows' = rows \o rs
      BY <1>4, <2>1
    <3>. QED
      BY <2>2, <2>4, <3>1, AllParts, RowsAdded
  <2>6. rows'[Len(rows) + 1] = open /\ rows'[Len(rows) + 2] = close
    BY <2>2, <2>5
  <2>7. /\ Len(rows) + 1 \in DOMAIN rows' /\ Len(rows) + 2 \in DOMAIN rows'
        /\ \A i \in 1..Len(rows') :
             i \in 1..Len(rows) \/ i = Len(rows) + 1 \/ i = Len(rows) + 2
    BY <1>2, <2>5, AllParts
  <2>. QED
    BY Zenon, <1>1, <2>5, <2>6, <2>7 DEF NamedIn
<1>5. CASE rows' = Append(rows, open)
  <2>1. rows' # rows \o <<open, close>>
    <3>1. Len(rows') = Len(rows) + 1
      BY <1>1, <1>5, AllParts, RowAdded
    <3>2. /\ rows \in Seq(RowRecord)
          /\ <<open, close>> \in Seq(RowRecord) /\ Len(<<open, close>>) = 2
      BY <1>1, AllParts DEF SpreadTypeOK
    <3>3. Len(rows \o <<open, close>>) = Len(rows) + 2
      BY <3>2, ConcatProperties
    <3>. QED
      BY <3>1, <3>3, AllParts
  <2>. QED
    BY Zenon, <1>1, <1>3, <1>5, <2>1
<1>6. CASE rows' = Append(rows, close) /\ orders' = Reversal(ex.sent[ex.k])
  <2>1. rows' # rows \o <<open, close>>
    <3>1. Len(rows') = Len(rows) + 1
      BY <1>1, <1>6, AllParts, RowAdded
    <3>2. /\ rows \in Seq(RowRecord)
          /\ <<open, close>> \in Seq(RowRecord) /\ Len(<<open, close>>) = 2
      BY <1>1, AllParts DEF SpreadTypeOK
    <3>3. Len(rows \o <<open, close>>) = Len(rows) + 2
      BY <3>2, ConcatProperties
    <3>. QED
      BY <3>1, <3>3, AllParts
  <2>. QED
    BY Zenon, <1>1, <1>3, <1>6, <2>1
<1>. QED
  BY Zenon, <1>4, <1>5, <1>6

\* A reversal that was taken and journaled in full.
LEMMA ReversedInFull ==
  ASSUME SpreadInv, UNCHANGED <<setup, polling, halted, attempts>>, used' \in 0..MaxFaults,
         ex.at \in {"undo", "skip"}, ex.sent # <<>>, ex' = NextSent,
         orders' = Reversal(ex.sent[ex.k]),
         rows' = rows \o <<Reversed(ex.sent[ex.k]).open, Reversed(ex.sent[ex.k]).close>>
  PROVE  SpreadInv' /\ (Sound => Custody!Next)
<1>1. OrdersGo /\ Len(orders') = Len(orders) + 1
  BY ReversalSent
<1>2. PICK open : open = Reversed(ex.sent[ex.k]).open
  OBVIOUS
<1>3. PICK close : close = Reversed(ex.sent[ex.k]).close
  OBVIOUS
<1>4. rows' = rows \o <<open, close>>
  BY <1>2, <1>3
<1>5. /\ RowsGo /\ NoneVoided /\ \A i \in 1..Len(rows) : rows'[i] = rows[i]
      /\ \A i \in 1..Len(rows') :
           \/ i \in 1..Len(rows)
           \/ rows'[i].oid = ex.sent[ex.k] \/ rows'[i].oid = Len(orders) + 1
      /\ rows' # Append(rows, close) => NamedIn(rows', ex.sent[ex.k])
      /\ NamedIn(rows', Len(orders) + 1)
  BY Zenon, <1>1, <1>2, <1>3, <1>4, RowsOfReversal
<1>6. rows' # Append(rows, close)
  <2>1. /\ open \in RowRecord /\ close \in RowRecord
    BY <1>1, <1>2, <1>3, ReversedFit
  <2>2. rows \in Seq(RowRecord) /\ <<open, close>> \in Seq(RowRecord) /\ Len(<<open, close>>) = 2
    BY <2>1, AllParts DEF SpreadTypeOK
  <2>3. Len(rows \o <<open, close>>) = Len(rows) + 2
    BY <2>2, ConcatProperties
  <2>4. Len(Append(rows, close)) = Len(rows) + 1
    BY <2>1, <2>2, AppendProperties
  <2>. QED
    BY <1>4, <2>3, <2>4, AllParts
<1>7. /\ Len(orders) + 1 \notin 1..Len(orders)
      /\ \A o \in 1..Len(orders') : o \in 1..Len(orders) \/ o = Len(orders) + 1
  BY <1>1, AllParts
<1>8. \A i \in 1..Len(rows') :
        \/ i \in 1..Len(rows)
        \/ rows'[i].oid = ex.sent[ex.k] \/ rows'[i].oid \notin 1..Len(orders)
  BY <1>5, <1>7
<1>9. \A o \in 1..Len(orders') : o \in 1..Len(orders) \/ NamedIn(rows', o)
  BY <1>5, <1>7
<1>. QED
  BY Zenon, <1>1, <1>5, <1>6, <1>8, <1>9, Reversing

LEMMA UndoLegKeeps ==
  ASSUME SpreadInv, UNCHANGED setup, UndoLeg
  PROVE  SpreadInv' /\ (Sound => Custody!Next)
<1>. DEFINE oid == ex.sent[ex.k]
            rs == Reversed(oid)
<1>1. UNCHANGED <<setup, polling, halted, attempts>> /\ ex.at = "undo"
  BY DEF UndoLeg
<1>2. CASE NothingSent
  BY <1>1, <1>2, NothingToReverse
<1>3. CASE /\ ex.sent # <<>> /\ ex' = NextSent
           /\ Fine /\ orders' = Reversal(oid) /\ rows' = rows \o <<rs.open, rs.close>>
  <2>1. used' \in 0..MaxFaults
    BY <1>3, AllParts, UsedTyped
  <2>. QED
    BY <1>1, <1>3, <2>1, ReversedInFull
<1>4. CASE /\ ex.sent # <<>> /\ ex' = NextSent
           /\ Fails("reject") /\ UNCHANGED orders /\ rows' = Append(rows, rs.open)
  <2>1. used' \in 0..MaxFaults
    BY <1>4, AllParts, UsedTyped
  <2>2. OrdersGo
    BY <1>4, AllParts, OrdersStay
  <2>3. PICK open : open = rs.open
    OBVIOUS
  <2>4. PICK close : close = rs.close
    OBVIOUS
  <2>5. rows' = Append(rows, open) /\ open.oid = oid /\ close.oid = Len(orders) + 1
    BY <1>1, <1>4, <2>2, <2>3, <2>4, ReversedFit
  <2>6. /\ RowsGo /\ NoneVoided /\ \A i \in 1..Len(rows) : rows'[i] = rows[i]
        /\ \A i \in 1..Len(rows') :
             \/ i \in 1..Len(rows)
             \/ rows'[i].oid = oid \/ rows'[i].oid = Len(orders) + 1
        /\ rows' # Append(rows, close) => NamedIn(rows', oid)
    BY Zenon, <1>1, <1>4, <2>2, <2>3, <2>4, <2>5, RowsOfReversal
  <2>7. Len(orders) + 1 \notin 1..Len(orders)
    BY AllParts
  <2>8. rows' # Append(rows, close)
    <3>1. oid # Len(orders) + 1
      BY <1>1, <1>4, <2>7, DueOrder
    <3>2. open \in RowRecord /\ close \in RowRecord
      BY <1>1, <1>4, <2>2, <2>3, <2>4, ReversedFit
    <3>3. rows \in Seq(RowRecord)
      BY AllParts DEF SpreadTypeOK
    <3>4. Append(rows, open)[Len(rows) + 1] = open /\ Append(rows, close)[Len(rows) + 1] = close
      BY <3>2, <3>3, AppendProperties
    <3>. QED
      BY <2>5, <3>1, <3>4
  <2>9. \A i \in 1..Len(rows') :
          \/ i \in 1..Len(rows)
          \/ rows'[i].oid = ex.sent[ex.k] \/ rows'[i].oid \notin 1..Len(orders)
    BY <2>6, <2>7
  <2>10. \A o \in 1..Len(orders') : o \in 1..Len(orders) \/ NamedIn(rows', o)
    BY <1>4
  <2>. QED
    BY <1>1, <1>4, <2>1, <2>2, <2>6, <2>8, <2>9, <2>10, Reversing
<1>5. CASE /\ ex.sent # <<>> /\ ex' = NextSent
           /\ Fails("undoLog") /\ orders' = Reversal(oid)
           /\ rows' \in {Append(rows, rs.open), Append(rows, rs.close)}
  <2>1. used' \in 0..MaxFaults
    BY <1>5, AllParts, UsedTyped
  <2>2. OrdersGo
    BY <1>1, <1>5, ReversalSent
  <2>3. PICK open : open = rs.open
    OBVIOUS
  <2>4. PICK close : close = rs.close
    OBVIOUS
  <2>5. rows' = Append(rows, open) \/ rows' = Append(rows, close)
    BY <1>5, <2>3, <2>4
  <2>6. /\ RowsGo /\ NoneVoided /\ \A i \in 1..Len(rows) : rows'[i] = rows[i]
        /\ \A i \in 1..Len(rows') :
             \/ i \in 1..Len(rows)
             \/ rows'[i].oid = oid \/ rows'[i].oid = Len(orders) + 1
    BY <1>1, <1>5, <2>2, <2>3, <2>4, <2>5, RowsOfReversal
  <2>7. Len(orders) + 1 \notin 1..Len(orders)
    BY AllParts
  <2>8. \A i \in 1..Len(rows') :
          \/ i \in 1..Len(rows)
          \/ rows'[i].oid = ex.sent[ex.k] \/ rows'[i].oid \notin 1..Len(orders)
    BY <2>6, <2>7
  <2>9. ~Sound
    BY <1>5 DEF Sound, Fails
  <2>. QED
    BY <1>1, <1>5, <2>1, <2>2, <2>6, <2>8, <2>9, Reversing
<1>. QED
  BY <1>2, <1>3, <1>4, <1>5 DEF UndoLeg

LEMMA SkipLegKeeps ==
  ASSUME SpreadInv, UNCHANGED setup, SkipLeg
  PROVE  SpreadInv' /\ (Sound => Custody!Next)
<1>. DEFINE oid == ex.sent[ex.k]
            rs == Reversed(oid)
<1>1. UNCHANGED <<setup, polling, halted, attempts>> /\ ex.at = "skip"
  BY DEF SkipLeg
<1>2. CASE NothingSent
  BY <1>1, <1>2, NothingToReverse
<1>3. CASE /\ ex.sent # <<>> /\ ex' = NextSent
           /\ Fine /\ orders' = Reversal(oid) /\ rows' = rows \o <<rs.open, rs.close>>
  <2>1. used' \in 0..MaxFaults
    BY <1>3, AllParts, UsedTyped
  <2>. QED
    BY <1>1, <1>3, <2>1, ReversedInFull
<1>4. CASE /\ ex.sent # <<>> /\ ex' = NextSent
           /\ Fails("reject") /\ UNCHANGED <<orders, rows>>
  <2>1. used' \in 0..MaxFaults
    BY <1>4, AllParts, UsedTyped
  <2>2. OrdersGo /\ RowsGo /\ NoneVoided
    BY <1>4, AllParts, OrdersStay, RowsStay
  <2>3. ~Sound
    <3>1. "mismatch" \in Faults
      BY <1>1, AllParts DEF PlaceOK
    <3>. QED
      BY <1>4, <3>1 DEF Sound, Fails
  <2>. QED
    BY <1>1, <1>4, <2>1, <2>2, <2>3, Reversing
<1>. QED
  BY <1>2, <1>3, <1>4 DEF SkipLeg

\* The order of a leg is in the executor's hand and carries that leg.
LEMMA OrderOfLeg ==
  ASSUME SpreadInv, ex.at = "log", NEW leg \in Leg
  PROVE  /\ LegOid(leg) \in 1..Len(orders) /\ LegOid(leg) \in Range(Mine)
         /\ LegOid(leg) \in InHand
         /\ \/ orders[LegOid(leg)].kind = "combo"
            \/ /\ orders[LegOid(leg)].kind = "open" /\ orders[LegOid(leg)].leg = leg
               /\ orders[LegOid(leg)].side = Legs[leg]
<1>1. CASE ex.combo # 0
  <2>1. LegOid(leg) = ex.combo /\ Mine = <<ex.combo>> /\ ex.sent = <<>>
    BY <1>1, AllParts DEF LegOid, Mine, PlaceOK
  <2>2. ex.combo \in Range(<<ex.combo>>)
    BY DEF Range
  <2>3. ex.combo \in 1..Len(orders) /\ orders[ex.combo].kind = "combo"
    BY <1>1, AllParts DEF HandOK
  <2>4. ex.combo \in InHand
    BY <1>1 DEF InHand
  <2>. QED
    BY <2>1, <2>2, <2>3, <2>4
<1>2. CASE ex.combo = 0
  <2>1. LegOid(leg) = ex.sent[Position(leg)] /\ Mine = ex.sent /\ Len(ex.sent) = Len(Legs)
    BY <1>2, AllParts DEF LegOid, Mine, PlaceOK
  <2>2. Position(leg) \in Leg /\ Sequence[Position(leg)] = leg
    BY AllParts, PositionInverts DEF SpreadTypeOK
  <2>3. Position(leg) \in DOMAIN ex.sent
    BY <2>1, <2>2, AllParts
  <2>4. /\ LegOid(leg) \in 1..Len(orders) /\ orders[LegOid(leg)].kind = "open"
        /\ orders[LegOid(leg)].leg = leg /\ orders[LegOid(leg)].side = Legs[leg]
    BY <2>1, <2>2, <2>3, AllParts DEF HandOK
  <2>5. LegOid(leg) \in Range(ex.sent)
    BY <2>1, <2>3 DEF Range
  <2>. QED
    BY <2>1, <2>4, <2>5 DEF InHand
<1>. QED
  BY <1>1, <1>2

\* Every order in hand is that of some leg.
LEMMA HandIsOfLegs ==
  ASSUME SpreadInv, ex.at = "log", NEW o \in InHand
  PROVE  \E leg \in Leg : LegOid(leg) = o
<1>1. CASE ex.combo # 0
  <2>1. ex.sent = <<>> /\ Range(<<>>) = {}
    BY <1>1, AllParts DEF PlaceOK, Range
  <2>2. o = ex.combo
    BY <2>1 DEF InHand
  <2>3. 1 \in Leg /\ LegOid(1) = o
    BY <1>1, <2>2, AllParts DEF LegOid
  <2>. QED
    BY <2>3
<1>2. CASE ex.combo = 0
  <2>1. PICK j \in 1..Len(Legs) : o = ex.sent[j]
    BY <1>2, AllParts DEF InHand, PlaceOK, Range
  <2>2. Sequence[j] \in Leg /\ Position(Sequence[j]) = j
    BY <2>1, AllParts, PositionInverts DEF SpreadTypeOK
  <2>. QED
    BY <1>2, <2>1, <2>2 DEF LegOid
<1>. QED
  BY <1>1, <1>2

LEMMA LogLegKeeps ==
  ASSUME SpreadInv, UNCHANGED setup, LogLeg
  PROVE  SpreadInv' /\ (Sound => Custody!Next)
<1>1. /\ UNCHANGED <<orders, polling, halted, attempts>> /\ ex.at = "log" /\ ex.k \in Leg
      /\ polling = <<>>
  BY AllParts DEF LogLeg, PlaceOK
<1>2. PICK leg \in Leg : leg = ex.k
  BY <1>1
<1>3. PICK oid \in 1..Len(orders) :
        /\ oid = LegOid(leg) /\ oid \in Range(Mine) /\ oid \in InHand
        /\ \/ orders[oid].kind = "combo"
           \/ /\ orders[oid].kind = "open" /\ orders[oid].leg = leg
              /\ orders[oid].side = Legs[leg]
  BY <1>1, OrderOfLeg
<1>4. OrdersGo
  BY <1>1, AllParts, OrdersStay
<1>5. attempts' \in 0..MaxAttempts /\ halted' \in BOOLEAN
  BY <1>1, AsTyped
<1>6. PICK priced \in BOOLEAN :
        \/ /\ rows' = Append(rows, Row(leg, Legs[leg], oid, "open", priced, attempts))
           /\ ex' = IF leg = Len(Legs) THEN Idle
                    ELSE [ex EXCEPT !.k = @ + 1, !.seen = priced,
                                    !.logged = @ \union {Len(rows) + 1}]
           /\ Fine
        \/ /\ Fails("log") /\ ex' = [ex EXCEPT !.at = "cancel", !.k = 1]
           /\ UNCHANGED rows
  <2>1. oid = IF ex.combo # 0 THEN ex.combo ELSE ex.sent[Position(ex.k)]
    BY <1>2, <1>3 DEF LegOid
  <2>2. PICK done \in BOOLEAN : done <=> orders[oid].st = "filled"
    OBVIOUS
  <2>3. ex.seen \in BOOLEAN
    BY AllParts DEF Progress
  <2>. DEFINE p == IF ex.combo # 0 /\ ex.k > 1 THEN ex.seen ELSE orders[oid].st = "filled"
  <2>4. p \in BOOLEAN
    BY <2>3
  <2>5. \/ /\ rows' = Append(rows, Row(ex.k, Legs[ex.k], oid, "open", p, attempts))
           /\ ex' = IF ex.k = Len(Legs) THEN Idle
                    ELSE [ex EXCEPT !.k = @ + 1, !.seen = p,
                                    !.logged = @ \union {Len(rows) + 1}]
           /\ Fine
        \/ /\ Fails("log") /\ ex' = [ex EXCEPT !.at = "cancel", !.k = 1]
           /\ UNCHANGED rows
    BY <2>1 DEF LogLeg
  <2>. HIDE DEF p
  <2>. QED
    BY Zenon, <1>2, <2>4, <2>5
<1>7. CASE /\ rows' = Append(rows, Row(leg, Legs[leg], oid, "open", priced, attempts))
           /\ ex' = IF leg = Len(Legs) THEN Idle
                    ELSE [ex EXCEPT !.k = @ + 1, !.seen = priced,
                                    !.logged = @ \union {Len(rows) + 1}]
           /\ Fine
  <2>1. PICK r : r = Row(leg, Legs[leg], oid, "open", priced, attempts)
    OBVIOUS
  <2>2. r = [leg |-> leg, side |-> Legs[leg], oid |-> oid, st |-> "open", priced |-> priced,
             batch |-> attempts]
    BY <2>1 DEF Row
  <2>3. r \in RowRecord
    <3>1. Legs[leg] \in {"buy", "sell"} /\ oid \in Nat /\ attempts \in Int
      BY AllParts, AsTyped, SetupTyped DEF SpreadTypeOK
    <3>. QED
      BY <2>2, <3>1 DEF RowRecord
  <2>4. Fits(orders', r)
    <3>1. oid \in DOMAIN orders'
      BY <1>1, AllParts
    <3>. QED
      BY <1>1, <1>3, <2>2, <3>1 DEF Fits
  <2>5. /\ RowsGo /\ NoneVoided /\ VoidsEnded /\ Len(rows') = Len(rows) + 1
        /\ \A i \in 1..Len(rows) : rows'[i] = rows[i]
        /\ rows'[Len(rows) + 1] = r
    BY <1>7, <2>1, <2>2, <2>3, <2>4, AllParts, RowAdded
  <2>6. PICK n \in Nat : n = Len(rows) + 1
    BY AllParts
  <2>7. DOMAIN rows' = 1..n /\ n \in DOMAIN rows' /\ rows'[n] = r
        /\ \A i \in 1..n : i \in 1..Len(rows) \/ i = n
    BY <2>5, <2>6, LenProperties, AllParts DEF RowsGo
  <2>8. NamedIn(rows', oid)
    BY <2>2, <2>7 DEF NamedIn
  <2>9. ASSUME NEW x \in 1..leg
        PROVE  NamedIn(rows', LegOid(x))
    <3>1. CASE x = leg
      BY <1>3, <2>8, <3>1
    <3>2. CASE x # leg
      <4>1. Journaled(LegOid(x))
        BY <1>1, <1>2, <2>9, <3>2, AllParts DEF RecordOK
      <4>2. PICK o : o = LegOid(x)
        OBVIOUS
      <4>3. Journaled(o)'
        BY <1>4, <2>5, <4>1, <4>2, AllParts, JournaledAgain
      <4>. QED
        BY <4>2, <4>3 DEF Journaled, NamedIn
    <3>. QED
      BY <3>1, <3>2
  <2>10. used' \in 0..MaxFaults
    BY <1>7, AllParts, UsedTyped
  <2>11. CASE leg = Len(Legs)
    <3>1. SpreadInv' /\ HandOK' /\ InHand' = {}
      BY <1>1, <1>4, <1>5, <1>7, <2>5, <2>10, <2>11, AtRest, AtWork
    <3>2. ASSUME NEW o \in InHand PROVE NamedIn(rows', o)
      <4>1. PICK x \in Leg : LegOid(x) = o
        BY <1>1, HandIsOfLegs
      <4>2. x \in 1..leg
        BY <2>11, AllParts
      <4>. QED
        BY <2>9, <4>1, <4>2
    <3>3. Passed
      BY <1>1, <1>3, <2>2, <2>5, <2>6, <2>7, <3>1, <3>2 DEF Passed, NamedIn, Journaled
    <3>. QED
      BY <1>4, <2>5, <3>1, <3>3, PassedIsCustody
  <2>12. CASE leg # Len(Legs)
    <3>1. PICK k \in Leg : k = leg + 1
      BY <2>12, AllParts
    <3>2. ex' = [ex EXCEPT !.k = k, !.seen = priced, !.logged = ex.logged \cup {n}]
      BY <1>2, <1>7, <2>6, <2>12, <3>1
    <3>3. /\ ex' \in Progress /\ ex'.at = "log" /\ ex'.k = k /\ ex'.combo = ex.combo
          /\ ex'.sent = ex.sent /\ ex'.logged = ex.logged \cup {n} /\ ex'.bad = ex.bad
      <4>1. PICK logged : logged = ex.logged \cup {n}
        OBVIOUS
      <4>2. k \in Nat /\ ex \in Progress /\ ex.at = "log"
        BY <1>1, AllParts
      <4>3. logged \in SUBSET Nat
        BY <4>1, <4>2 DEF Progress
      <4>4. PICK e : e = [ex EXCEPT !.k = k, !.seen = priced, !.logged = logged]
        OBVIOUS
      <4>5. /\ e \in Progress /\ e.at = "log" /\ e.k = k /\ e.combo = ex.combo
            /\ e.sent = ex.sent /\ e.logged = logged /\ e.bad = ex.bad
        BY ONLY <4>2, <4>3, <4>4 DEF Progress
      <4>. QED
        BY <3>2, <4>1, <4>4, <4>5
    <3>4. PlaceOK'
      BY <1>1, <3>3, AllParts, SameRecords DEF PlaceOK
    <3>5. HandOK'
      <4>1. Mine' = Mine /\ Range(Mine)' = Range(Mine)
        BY <3>3 DEF Mine, Range
      <4>2. ASSUME NEW i \in ex.logged \cup {n}
            PROVE  i \in DOMAIN rows' /\ rows'[i].oid \in Range(Mine)
        <5>1. CASE i \in ex.logged
          <6>1. i \in 1..Len(rows) /\ rows[i].oid \in Range(Mine)
            BY <5>1, AllParts DEF HandOK
          <6>2. i \in 1..n
            BY <2>6, <6>1, AllParts
          <6>. QED
            BY <2>5, <2>7, <6>1, <6>2
        <5>2. CASE i = n
          BY <1>3, <2>2, <2>7, <5>2
        <5>. QED
          BY <5>1, <5>2
      <4>3. HandOK
        BY AllParts
      <4>. QED
        BY <1>1, <3>3, <4>1, <4>2, <4>3, SameRecords DEF HandOK
    <3>6. RecordOK'
      <4>1. \A x : LegOid(x)' = LegOid(x)
        BY <3>3, SameRecords DEF LegOid, Position
      <4>2. ASSUME NEW x \in 1..(k - 1)
            PROVE  Journaled(LegOid(x))'
        <5>1. x \in 1..leg
          BY <3>1, AllParts
        <5>2. NamedIn(rows', LegOid(x))
          BY <2>9, <5>1
        <5>. QED
          BY <4>1, <5>2 DEF Journaled, NamedIn
      <4>. QED
        BY <3>3, <4>2 DEF RecordOK
    <3>7. SpreadInv'
      BY <1>1, <1>4, <1>5, <2>5, <2>10, <3>3, <3>4, <3>5, <3>6, AtWork
    <3>8. InHand' = InHand
      BY <1>1, <3>3 DEF InHand, Range
    <3>9. Passed
      BY <1>1, <1>3, <2>2, <2>5, <2>6, <2>7, <3>8 DEF Passed
    <3>. QED
      BY <1>4, <2>5, <3>5, <3>7, <3>9, PassedIsCustody
  <2>. QED
    BY <2>11, <2>12
<1>8. CASE /\ Fails("log") /\ ex' = [ex EXCEPT !.at = "cancel", !.k = 1]
           /\ UNCHANGED rows
  <2>1. /\ ex' \in Progress /\ ex'.at = "cancel" /\ ex'.k = 1 /\ ex'.combo = ex.combo
        /\ ex'.sent = ex.sent /\ ex'.logged = ex.logged /\ ex'.bad = ex.bad
    BY <1>8, AllParts DEF Progress
  <2>2. RowsGo /\ NoneVoided /\ VoidsEnded
    BY <1>8, AllParts, RowsStay
  <2>3. HandOK' /\ Mine' = Mine
    BY <1>4, <2>1, <2>2, AllParts, HandAgain
  <2>4. Len(Mine) \in Nat /\ Len(Mine) > 0
    <3>1. CASE ex.combo # 0
      BY <3>1 DEF Mine
    <3>2. CASE ex.combo = 0
      BY <1>1, <3>2, AllParts DEF Mine, PlaceOK
    <3>. QED
      BY <3>1, <3>2
  <2>5. PlaceOK'
    <3>1. \/ ex.combo # 0 /\ ex.sent = <<>>
          \/ ex.combo = 0 /\ Len(ex.sent) = Len(Legs)
      BY <1>1, AllParts DEF PlaceOK
    <3>2. Len(Mine)' = Len(Mine)
      BY <2>3
    <3>. QED
      BY <1>1, <2>1, <2>4, <3>1, <3>2, SameRecords DEF PlaceOK
  <2>6. RecordOK'
    BY <2>1 DEF RecordOK
  <2>7. SpreadInv'
    BY <1>1, <1>4, <1>5, <1>8, <2>1, <2>2, <2>3, <2>5, <2>6, AllParts, UsedTyped, AtWork
  <2>8. InHand' = InHand
    BY <1>1, <2>1 DEF InHand, Range
  <2>9. Passed
    BY <1>1, <1>8, <2>2, <2>8 DEF Passed
  <2>. QED
    BY <1>4, <2>2, <2>3, <2>7, <2>9, PassedIsCustody
<1>. QED
  BY <1>6, <1>7, <1>8

LEMMA CancelOrderKeeps ==
  ASSUME SpreadInv, UNCHANGED setup, CancelOrder
  PROVE  SpreadInv' /\ (Sound => Custody!Next)
<1>1. /\ UNCHANGED <<rows, polling, halted, attempts>> /\ ex.at = "cancel"
      /\ polling = <<>> /\ ex.k \in 1..Len(Mine)
  BY AllParts DEF CancelOrder, PlaceOK
<1>2. /\ Len(Mine) \in Nat /\ \A j \in 1..Len(Mine) : Mine[j] \in 1..Len(orders)
      /\ 1..(ex.k - 1) \subseteq 1..Len(Mine) /\ ex.k \in Nat
  BY <1>1, AllParts, MineKnown
<1>3. PICK oid \in 1..Len(orders) : oid = Mine[ex.k]
  BY <1>1, <1>2
<1>4. PICK now \in {"working", "filled", "dead"} :
        /\ now = IF orders[oid].st = "working" THEN "dead" ELSE orders[oid].st
        /\ orders[oid].st = "dead" => now = "dead"
        /\ now = "dead" \/ orders[oid].st = "filled"
  <2>1. orders[oid] \in OrderRecord
    BY AllParts, Domains
  <2>. QED
    BY <2>1 DEF OrderRecord
<1>5. PICK read \in SUBSET {oid} :
        read = {oid} \intersect {i \in DOMAIN orders : orders[i].st = "filled"}
  OBVIOUS
<1>6. PICK fs \in SUBSET {oid}, failed \in BOOLEAN :
        /\ ex' = [ex EXCEPT !.at = IF ex.k < Len(Mine) THEN @ ELSE "mark", !.k = @ + 1,
                            !.filled = @ \union fs, !.bad = @ \/ failed]
        /\ \/ /\ orders' = [orders EXCEPT ![oid].st = now] /\ ~failed
              /\ orders[oid].st = "filled" => oid \in fs
              /\ Fine \/ Fails("read")
           \/ Fails("cancel") /\ UNCHANGED orders
  <2>1. Mine = IF ex.combo # 0 THEN <<ex.combo>> ELSE ex.sent
    BY DEF Mine
  <2>2. PICK mine : mine = Mine
    OBVIOUS
  <2>. DEFINE dead == [orders EXCEPT ![oid].st = IF @ = "working" THEN "dead" ELSE @]
              next(s, failed) ==
               [ex EXCEPT !.at = IF ex.k < Len(Mine) THEN @ ELSE "mark", !.k = @ + 1,
                          !.filled = @ \union s, !.bad = @ \/ failed]
  <2>3. \/ orders' = dead /\ ex' = next(read, FALSE) /\ Fine
        \/ Fails("read") /\ orders' = dead /\ ex' = next({oid}, FALSE)
        \/ Fails("cancel") /\ ex' = next(read, TRUE) /\ UNCHANGED orders
    BY Zenon, <1>3, <1>5 DEF CancelOrder, Mine
  <2>4. dead = [orders EXCEPT ![oid].st = now]
    BY <1>4
  <2>5. orders[oid].st = "filled" => oid \in read
    BY <1>5, AllParts
  <2>. HIDE DEF dead
  <2>6. CASE orders' = dead /\ ex' = next(read, FALSE) /\ Fine
    BY Zenon, <2>4, <2>5, <2>6
  <2>7. CASE Fails("read") /\ orders' = dead /\ ex' = next({oid}, FALSE)
    BY Zenon, <2>4, <2>7
  <2>8. CASE Fails("cancel") /\ ex' = next(read, TRUE) /\ UNCHANGED orders
    BY Zenon, <2>8
  <2>. QED
    BY Zenon, <2>3, <2>6, <2>7, <2>8
<1>7. /\ ex' \in Progress /\ ex'.at = (IF ex.k < Len(Mine) THEN "cancel" ELSE "mark")
      /\ ex'.k = ex.k + 1 /\ ex'.combo = ex.combo /\ ex'.sent = ex.sent
      /\ ex'.logged = ex.logged /\ ex'.filled = ex.filled \cup fs
      /\ ex'.bad = (ex.bad \/ failed)
  <2>1. PICK at \in {"cancel", "mark"} : at = IF ex.k < Len(Mine) THEN "cancel" ELSE "mark"
    OBVIOUS
  <2>2. PICK k \in Nat : k = ex.k + 1
    BY <1>2
  <2>3. PICK filled : filled = ex.filled \cup fs
    OBVIOUS
  <2>4. ex \in Progress /\ filled \in SUBSET Nat /\ ex.bad \in BOOLEAN
    <3>1. ex \in Progress /\ oid \in Nat
      BY AllParts
    <3>2. ex.filled \in SUBSET Nat /\ ex.bad \in BOOLEAN
      BY <3>1 DEF Progress
    <3>. QED
      BY <2>3, <3>1, <3>2
  <2>5. PICK bad \in BOOLEAN : bad = (ex.bad \/ failed)
    BY <2>4
  <2>6. PICK e : e = [ex EXCEPT !.at = at, !.k = k, !.filled = filled, !.bad = bad]
    OBVIOUS
  <2>7. /\ e \in Progress /\ e.at = at /\ e.k = k /\ e.combo = ex.combo /\ e.sent = ex.sent
        /\ e.logged = ex.logged /\ e.filled = filled /\ e.bad = bad
    BY ONLY <2>1, <2>2, <2>4, <2>5, <2>6 DEF Progress
  <2>8. ex' = e
    BY <1>1, <1>6, <2>1, <2>2, <2>3, <2>5, <2>6
  <2>. QED
    BY <2>1, <2>2, <2>3, <2>5, <2>7, <2>8
<1>8. RowsGo /\ NoneVoided /\ VoidsEnded
  BY <1>1, AllParts, RowsStay
<1>9. OrdersGo
  <2>1. CASE orders' = [orders EXCEPT ![oid].st = now]
    BY <1>4, <2>1, AllParts, OrderMoves
  <2>2. CASE UNCHANGED orders
    BY <2>2, AllParts, OrdersStay
  <2>. QED
    BY <1>6, <2>1, <2>2
<1>10. used' \in 0..MaxFaults
  BY <1>6, AllParts, UsedTyped
<1>11. HandOK' /\ Mine' = Mine
  BY <1>7, <1>8, <1>9, AllParts, HandAgain
<1>12. PlaceOK'
  <2>1. ex.k < Len(Mine) => ex.k + 1 \in 1..Len(Mine)
    BY <1>1, <1>2
  <2>2. ~(ex.k < Len(Mine)) => ex.k + 1 = Len(Mine) + 1
    BY <1>1, <1>2
  <2>3. \/ ex.combo # 0 /\ ex.sent = <<>>
        \/ ex.combo = 0 /\ Len(ex.sent) = Len(Legs)
    BY <1>1, AllParts DEF PlaceOK
  <2>4. Len(Mine)' = Len(Mine)
    BY <1>11
  <2>. QED
    BY <1>1, <1>7, <2>1, <2>2, <2>3, <2>4, SameRecords DEF PlaceOK
<1>13. RecordOK'
  BY <1>7 DEF RecordOK
<1>14. VoidOK'
  <2>. SUFFICES ASSUME "cancel" \notin Faults
                PROVE  /\ \A i \in DOMAIN rows' :
                            rows'[i].st = "dead" => orders'[rows'[i].oid].st = "dead"
                       /\ ~ex'.bad
                       /\ \A j \in 1..(ex'.k - 1) :
                            orders'[Mine'[j]].st = "dead" \/ Mine'[j] \in ex'.filled
    BY SameRecords DEF VoidOK
  <2>1. /\ ~ex.bad
        /\ \A i \in DOMAIN rows : rows[i].st = "dead" => orders[rows[i].oid].st = "dead"
        /\ \A j \in 1..(ex.k - 1) : orders[Mine[j]].st = "dead" \/ Mine[j] \in ex.filled
    BY <1>1, AllParts DEF VoidOK
  <2>2. /\ orders' = [orders EXCEPT ![oid].st = now] /\ ~failed
        /\ orders[oid].st = "filled" => oid \in fs
    BY <1>6 DEF Fails
  <2>3. orders'[oid].st = now
    BY <2>2, AllParts
  <2>4. ASSUME NEW i \in DOMAIN rows', rows'[i].st = "dead"
        PROVE  orders'[rows'[i].oid].st = "dead"
    <3>1. i \in 1..Len(rows) /\ rows[i].st = "dead" /\ rows[i].oid \in 1..Len(orders)
          /\ rows'[i].oid = rows[i].oid
      BY <1>1, <2>4, AllParts, Domains
    <3>2. orders[rows[i].oid].st = "dead"
      BY <2>1, <3>1, AllParts
    <3>. QED
      BY <1>9, <3>1, <3>2 DEF OrdersGo
  <2>5. ASSUME NEW j \in 1..ex.k
        PROVE  orders'[Mine[j]].st = "dead" \/ Mine[j] \in ex.filled \cup fs
    <3>1. CASE j = ex.k
      BY <1>3, <1>4, <2>2, <2>3, <3>1
    <3>2. CASE j # ex.k
      <4>1. j \in 1..(ex.k - 1)
        BY <1>2, <2>5, <3>2
      <4>2. PICK o \in 1..Len(orders) : o = Mine[j]
        BY <1>2, <4>1
      <4>. QED
        BY <1>9, <2>1, <4>1, <4>2 DEF OrdersGo
    <3>. QED
      BY <3>1, <3>2
  <2>6. \A j \in 1..(ex'.k - 1) : j \in 1..ex.k
    BY <1>2, <1>7
  <2>. QED
    BY <1>7, <1>11, <2>1, <2>2, <2>4, <2>5, <2>6
<1>15. SpreadInv'
  BY <1>1, <1>7, <1>8, <1>9, <1>10, <1>11, <1>12, <1>13, <1>14, AsTyped, InvAgain
<1>16. InHand' = InHand
  BY <1>1, <1>7 DEF InHand, Range
<1>17. Len(orders') = Len(orders)
  <2>1. CASE orders' = [orders EXCEPT ![oid].st = now]
    BY <1>4, <2>1, AllParts, OrderMoves
  <2>2. CASE UNCHANGED orders
    BY <2>2
  <2>. QED
    BY <1>6, <2>1, <2>2
<1>18. Passed
  BY <1>1, <1>8, <1>16, <1>17 DEF Passed
<1>. QED
  BY <1>8, <1>9, <1>11, <1>15, <1>18, PassedIsCustody

LEMMA MarkLegsKeeps ==
  ASSUME SpreadInv, UNCHANGED setup, MarkLegs
  PROVE  SpreadInv' /\ (Sound => Custody!Next)
<1>1. /\ UNCHANGED <<orders, polling, attempts, used>> /\ ex.at = "mark" /\ halted' = TRUE
      /\ ex' = Idle /\ polling = <<>> /\ ex.k = Len(Mine) + 1
      /\ rows' = LegsVoided(IF ex.bad THEN {} ELSE ex.filled)
  BY AllParts DEF MarkLegs, PlaceOK
<1>2. PICK kept : kept = IF ex.bad THEN {} ELSE ex.filled
  OBVIOUS
<1>3. ASSUME NEW i \in 1..Len(rows)
      PROVE  /\ rows'[i] \in RowRecord /\ rows'[i].leg = rows[i].leg
             /\ rows'[i].side = rows[i].side /\ rows'[i].oid = rows[i].oid
             /\ rows[i].st = "dead" => rows'[i].st = "dead"
             /\ rows'[i].st = "dead" =>
                  rows[i].st = "dead" \/ (i \in ex.logged /\ rows[i].oid \notin kept)
  <2>1. PICK q : q = rows[i] /\ q \in RowRecord
    BY AllParts, Domains
  <2>2. CASE i \in ex.logged /\ rows[i].oid \notin kept
    <3>1. rows'[i] = [q EXCEPT !.st = "dead"]
      BY <1>1, <1>2, <2>1, <2>2, AllParts DEF LegsVoided
    <3>2. /\ rows'[i] \in RowRecord /\ rows'[i].st = "dead" /\ rows'[i].leg = q.leg
          /\ rows'[i].side = q.side /\ rows'[i].oid = q.oid
      BY <2>1, <3>1, RowWith
    <3>. QED
      BY <2>1, <2>2, <3>2
  <2>3. CASE ~(i \in ex.logged /\ rows[i].oid \notin kept)
    <3>1. rows'[i] = rows[i]
      BY <1>1, <1>2, <2>3, AllParts DEF LegsVoided
    <3>. QED
      BY <2>1, <3>1
  <2>. QED
    BY <2>2, <2>3
<1>4. rows' \in [DOMAIN rows -> RowRecord]
  <2>1. rows' = [i \in DOMAIN rows |-> rows'[i]]
    BY <1>1 DEF LegsVoided
  <2>. QED
    BY <1>3, <2>1, AllParts
<1>5. RowsGo /\ Len(rows') = Len(rows)
  BY <1>3, <1>4, AllParts, RowsRestated
<1>6. OrdersGo
  BY <1>1, AllParts, OrdersStay
<1>7. "cancel" \notin Faults => VoidsEnded
  <2>. SUFFICES ASSUME "cancel" \notin Faults, NEW i \in 1..Len(rows),
                       i \in ex.logged, rows[i].oid \notin kept
                PROVE  orders[rows[i].oid].st = "dead"
    BY <1>3 DEF VoidsEnded
  <2>1. kept = ex.filled
    BY <1>2, AllParts DEF VoidOK
  <2>2. rows[i].oid \in Range(Mine)
    BY AllParts DEF HandOK
  <2>3. PICK j \in 1..Len(Mine) : rows[i].oid = Mine[j]
    BY <2>2, AllParts, MineKnown DEF Range
  <2>4. j \in 1..(ex.k - 1)
    BY <1>1, <2>3, AllParts, MineKnown
  <2>5. orders[Mine[j]].st = "dead" \/ Mine[j] \in ex.filled
    BY <1>1, <2>4, AllParts DEF VoidOK
  <2>. QED
    BY <2>1, <2>3, <2>5
<1>8. PlaceOK' /\ HandOK' /\ RecordOK' /\ InHand' = {} /\ ex' \in Progress
      /\ ex'.at = "idle" /\ ex'.bad = FALSE
  BY <1>1, AtRest
<1>9. VoidOK'
  BY <1>5, <1>6, <1>7, <1>8, AllParts, VoidAgain
<1>10. polling' \in Seq({Sweep} \cup DOMAIN rows) /\ halted' \in BOOLEAN
       /\ used' \in 0..MaxFaults /\ attempts' \in 0..MaxAttempts
  BY <1>1, AsTyped
<1>11. SpreadInv'
  BY <1>5, <1>6, <1>8, <1>9, <1>10, InvAgain
<1>12. Passed
  BY <1>1, <1>3, <1>5, <1>8 DEF Passed
<1>. QED
  BY <1>5, <1>6, <1>8, <1>11, <1>12, PassedIsCustody

-----------------------------------------------------------------------------
(* The theorems.                                                           *)

LEMMA InvFirst ==
  ASSUME SpreadInit
  PROVE  SpreadInv
<1>1. /\ setup \in Setups /\ orders = <<>> /\ rows = <<>> /\ ex = Idle /\ polling = <<>>
      /\ halted = FALSE /\ attempts = 0 /\ used = 0
  BY DEF SpreadInit
<1>2. MaxFaults \in Nat /\ MaxAttempts \in Nat
  BY <1>1, SetupTyped
<1>3. DOMAIN orders = {} /\ DOMAIN rows = {}
  BY <1>1
<1>4. orders \in Seq(OrderRecord) /\ rows \in Seq(RowRecord)
      /\ polling \in Seq({Sweep} \cup DOMAIN rows)
  BY <1>1, EmptySeq
<1>5. SpreadTypeOK
  <2>1. used \in 0..MaxFaults /\ attempts \in 0..MaxAttempts /\ halted \in BOOLEAN
    <3>1. used = 0 /\ attempts = 0 /\ halted = FALSE
      BY <1>1
    <3>2. 0 \in 0..MaxFaults /\ 0 \in 0..MaxAttempts
      BY <1>2
    <3>. QED
      BY <3>1, <3>2
  <2>2. ex \in Progress
    BY <1>1, IdleTyped
  <2>3. \A i \in DOMAIN rows : rows[i].oid \in DOMAIN orders
    BY <1>3
  <2>. QED
    BY <1>1, <1>4, <2>1, <2>2, <2>3 DEF SpreadTypeOK
<1>6. PlaceOK /\ RecordOK
  BY <1>1, IdleTyped DEF PlaceOK, RecordOK
<1>7. HandOK
  <2>1. DOMAIN ex.sent = {}
    BY <1>1, IdleTyped
  <2>. QED
    BY <1>1, <2>1, IdleTyped DEF HandOK
<1>8. OrdersOK /\ RowsFit /\ VoidOK
  BY <1>1, <1>3, IdleTyped DEF OrdersOK, RowsFit, VoidOK
<1>. QED
  BY <1>5, <1>6, <1>7, <1>8 DEF SpreadInv

LEMMA StepKeeps ==
  ASSUME SpreadInv, SpreadNext
  PROVE  SpreadInv' /\ (Sound => Custody!Next)
<1>1. UNCHANGED setup
  BY DEF SpreadNext
<1>2. CASE Execute
  BY <1>1, <1>2, ProposeKeeps, SubmitComboKeeps, SubmitLegKeeps, UndoLegKeeps, SkipLegKeeps,
     LogLegKeeps, CancelOrderKeeps, MarkLegsKeeps DEF Execute
<1>3. CASE Settle
  BY <1>1, <1>3, StartUpdateKeeps, VoidRowKeeps, FillRowKeeps, PassRowKeeps, ResurrectKeeps
     DEF Settle
<1>4. CASE Broker
  BY <1>1, <1>4, BrokerFillKeeps, BrokerEndKeeps DEF Broker
<1>5. CASE \E i \in DOMAIN rows : Backstop(i)
  BY <1>1, <1>5, BackstopKeeps
<1>. QED
  BY <1>2, <1>3, <1>4, <1>5 DEF SpreadNext

LEMMA StutterKeeps ==
  ASSUME SpreadInv, UNCHANGED spreadVars
  PROVE  SpreadInv'
<1>1. UNCHANGED <<setup, orders, rows, ex, polling, halted, attempts, used>>
  BY DEF spreadVars, spread
<1>2. OrdersGo /\ RowsGo /\ NoneVoided /\ VoidsEnded
  BY <1>1, AllParts, OrdersStay, RowsStay
<1>. QED
  BY <1>1, <1>2, AsTyped, InPlace

LEMMA SpreadInvariant == SpreadSpec => []SpreadInv
<1>1. SpreadInit => SpreadInv
  BY InvFirst
<1>2. SpreadInv /\ [SpreadNext]_spreadVars => SpreadInv'
  BY StepKeeps, StutterKeeps
<1>. QED
  BY <1>1, <1>2, PTL DEF SpreadSpec

\* Orders, rows and the executor stay well formed, and every row names an
\* order the broker has, whatever fails.
THEOREM SpreadTyped == SpreadSpec => []SpreadTypeOK
<1>1. SpreadInv => SpreadTypeOK
  BY DEF SpreadInv
<1>. QED
  BY <1>1, SpreadInvariant, PTL

\* Whatever fails, in every spread, a row is of an order that carries its leg
\* on its side; and unless a cancel fails no voided row hides a fill.
THEOREM RowsAlwaysFit == SpreadSpec => []RowsFitOrders
<1>1. ASSUME SpreadInv
      PROVE  RowsFitOrders
  <2>1. RowsMatchOrders
    BY <1>1 DEF SpreadInv, RowsFit, Fits, RowsMatchOrders, Carries, SideOn
  <2>2. VoidedIsUnfilled
    BY <1>1 DEF SpreadInv, VoidOK, VoidedIsUnfilled
  <2>. QED
    BY <2>1, <2>2 DEF RowsFitOrders
<1>. QED
  BY <1>1, SpreadInvariant, PTL

\* The executor, its two roll-backs and the tasks that settle the rows pass
\* every order on, or raise the alarm.
THEOREM SpreadImplementsCustody == SpreadSpec => KeepsCustody
<1>1. SpreadInit => (Sound => Custody!Init)
  <2>1. ASSUME SpreadInit
        PROVE  Custody!Init
    <3>1. DOMAIN orders = {} /\ DOMAIN rows = {} /\ ex.at = "idle" /\ halted = FALSE
      BY <2>1, IdleTyped DEF SpreadInit
    <3>. QED
      BY <3>1 DEF Custody!Init, InHand
  <2>. QED
    BY <2>1
<1>2. SpreadInv /\ [SpreadNext]_spreadVars => [Sound => Custody!Next]_spreadVars
  BY StepKeeps
<1>. QED
  BY <1>1, <1>2, SpreadInvariant, PTL DEF SpreadSpec, KeepsCustody

Promise == INSTANCE OrderCustodyProofs WITH
    sent <- DOMAIN orders,
    empty <- {oid \in DOMAIN orders : orders[oid].st = "dead"},
    inHand <- InHand,
    onRecord <- {oid \in DOMAIN orders : Journaled(oid)},
    alarm <- halted

\* In a spread whose failures the code answers, every order that may have
\* filled is in the executor's hand or named by a row that is not voided,
\* until the profile is halted.
SpreadAnswered ==
  \A oid \in DOMAIN orders :
    orders[oid].st # "dead" => halted \/ oid \in InHand \/ Journaled(oid)
THEOREM NoSpreadOrderLost == SpreadSpec /\ Sound => []SpreadAnswered
<1>1. ASSUME SpreadInit PROVE Promise!Init
  <2>1. DOMAIN orders = {} /\ DOMAIN rows = {} /\ ex.at = "idle" /\ halted = FALSE
    BY <1>1, IdleTyped DEF SpreadInit
  <2>. QED
    BY <2>1 DEF Promise!Init, InHand
<1>2. ASSUME Sound, [SpreadNext]_spreadVars PROVE Sound'
  <2>1. UNCHANGED setup
    BY <1>2 DEF SpreadNext, spreadVars
  <2>. QED
    BY <1>2, <2>1, SameRecords
<1>3. ASSUME Sound, SpreadInv, [SpreadNext]_spreadVars
      PROVE  [Promise!Next]_(Promise!vars)
  <2>1. CASE SpreadNext
    <3>1. Custody!Next
      BY <1>3, <2>1, StepKeeps
    <3>. QED
      BY <3>1 DEF Custody!Next, Custody!BrokerGoesOn, Custody!NothingInvented,
                  Custody!NothingDropped, Custody!Raised, Custody!Answered, Custody!New,
                  Promise!Next, Promise!BrokerGoesOn, Promise!NothingInvented,
                  Promise!NothingDropped, Promise!Raised, Promise!Answered, Promise!New
  <2>2. CASE UNCHANGED spreadVars
    BY <2>2 DEF spreadVars, spread, Promise!vars, InHand, Journaled, Range
  <2>. QED
    BY <1>3, <2>1, <2>2
<1>4. Promise!Answerable => SpreadAnswered
  BY DEF Promise!Answerable, Promise!Answered, SpreadAnswered
<1>5. Promise!Spec => []Promise!Answerable
  BY Promise!EveryOrderAnswered
<1>. QED
  BY <1>1, <1>2, <1>3, <1>4, <1>5, SpreadInvariant, PTL DEF SpreadSpec, Promise!Spec

=============================================================================

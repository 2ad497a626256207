---------------------------- MODULE ProtectionProofs ----------------------------
(* What the protective orders of a position promise, for every value of the   *)
(* constants: the shape of the books, the pointers and the chains of replaced *)
(* orders, whatever fails; and, on what the code relies on, that one sell     *)
(* order at a time reserves the shares and no sweep takes a stop away without *)
(* another.                                                                   *)
EXTENDS SchedulerProofs

LEMMA ProtectMoves == ASSUME [Next]_vars PROVE [Protect!Next]_Protect!vars
BY DEF Next, vars, rest, protect, Protect!vars, Protect!fixed, Protect!books, RiskStep, HaltsStep,
       ProvidersStep, CostsStep, StatusesStep, CycleStep, WatchStep, BusStep, ExpiryStep,
       EventsStep, ProtectStep

-----------------------------------------------------------------------------
(* Protective orders.  Without is a recursive function over a row's place; it *)
(* exists, and what it keeps follows place by place.                          *)

IsKept(g, p, S, n) ==
    g = [m \in 0..n |-> IF m = 0 THEN <<>>
                        ELSE IF p[m] \in S THEN g[m - 1] ELSE Append(g[m - 1], p[m])]
KeptOf(p, S) == CHOOSE g : IsKept(g, p, S, Len(p))

LEMMA WithoutIs == ASSUME NEW p, NEW S PROVE Protect!Without(p, S) = KeptOf(p, S)[Len(p)]
BY DEF Protect!Without, KeptOf, IsKept

LEMMA KeptExists ==
    ASSUME NEW p, NEW S, NEW k \in Nat
    PROVE  \E g : IsKept(g, p, S, k)
<1> DEFINE Bad == {n \in Nat : ~ \E g : IsKept(g, p, S, n)}
<1> SUFFICES ASSUME Bad # {} PROVE FALSE
  OBVIOUS
<1>1. PICK n \in Bad : \A m \in Bad : n <= m
  <2>1. Bad \subseteq Nat
    OBVIOUS
  <2> HIDE DEF Bad
  <2> QED BY <2>1, LeastOf
<1>2. n \in Nat /\ ~ \E g : IsKept(g, p, S, n)
  OBVIOUS
<1>3. CASE n = 0
  <2> DEFINE g == [m \in 0..0 |-> <<>>]
  <2>1. IsKept(g, p, S, 0)
    BY DEF IsKept
  <2> QED BY <1>2, <1>3, <2>1
<1>4. CASE n # 0
  <2>1. n - 1 \in Nat /\ n - 1 \notin Bad
    <3> HIDE DEF Bad
    <3> QED BY <1>1, <1>2, <1>4
  <2>2. PICK h : IsKept(h, p, S, n - 1)
    BY <2>1
  <2> DEFINE step == IF p[n] \in S THEN h[n - 1] ELSE Append(h[n - 1], p[n])
             g == [m \in 0..n |-> IF m = n THEN step ELSE h[m]]
  <2>3. \A m \in 0..(n - 1) : g[m] = h[m]
    BY <1>2
  <2>4. ASSUME NEW m \in 0..n
        PROVE  g[m] = IF m = 0 THEN <<>>
                      ELSE IF p[m] \in S THEN g[m - 1] ELSE Append(g[m - 1], p[m])
    <3>1. CASE m = n
      <4>1. g[m] = step /\ g[m - 1] = h[m - 1]
        BY <1>2, <1>4, <2>3, <3>1
      <4> HIDE DEF g
      <4> QED BY <1>4, <3>1, <4>1
    <3>2. CASE m # n
      <4>1. m \in 0..(n - 1) /\ (m # 0 => m - 1 \in 0..(n - 1))
        BY <1>2, <3>2
      <4>2. h[m] = IF m = 0 THEN <<>>
                   ELSE IF p[m] \in S THEN h[m - 1] ELSE Append(h[m - 1], p[m])
        BY <2>2, <4>1 DEF IsKept
      <4> HIDE DEF g
      <4> QED BY <2>3, <4>1, <4>2
    <3> QED BY <3>1, <3>2
  <2>5. IsKept(g, p, S, n)
    <3>1. g = [m \in 0..n |-> g[m]]
      OBVIOUS
    <3> HIDE DEF g
    <3> QED BY <2>4, <3>1 DEF IsKept
  <2> QED BY <1>2, <2>5
<1> QED BY <1>3, <1>4

LEMMA KeptSteps ==
    ASSUME NEW T, NEW p \in Seq(T), NEW S
    PROVE  /\ KeptOf(p, S)[0] = <<>>
           /\ \A n \in 1..Len(p) :
                 KeptOf(p, S)[n] = IF p[n] \in S THEN KeptOf(p, S)[n - 1]
                                   ELSE Append(KeptOf(p, S)[n - 1], p[n])
<1> DEFINE g == KeptOf(p, S)
<1>1. Len(p) \in Nat
  BY LenProperties
<1>2. IsKept(g, p, S, Len(p))
  BY <1>1, KeptExists DEF KeptOf
<1> HIDE DEF g
<1>3. \A n \in 0..Len(p) : g[n] = IF n = 0 THEN <<>>
                                  ELSE IF p[n] \in S THEN g[n - 1] ELSE Append(g[n - 1], p[n])
  BY <1>2 DEF IsKept
<1>4. g[0] = <<>> /\ \A n \in 1..Len(p) : g[n] = IF p[n] \in S THEN g[n - 1]
                                                 ELSE Append(g[n - 1], p[n])
  BY <1>1, <1>3
<1> QED BY <1>4 DEF g

\* What the first n rows come to.
Keeps(s, p, S, T, n) ==
    /\ s \in Seq(T)
    /\ \A x : x \in Protect!ToSet(s) <=> x \notin S /\ \E i \in 1..n : x = p[i]
    /\ Protect!IsInjective(p) => Protect!IsInjective(s)
    /\ n > 0 /\ p[n] \notin S => s # <<>> /\ Protect!Last(s) = p[n]

LEMMA KeepsStep ==
    ASSUME NEW T, NEW p \in Seq(T), NEW S, NEW n \in 1..Len(p), NEW s,
           Keeps(s, p, S, T, n - 1)
    PROVE  Keeps(IF p[n] \in S THEN s ELSE Append(s, p[n]), p, S, T, n)
<1> USE DEF Keeps
<1>1. Len(p) \in Nat /\ DOMAIN p = 1..Len(p) /\ p[n] \in T
  BY LenProperties, ElementOfSeq
<1>2. CASE p[n] \in S
  <2>1. \A x : (x \notin S /\ \E i \in 1..n : x = p[i])
               <=> (x \notin S /\ \E i \in 1..(n - 1) : x = p[i])
    <3>1. \A i \in 1..n : i = n \/ i \in 1..(n - 1)
      BY <1>1
    <3>2. \A i \in 1..(n - 1) : i \in 1..n
      BY <1>1
    <3> QED BY <1>2, <3>1, <3>2
  <2> QED BY <1>1, <1>2, <2>1
<1>3. CASE p[n] \notin S
  <2> DEFINE t == Append(s, p[n])
  <2>1. /\ t \in Seq(T) /\ Len(t) = Len(s) + 1 /\ Len(s) \in Nat
        /\ \A i \in 1..Len(s) : t[i] = s[i]
        /\ t[Len(s) + 1] = p[n]
        /\ DOMAIN s = 1..Len(s) /\ DOMAIN t = 1..(Len(s) + 1)
    BY <1>1, AppendProperties, LenProperties
  <2> HIDE DEF t
  <2>2. \A i : i \in DOMAIN t <=> i \in DOMAIN s \/ i = Len(s) + 1
    BY <2>1
  <2>3. \A x : x \in Protect!ToSet(t) <=> x \in Protect!ToSet(s) \/ x = p[n]
    BY <2>1, <2>2 DEF Protect!ToSet
  <2>4. \A i : i \in 1..n <=> i \in 1..(n - 1) \/ i = n
    BY <1>1
  <2>5. \A x : x \in Protect!ToSet(t) <=> x \notin S /\ \E i \in 1..n : x = p[i]
    BY <1>3, <2>3, <2>4
  <2>6. ASSUME Protect!IsInjective(p) PROVE Protect!IsInjective(t)
    <3>1. p[n] \notin Protect!ToSet(s)
      <4> SUFFICES ASSUME p[n] \in Protect!ToSet(s) PROVE FALSE
        OBVIOUS
      <4>1. PICK i \in 1..(n - 1) : p[n] = p[i]
        OBVIOUS
      <4>2. i \in DOMAIN p /\ n \in DOMAIN p /\ i # n
        BY <1>1
      <4> QED BY <2>6, <4>1, <4>2 DEF Protect!IsInjective
    <3>2. \A i \in DOMAIN s : s[i] # p[n]
      BY <3>1 DEF Protect!ToSet
    <3> QED BY <2>1, <2>2, <2>6, <3>2 DEF Protect!IsInjective
  <2>7. t # <<>> /\ Protect!Last(t) = p[n]
    BY <2>1, EmptySeq DEF Protect!Last
  <2> QED BY <1>3, <2>1, <2>5, <2>6, <2>7 DEF t
<1> QED BY <1>2, <1>3

LEMMA WithoutKeeps ==
    ASSUME NEW T, NEW p \in Seq(T), NEW S
    PROVE  /\ Protect!Without(p, S) \in Seq(T)
           /\ Protect!ToSet(Protect!Without(p, S)) = Protect!ToSet(p) \ S
           /\ Protect!IsInjective(p) => Protect!IsInjective(Protect!Without(p, S))
           /\ p # <<>> /\ Protect!Last(p) \notin S =>
                 /\ Protect!Without(p, S) # <<>>
                 /\ Protect!Last(Protect!Without(p, S)) = Protect!Last(p)
<1> DEFINE g == KeptOf(p, S)
           Bad == {n \in 0..Len(p) : ~Keeps(g[n], p, S, T, n)}
<1>1. Len(p) \in Nat /\ DOMAIN p = 1..Len(p)
  BY LenProperties
<1>2. /\ g[0] = <<>>
      /\ \A n \in 1..Len(p) : g[n] = IF p[n] \in S THEN g[n - 1] ELSE Append(g[n - 1], p[n])
  BY KeptSteps
<1> HIDE DEF g
<1>3. Bad = {}
  <2> SUFFICES ASSUME Bad # {} PROVE FALSE
    OBVIOUS
  <2>1. PICK n \in Bad : \A m \in Bad : n <= m
    <3>1. Bad \subseteq Nat
      BY <1>1
    <3> HIDE DEF Bad
    <3> QED BY <3>1, LeastOf
  <2>2. n \in 0..Len(p) /\ ~Keeps(g[n], p, S, T, n)
    OBVIOUS
  <2>3. CASE n = 0
    <3>1. Keeps(<<>>, p, S, T, 0)
      BY EmptySeq DEF Keeps, Protect!ToSet, Protect!IsInjective
    <3> QED BY <1>2, <2>2, <2>3, <3>1
  <2>4. CASE n # 0
    <3>1. n - 1 \in 0..Len(p) /\ n \in 1..Len(p) /\ n - 1 \notin Bad
      <4>1. n - 1 \in 0..Len(p) /\ n \in 1..Len(p)
        BY <1>1, <2>2, <2>4
      <4> HIDE DEF Bad
      <4> QED BY <2>1, <4>1
    <3>2. Keeps(g[n - 1], p, S, T, n - 1)
      BY <3>1
    <3> QED BY <1>2, <2>2, <3>1, <3>2, KeepsStep
  <2> QED BY <2>3, <2>4
<1>4. Keeps(g[Len(p)], p, S, T, Len(p))
  BY <1>1, <1>3
<1>5. Protect!Without(p, S) = g[Len(p)]
  BY WithoutIs DEF g
<1>6. Protect!ToSet(Protect!Without(p, S)) = Protect!ToSet(p) \ S
  <2>1. \A x : x \in Protect!ToSet(g[Len(p)]) <=> x \notin S /\ \E i \in 1..Len(p) : x = p[i]
    BY <1>4 DEF Keeps
  <2>2. \A x : x \in Protect!ToSet(p) <=> \E i \in 1..Len(p) : x = p[i]
    BY <1>1 DEF Protect!ToSet
  <2> QED BY <1>5, <2>1, <2>2
<1>7. p # <<>> => Len(p) > 0 /\ Protect!Last(p) = p[Len(p)]
  BY <1>1, EmptySeq DEF Protect!Last
<1> QED BY <1>4, <1>5, <1>6, <1>7 DEF Keeps

-----------------------------------------------------------------------------
(* Replace chains.  A replaced order names a later one, so that following the *)
(* chain comes to an end.                                                     *)

OrderRecord == [kind : {"stop", "tp", "trail"},
                status : {"new", "filled", "canceled", "replaced"}, next : Nat]

Chained(os) ==
    /\ os \in Seq(OrderRecord)
    /\ \A o \in 1..Len(os) : os[o].status = "replaced" => os[o].next \in (o + 1)..Len(os)

IsTip(g, os, U) == g = [i \in U |-> IF os[i].status = "replaced" THEN g[os[i].next] ELSE i]
Tips(os) == CHOOSE g : IsTip(g, os, DOMAIN os)

LEMMA TipIs == \A o : Protect!Tip(o) = Tips(orders)[o]
BY DEF Protect!Tip, Protect!Ids, Tips, IsTip

LEMMA TipIsNext == \A o : Protect!Tip(o)' = Tips(orders')[o]
BY DEF Protect!Tip, Protect!Ids, Tips, IsTip

LEMMA TipsExist ==
    ASSUME NEW os, Chained(os)
    PROVE  IsTip(Tips(os), os, DOMAIN os)
<1> DEFINE From(k) == (Len(os) - k + 1)..Len(os)
           Bad == {k \in 0..Len(os) : ~ \E g : IsTip(g, os, From(k))}
<1>1. Len(os) \in Nat /\ DOMAIN os = 1..Len(os)
  BY LenProperties DEF Chained
<1>2. Bad = {}
  <2> SUFFICES ASSUME Bad # {} PROVE FALSE
    OBVIOUS
  <2>1. PICK n \in Bad : \A m \in Bad : n <= m
    <3>1. Bad \subseteq Nat
      BY <1>1
    <3> HIDE DEF Bad
    <3> QED BY <3>1, LeastOf
  <2>2. n \in 0..Len(os) /\ ~ \E g : IsTip(g, os, From(n))
    OBVIOUS
  <2>3. CASE n = 0
    <3>1. From(n) = {}
      BY <1>1, <2>3
    <3>2. IsTip([i \in {} |-> i], os, {})
      BY DEF IsTip
    <3> QED BY <2>2, <3>1, <3>2
  <2>4. CASE n # 0
    <3>1. n - 1 \in 0..Len(os) /\ n - 1 \notin Bad
      <4>1. n - 1 \in 0..Len(os) /\ ~(n <= n - 1)
        BY <1>1, <2>2, <2>4
      <4> HIDE DEF Bad
      <4> QED BY <2>1, <4>1
    <3>2. PICK h : IsTip(h, os, From(n - 1))
      BY <3>1
    <3> DEFINE o == Len(os) - n + 1
               tip == IF os[o].status = "replaced" THEN h[os[o].next] ELSE o
               g == [i \in From(n) |-> IF i = o THEN tip ELSE h[i]]
    <3>3. /\ o \in 1..Len(os) /\ o \in From(n) /\ o \notin From(n - 1)
          /\ From(n) = From(n - 1) \cup {o}
          /\ \A i \in From(n - 1) : i \in 1..Len(os)
          /\ \A i \in From(n) : (i + 1)..Len(os) \subseteq From(n - 1)
      BY <1>1, <2>2, <2>4
    <3> HIDE DEF o
    <3>4. ASSUME NEW i \in From(n), os[i].status = "replaced"
          PROVE  os[i].next \in From(n - 1)
      BY <3>3, <3>4 DEF Chained
    <3>5. ASSUME NEW i \in From(n)
          PROVE  g[i] = IF os[i].status = "replaced" THEN g[os[i].next] ELSE i
      <4> HIDE DEF From
      <4>1. os[i].status = "replaced" => g[os[i].next] = h[os[i].next]
        BY <3>3, <3>4
      <4>2. CASE i = o
        BY <3>3, <4>1, <4>2
      <4>3. CASE i # o
        <5>1. i \in From(n - 1) /\ g[i] = h[i]
          BY <3>3, <4>3
        <5>2. h[i] = IF os[i].status = "replaced" THEN h[os[i].next] ELSE i
          BY <3>2, <5>1 DEF IsTip
        <5> HIDE DEF g
        <5> QED BY <4>1, <5>1, <5>2
      <4> QED BY <4>2, <4>3
    <3>6. IsTip(g, os, From(n))
      <4>1. g = [i \in From(n) |-> g[i]]
        OBVIOUS
      <4> HIDE DEF g
      <4> QED BY <3>5, <4>1 DEF IsTip
    <3> QED BY <2>2, <3>6
  <2> QED BY <2>3, <2>4
<1>3. From(Len(os)) = DOMAIN os /\ Len(os) \in 0..Len(os)
  BY <1>1
<1>4. \E g : IsTip(g, os, DOMAIN os)
  BY <1>2, <1>3
<1> QED BY <1>4 DEF Tips

\* What holds of an order if it holds of those after it holds of all.
LEMMA FromTheLast ==
    ASSUME NEW n \in Nat, NEW Holds, Holds \subseteq 1..n,
           \A o \in 1..n : (o + 1)..n \subseteq Holds => o \in Holds
    PROVE  Holds = 1..n
<1> DEFINE Bad == {k \in Nat : k < n /\ n - k \notin Holds}
<1>1. Bad = {}
  <2> SUFFICES ASSUME Bad # {} PROVE FALSE
    OBVIOUS
  <2>1. PICK k \in Bad : \A m \in Bad : k <= m
    <3>1. Bad \subseteq Nat
      OBVIOUS
    <3> HIDE DEF Bad
    <3> QED BY <3>1, LeastOf
  <2>2. k \in Nat /\ k < n /\ n - k \notin Holds
    OBVIOUS
  <2>3. ASSUME NEW i \in (n - k + 1)..n PROVE i \in Holds
    <3>1. n - i \in Nat /\ n - i < n /\ ~(k <= n - i) /\ n - (n - i) = i
      BY <2>2
    <3>2. n - i \notin Bad
      <4> HIDE DEF Bad
      <4> QED BY <2>1, <3>1
    <3> QED BY <3>1, <3>2
  <2>4. n - k \in 1..n
    BY <2>2
  <2> QED BY <2>2, <2>3, <2>4
<1>2. ASSUME NEW o \in 1..n PROVE o \in Holds
  <2>1. n - o \in Nat /\ n - o < n /\ n - (n - o) = o
    OBVIOUS
  <2> QED BY <1>1, <2>1
<1> QED BY <1>2

LEMMA TipSteps ==
    ASSUME NEW os, Chained(os), NEW o \in 1..Len(os)
    PROVE  Tips(os)[o] = IF os[o].status = "replaced" THEN Tips(os)[os[o].next] ELSE o
<1>1. DOMAIN os = 1..Len(os)
  BY LenProperties DEF Chained
<1>2. IsTip(Tips(os), os, DOMAIN os)
  BY TipsExist
<1> DEFINE g == Tips(os)
<1> HIDE DEF g
<1>3. g[o] = IF os[o].status = "replaced" THEN g[os[o].next] ELSE o
  BY <1>1, <1>2 DEF IsTip, g
<1> QED BY <1>3 DEF g

LEMMA TipFits ==
    ASSUME NEW os, Chained(os), NEW o \in 1..Len(os)
    PROVE  /\ Tips(os)[o] \in o..Len(os)
           /\ os[Tips(os)[o]].status # "replaced"
<1> DEFINE Holds == {i \in 1..Len(os) : /\ Tips(os)[i] \in i..Len(os)
                                        /\ os[Tips(os)[i]].status # "replaced"}
<1>1. Len(os) \in Nat
  BY LenProperties DEF Chained
<1>2. ASSUME NEW i \in 1..Len(os), (i + 1)..Len(os) \subseteq Holds
      PROVE  i \in Holds
  <2>1. Tips(os)[i] = IF os[i].status = "replaced" THEN Tips(os)[os[i].next] ELSE i
    BY TipSteps
  <2>2. CASE os[i].status = "replaced"
    <3>1. os[i].next \in (i + 1)..Len(os)
      BY <2>2 DEF Chained
    <3>2. os[i].next \in Holds
      BY <1>2, <3>1
    <3>3. Tips(os)[i] = Tips(os)[os[i].next]
      BY <2>1, <2>2
    <3> QED BY <1>1, <3>1, <3>2, <3>3
  <2>3. CASE os[i].status # "replaced"
    BY <1>1, <2>1, <2>3
  <2> QED BY <2>2, <2>3
<1>3. Holds = 1..Len(os)
  <2>1. Holds \subseteq 1..Len(os)
    OBVIOUS
  <2> HIDE DEF Holds
  <2> QED BY <1>1, <1>2, <2>1, FromTheLast
<1> QED BY <1>3

\* Chains are followed alike where they are alike.
LEMMA TipsKept ==
    ASSUME NEW os, Chained(os), NEW ot, Chained(ot), Len(os) <= Len(ot),
           \A o \in 1..Len(os) : /\ ot[o].status = "replaced" <=> os[o].status = "replaced"
                                 /\ os[o].status = "replaced" => ot[o].next = os[o].next
    PROVE  \A o \in 1..Len(os) : Tips(ot)[o] = Tips(os)[o]
<1> DEFINE Holds == {i \in 1..Len(os) : Tips(ot)[i] = Tips(os)[i]}
<1>1. Len(os) \in Nat /\ Len(ot) \in Nat
  BY LenProperties DEF Chained
<1>2. ASSUME NEW i \in 1..Len(os), (i + 1)..Len(os) \subseteq Holds
      PROVE  i \in Holds
  <2>1. Tips(os)[i] = IF os[i].status = "replaced" THEN Tips(os)[os[i].next] ELSE i
    BY TipSteps
  <2>2. Tips(ot)[i] = IF ot[i].status = "replaced" THEN Tips(ot)[ot[i].next] ELSE i
    <3>1. i \in 1..Len(ot)
      BY <1>1
    <3> QED BY <3>1, TipSteps
  <2>3. CASE os[i].status = "replaced"
    <3>1. os[i].next \in Holds
      BY <1>2, <2>3 DEF Chained
    <3> QED BY <2>1, <2>2, <2>3, <3>1
  <2>4. CASE os[i].status # "replaced"
    BY <2>1, <2>2, <2>4
  <2> QED BY <2>3, <2>4
<1>3. Holds = 1..Len(os)
  <2>1. Holds \subseteq 1..Len(os)
    OBVIOUS
  <2> HIDE DEF Holds
  <2> QED BY <1>1, <1>2, <2>1, FromTheLast
<1> QED BY <1>3

\* The end of a chain is replaced by a new order: that is the end now.
LEMMA TipsReplaced ==
    ASSUME NEW os, Chained(os), NEW ot, Chained(ot), Len(ot) = Len(os) + 1,
           NEW r \in 1..Len(os), os[r].status # "replaced",
           ot[r].status = "replaced", ot[r].next = Len(os) + 1,
           ot[Len(os) + 1].status # "replaced",
           \A o \in 1..Len(os) : o # r => ot[o] = os[o]
    PROVE  \A o \in 1..Len(os) :
              Tips(ot)[o] = IF Tips(os)[o] = r THEN Len(os) + 1 ELSE Tips(os)[o]
<1> DEFINE Holds == {i \in 1..Len(os) :
                        Tips(ot)[i] = IF Tips(os)[i] = r THEN Len(os) + 1 ELSE Tips(os)[i]}
<1>1. Len(os) \in Nat /\ Len(ot) \in Nat
  BY LenProperties DEF Chained
<1>2. ASSUME NEW i \in 1..Len(os), (i + 1)..Len(os) \subseteq Holds
      PROVE  i \in Holds
  <2>1. Tips(os)[i] = IF os[i].status = "replaced" THEN Tips(os)[os[i].next] ELSE i
    BY TipSteps
  <2>2. Tips(ot)[i] = IF ot[i].status = "replaced" THEN Tips(ot)[ot[i].next] ELSE i
    <3>1. i \in 1..Len(ot)
      BY <1>1
    <3> QED BY <3>1, TipSteps
  <2>3. CASE i = r
    <3>1. Len(os) + 1 \in 1..Len(ot)
      BY <1>1
    <3>2. Tips(ot)[Len(os) + 1] = Len(os) + 1
      BY <3>1, TipSteps
    <3> QED BY <2>1, <2>2, <2>3, <3>2
  <2>4. CASE i # r /\ os[i].status = "replaced"
    <3>1. os[i].next \in Holds
      BY <1>2, <2>4 DEF Chained
    <3>2. ot[i] = os[i]
      BY <2>4
    <3> QED BY <2>1, <2>2, <2>4, <3>1, <3>2
  <2>5. CASE i # r /\ os[i].status # "replaced"
    BY <2>1, <2>2, <2>5
  <2> QED BY <2>3, <2>4, <2>5
<1>3. Holds = 1..Len(os)
  <2>1. Holds \subseteq 1..Len(os)
    OBVIOUS
  <2> HIDE DEF Holds
  <2> QED BY <1>1, <1>2, <2>1, FromTheLast
<1> QED BY <1>3

\* Who was there is there; what was replaced is, and by the same.
Grown(os, ot) ==
    /\ Len(os) <= Len(ot)
    /\ \A o \in 1..Len(os) :
          /\ ot[o].kind = os[o].kind
          /\ ot[o].status = "replaced" <=> os[o].status = "replaced"
          /\ ot[o].next = os[o].next

OrdersFit(os) ==
    /\ Chained(os)
    /\ \A o \in 1..Len(os) : /\ os[o].status = "replaced" => os[o].kind = "trail"
                             /\ os[o].status # "replaced" => os[o].next = 0
    /\ bracket => Len(os) >= 2 /\ os[1].kind = "stop" /\ os[2].kind = "tp"

LotRecord == [open : BOOLEAN, stop : Nat, tp : Nat, trail : Nat]

LotFits(l, os) ==
    /\ l \in LotRecord
    /\ {l.stop, l.tp, l.trail} \subseteq 0..Len(os)
    /\ l.tp # 0 => os[l.tp].kind = "tp"

\* No two rows are of one replace chain.
ChainsApart(X, os) == \A x, y \in X : Tips(os)[x] = Tips(os)[y] => x = y

QueueFits(p, os) ==
    /\ p \in Seq(1..Len(os))
    /\ Protect!IsInjective(p)
    /\ ChainsApart(Protect!ToSet(p), os)

Desk == [lot : LotRecord, pending : Seq(Nat), orders : Seq(OrderRecord)]

DeskFits(d) == /\ d \in Desk /\ OrdersFit(d.orders)
               /\ LotFits(d.lot, d.orders) /\ QueueFits(d.pending, d.orders)

LEMMA OrdersAre ==
    ASSUME NEW os, OrdersFit(os)
    PROVE  /\ os \in Seq(OrderRecord) /\ Len(os) \in Nat /\ DOMAIN os = 1..Len(os)
           /\ \A o \in 1..Len(os) : os[o] \in OrderRecord
BY LenProperties, ElementOfSeq DEF OrdersFit, Chained

LEMMA RowsOf ==
    ASSUME NEW S, NEW p \in Seq(S)
    PROVE  /\ Protect!ToSet(p) \subseteq S
           /\ \A i \in 1..Len(p) : p[i] \in Protect!ToSet(p)
           /\ p # <<>> => Len(p) \in Nat \ {0} /\ Protect!Last(p) \in Protect!ToSet(p)
<1>1. DOMAIN p = 1..Len(p) /\ Len(p) \in Nat /\ \A i \in 1..Len(p) : p[i] \in S
  BY LenProperties, ElementOfSeq
<1>2. p # <<>> => Len(p) \in Nat \ {0}
  BY EmptySeq
<1>3. p # <<>> => Len(p) \in 1..Len(p)
  BY <1>2
<1> QED BY <1>1, <1>2, <1>3 DEF Protect!ToSet, Protect!Last

LEMMA RowsJoined ==
    ASSUME NEW S, NEW p \in Seq(S), NEW q \in Seq(S)
    PROVE  /\ p \o q \in Seq(S)
           /\ Protect!ToSet(p \o q) = Protect!ToSet(p) \cup Protect!ToSet(q)
           /\ /\ Protect!IsInjective(p) /\ Protect!IsInjective(q)
              /\ Protect!ToSet(p) \cap Protect!ToSet(q) = {}
              => Protect!IsInjective(p \o q)
           /\ q = <<>> => p \o q = p
<1> DEFINE r == p \o q
<1>1. /\ r \in Seq(S) /\ Len(r) = Len(p) + Len(q)
      /\ \A i \in 1..(Len(p) + Len(q)) : r[i] = IF i <= Len(p) THEN p[i] ELSE q[i - Len(p)]
      /\ q = <<>> => r = p
  BY ConcatProperties, ConcatEmptySeq
<1>2. /\ Len(p) \in Nat /\ Len(q) \in Nat /\ DOMAIN p = 1..Len(p) /\ DOMAIN q = 1..Len(q)
      /\ DOMAIN r = 1..(Len(p) + Len(q))
  BY <1>1, LenProperties
<1> HIDE DEF r
<1>3. \A i \in DOMAIN p : i \in DOMAIN r /\ r[i] = p[i]
  BY <1>1, <1>2
<1>4. \A i \in DOMAIN q : i + Len(p) \in DOMAIN r /\ r[i + Len(p)] = q[i]
  BY <1>1, <1>2
<1>5. \A i \in DOMAIN r : \/ i \in DOMAIN p /\ r[i] = p[i]
                          \/ i - Len(p) \in DOMAIN q /\ r[i] = q[i - Len(p)]
  BY <1>1, <1>2
<1>6. Protect!ToSet(r) = Protect!ToSet(p) \cup Protect!ToSet(q)
  <2>1. \A x \in Protect!ToSet(r) : x \in Protect!ToSet(p) \cup Protect!ToSet(q)
    BY <1>5 DEF Protect!ToSet
  <2>2. \A x \in Protect!ToSet(p) \cup Protect!ToSet(q) : x \in Protect!ToSet(r)
    BY <1>3, <1>4 DEF Protect!ToSet
  <2> QED BY <2>1, <2>2
<1>7. ASSUME Protect!IsInjective(p), Protect!IsInjective(q),
             Protect!ToSet(p) \cap Protect!ToSet(q) = {}
      PROVE  Protect!IsInjective(r)
  <2>1. ASSUME NEW i \in DOMAIN r, NEW j \in DOMAIN r, r[i] = r[j] PROVE i = j
    <3>1. \A k \in DOMAIN p : \A m \in DOMAIN q : p[k] # q[m]
      BY <1>7 DEF Protect!ToSet
    <3>2. CASE i \in DOMAIN p /\ r[i] = p[i] /\ j \in DOMAIN p /\ r[j] = p[j]
      BY <1>7, <2>1, <3>2 DEF Protect!IsInjective
    <3>3. CASE /\ i - Len(p) \in DOMAIN q /\ r[i] = q[i - Len(p)]
               /\ j - Len(p) \in DOMAIN q /\ r[j] = q[j - Len(p)]
      <4>1. i - Len(p) = j - Len(p)
        BY <1>7, <2>1, <3>3 DEF Protect!IsInjective
      <4> QED BY <1>2, <4>1
    <3> QED BY <1>5, <2>1, <3>1, <3>2, <3>3
  <2> QED BY <2>1 DEF Protect!IsInjective
<1> QED BY <1>1, <1>6, <1>7 DEF r

LEMMA QueueIs ==
    ASSUME NEW os, OrdersFit(os), NEW p, QueueFits(p, os)
    PROVE  /\ p \in Seq(Nat) /\ p \in Seq(1..Len(os))
           /\ Protect!ToSet(p) \subseteq 1..Len(os)
<1>1. 1..Len(os) \subseteq Nat
  BY OrdersAre
<1> QED BY <1>1, RowsOf, SeqMonotonic DEF QueueFits

LEMMA GrownFits ==
    ASSUME NEW os, OrdersFit(os), NEW ot, OrdersFit(ot), Grown(os, ot)
    PROVE  /\ \A l : LotFits(l, os) => LotFits(l, ot)
           /\ \A p : QueueFits(p, os) => QueueFits(p, ot)
           /\ \A o \in 1..Len(os) : o \in 1..Len(ot) /\ Tips(ot)[o] = Tips(os)[o]
<1>1. Len(os) \in Nat /\ Len(ot) \in Nat /\ Len(os) <= Len(ot)
  BY OrdersAre DEF Grown
<1>2. 1..Len(os) \subseteq 1..Len(ot) /\ 0..Len(os) \subseteq 0..Len(ot)
  BY <1>1
<1>3. \A o \in 1..Len(os) : Tips(ot)[o] = Tips(os)[o]
  BY <1>1, TipsKept DEF Grown, OrdersFit
<1>4. ASSUME NEW l, LotFits(l, os) PROVE LotFits(l, ot)
  <2>1. l.tp # 0 => l.tp \in 1..Len(os)
    BY <1>1, <1>4 DEF LotFits, LotRecord
  <2> QED BY <1>2, <1>4, <2>1 DEF LotFits, Grown
<1>5. ASSUME NEW p, QueueFits(p, os) PROVE QueueFits(p, ot)
  <2>1. p \in Seq(1..Len(ot))
    BY <1>2, <1>5, SeqMonotonic DEF QueueFits
  <2>2. Protect!ToSet(p) \subseteq 1..Len(os)
    BY <1>5, QueueIs
  <2>3. ChainsApart(Protect!ToSet(p), ot)
    BY <1>3, <1>5, <2>2 DEF QueueFits, ChainsApart
  <2> QED BY <1>5, <2>1, <2>3 DEF QueueFits
<1> QED BY <1>2, <1>3, <1>4, <1>5

LEMMA CancelFits ==
    ASSUME NEW os, OrdersFit(os), NEW S, bracket \in BOOLEAN
    PROVE  LET ot == Protect!CancelAll(os, S)
           IN  /\ OrdersFit(ot) /\ Grown(os, ot) /\ Len(ot) = Len(os) /\ DOMAIN ot = DOMAIN os
               /\ \A o \in 1..Len(os) :
                     IF os[o].status = "new" /\ {o, Protect!Twin(o)} \cap S # {}
                     THEN ot[o].status = "canceled" ELSE ot[o] = os[o]
<1> DEFINE ot == Protect!CancelAll(os, S)
           cut(o) == IF os[o].status = "new" /\ {o, Protect!Twin(o)} \cap S # {}
                     THEN [os[o] EXCEPT !.status = "canceled"] ELSE os[o]
<1>1. /\ os \in Seq(OrderRecord) /\ Len(os) \in Nat /\ DOMAIN os = 1..Len(os)
      /\ \A o \in 1..Len(os) : os[o] \in OrderRecord
  BY OrdersAre
<1>2. ot = [o \in 1..Len(os) |-> cut(o)]
  BY <1>1 DEF Protect!CancelAll
<1>3. ASSUME NEW o \in 1..Len(os)
      PROVE  /\ ot[o] = cut(o) /\ cut(o) \in OrderRecord
             /\ cut(o).kind = os[o].kind /\ cut(o).next = os[o].next
             /\ cut(o).status = "replaced" <=> os[o].status = "replaced"
             /\ IF os[o].status = "new" /\ {o, Protect!Twin(o)} \cap S # {}
                THEN cut(o).status = "canceled" ELSE cut(o) = os[o]
  BY <1>1, <1>2 DEF OrderRecord
<1> HIDE DEF cut
<1>4. ot \in Seq(OrderRecord) /\ Len(ot) = Len(os) /\ DOMAIN ot = 1..Len(os)
  <2>1. ot \in [1..Len(os) -> OrderRecord]
    BY <1>2, <1>3
  <2> HIDE DEF ot
  <2>2. ot \in Seq(OrderRecord)
    BY <1>1, <2>1, SeqDef
  <2> QED BY <1>1, <2>1, <2>2, LenProperties
<1> HIDE DEF ot
<1>5. Grown(os, ot)
  BY <1>1, <1>3, <1>4 DEF Grown
<1>6. OrdersFit(ot)
  <2>1. Chained(ot)
    BY <1>3, <1>4 DEF OrdersFit, Chained
  <2>2. \A o \in 1..Len(ot) : /\ ot[o].status = "replaced" => ot[o].kind = "trail"
                              /\ ot[o].status # "replaced" => ot[o].next = 0
    BY <1>3, <1>4 DEF OrdersFit
  <2>3. bracket => Len(ot) >= 2 /\ ot[1].kind = "stop" /\ ot[2].kind = "tp"
    BY <1>1, <1>3, <1>4 DEF OrdersFit
  <2> QED BY <2>1, <2>2, <2>3 DEF OrdersFit
<1> QED BY <1>1, <1>3, <1>4, <1>5, <1>6 DEF ot

\* One more order.
LEMMA AppendFits ==
    ASSUME NEW os, OrdersFit(os), NEW r \in OrderRecord, r.status # "replaced", r.next = 0
    PROVE  LET ot == Append(os, r)
           IN  /\ OrdersFit(ot) /\ Grown(os, ot) /\ Len(ot) = Len(os) + 1
               /\ \A o \in 1..Len(os) : ot[o] = os[o]
               /\ ot[Len(os) + 1] = r
               /\ Tips(ot)[Len(os) + 1] = Len(os) + 1
<1> DEFINE ot == Append(os, r)
<1>1. /\ os \in Seq(OrderRecord) /\ Len(os) \in Nat /\ DOMAIN os = 1..Len(os)
      /\ \A o \in 1..Len(os) : os[o] \in OrderRecord
  BY OrdersAre
<1>2. /\ ot \in Seq(OrderRecord) /\ Len(ot) = Len(os) + 1
      /\ \A o \in 1..Len(os) : ot[o] = os[o]
      /\ ot[Len(os) + 1] = r
  BY <1>1, AppendProperties
<1> HIDE DEF ot
<1>3. \A o \in 1..Len(ot) : o \in 1..Len(os) \/ o = Len(os) + 1
  BY <1>1, <1>2
<1>4. Grown(os, ot)
  BY <1>1, <1>2 DEF Grown
<1>5. Chained(ot)
  <2>1. \A o \in 1..Len(os) : (o + 1)..Len(os) \subseteq (o + 1)..Len(ot)
    BY <1>1, <1>2
  <2> QED BY <1>2, <1>3, <2>1 DEF OrdersFit, Chained
<1>6. OrdersFit(ot)
  <2>1. bracket => Len(ot) >= 2 /\ ot[1].kind = "stop" /\ ot[2].kind = "tp"
    BY <1>1, <1>2 DEF OrdersFit
  <2>2. \A o \in 1..Len(ot) : /\ ot[o].status = "replaced" => ot[o].kind = "trail"
                              /\ ot[o].status # "replaced" => ot[o].next = 0
    BY <1>2, <1>3 DEF OrdersFit
  <2> QED BY <1>5, <2>1, <2>2 DEF OrdersFit
<1>7. Tips(ot)[Len(os) + 1] = Len(os) + 1
  <2>1. Len(os) + 1 \in 1..Len(ot)
    BY <1>1, <1>2
  <2> QED BY <1>2, <1>5, <2>1, TipSteps
<1> QED BY <1>2, <1>4, <1>6, <1>7 DEF ot

-----------------------------------------------------------------------------
(* What the sweep makes of the books, step by step.                           *)

LEMMA DeskIs ==
    ASSUME NEW d, DeskFits(d)
    PROVE  /\ d = [lot |-> d.lot, pending |-> d.pending, orders |-> d.orders]
           /\ d.lot \in LotRecord /\ d.pending \in Seq(Nat) /\ d.orders \in Seq(OrderRecord)
           /\ OrdersFit(d.orders) /\ LotFits(d.lot, d.orders) /\ QueueFits(d.pending, d.orders)
BY DEF DeskFits, Desk

LEMMA DeskOf ==
    ASSUME NEW os, OrdersFit(os), NEW l, LotFits(l, os), NEW p, QueueFits(p, os)
    PROVE  DeskFits([lot |-> l, pending |-> p, orders |-> os])
BY QueueIs DEF DeskFits, Desk, LotFits, OrdersFit, Chained

\* The orders grow, and the lot and the rows stay.
LEMMA DeskGrows ==
    ASSUME NEW d, DeskFits(d), NEW ot, OrdersFit(ot), Grown(d.orders, ot)
    PROVE  DeskFits([d EXCEPT !.orders = ot])
<1>1. [d EXCEPT !.orders = ot] = [lot |-> d.lot, pending |-> d.pending, orders |-> ot]
  BY DeskIs
<1>2. LotFits(d.lot, ot) /\ QueueFits(d.pending, ot)
  BY DeskIs, GrownFits
<1> QED BY <1>1, <1>2, DeskOf

LEMMA DeskCancels ==
    ASSUME NEW d, DeskFits(d), NEW S, bracket \in BOOLEAN
    PROVE  DeskFits([d EXCEPT !.orders = Protect!CancelAll(@, S)])
<1> DEFINE ot == Protect!CancelAll(d.orders, S)
<1>1. OrdersFit(ot) /\ Grown(d.orders, ot)
  BY DeskIs, CancelFits
<1>2. [d EXCEPT !.orders = Protect!CancelAll(@, S)] = [d EXCEPT !.orders = ot]
  BY DeskIs
<1> HIDE DEF ot
<1> QED BY <1>1, <1>2, DeskGrows

LEMMA DeskRelot ==
    ASSUME NEW d, DeskFits(d), NEW l, LotFits(l, d.orders)
    PROVE  DeskFits([d EXCEPT !.lot = l])
<1>1. [d EXCEPT !.lot = l] = [lot |-> l, pending |-> d.pending, orders |-> d.orders]
  BY DeskIs
<1> QED BY <1>1, DeskIs, DeskOf

LEMMA WithoutFits ==
    ASSUME NEW os, OrdersFit(os), NEW p, QueueFits(p, os), NEW S
    PROVE  QueueFits(Protect!Without(p, S), os)
<1>1. /\ Protect!Without(p, S) \in Seq(1..Len(os))
      /\ Protect!ToSet(Protect!Without(p, S)) \subseteq Protect!ToSet(p)
      /\ Protect!IsInjective(Protect!Without(p, S))
  BY WithoutKeeps DEF QueueFits
<1> QED BY <1>1 DEF QueueFits, ChainsApart

\* The children of a bracket are no part of a replace chain.
LEMMA ChildTips ==
    ASSUME NEW os, OrdersFit(os), bracket
    PROVE  /\ 1 \in 1..Len(os) /\ 2 \in 1..Len(os)
           /\ \A x \in 1..Len(os) : /\ Tips(os)[x] = 1 <=> x = 1
                                    /\ Tips(os)[x] = 2 <=> x = 2
<1>1. /\ Len(os) \in Nat /\ Len(os) >= 2 /\ Chained(os)
      /\ os[1].status # "replaced" /\ os[2].status # "replaced"
  BY OrdersAre DEF OrdersFit
<1>2. 1 \in 1..Len(os) /\ 2 \in 1..Len(os)
  BY <1>1
<1>3. Tips(os)[1] = 1 /\ Tips(os)[2] = 2
  BY <1>1, <1>2, TipSteps
<1>4. ASSUME NEW x \in 1..Len(os)
      PROVE  /\ Tips(os)[x] = 1 <=> x = 1
             /\ Tips(os)[x] = 2 <=> x = 2
  <2>1. Tips(os)[x] \in x..Len(os)
    BY <1>1, TipFits
  <2>2. x = 1 \/ x = 2 \/ Tips(os)[x] > 2
    BY <1>1, <2>1
  <2> QED BY <1>3, <2>2
<1> QED BY <1>2, <1>4

\* The children the healing knows, and what it makes of the pointers and the rows.
Known == {o \in {1, 2} : orders[o].status # "canceled"}
Stamped(l) == [l EXCEPT !.stop = IF @ = 0 /\ 1 \in Known THEN 1 ELSE @,
                        !.tp = IF @ = 0 /\ 2 \in Known THEN 2 ELSE @]
Added(p) == Protect!Without(<<1, 2>>, {1, 2} \ (Known \ Protect!ToSet(p)))

LEMMA HealedIs ==
    ASSUME NEW d
    PROVE  Protect!Healed(d) =
              [lot |-> Stamped(d.lot), pending |-> d.pending \o Added(d.pending),
               orders |-> d.orders]
BY DEF Protect!Healed, Protect!None, Known, Stamped, Added

LEMMA AddedIs ==
    ASSUME NEW p
    PROVE  /\ Added(p) \in Seq({1, 2})
           /\ Protect!ToSet(Added(p)) = Known \ Protect!ToSet(p)
           /\ Protect!IsInjective(Added(p))
<1>1. <<1, 2>> \in Seq({1, 2}) /\ Len(<<1, 2>>) = 2 /\ DOMAIN <<1, 2>> = {1, 2}
  OBVIOUS
<1>2. Protect!ToSet(<<1, 2>>) = {1, 2}
  BY <1>1 DEF Protect!ToSet
<1>3. Protect!IsInjective(<<1, 2>>)
  BY <1>1 DEF Protect!IsInjective
<1>4. Known \subseteq {1, 2}
  BY DEF Known
<1> DEFINE S == {1, 2} \ (Known \ Protect!ToSet(p))
           q == <<1, 2>>
<1>5. {1, 2} \ S = Known \ Protect!ToSet(p)
  BY <1>4
<1> HIDE DEF S, q
<1>6. q \in Seq({1, 2}) /\ Protect!ToSet(q) = {1, 2} /\ Protect!IsInjective(q)
  BY <1>1, <1>2, <1>3 DEF q
<1>7. /\ Protect!Without(q, S) \in Seq({1, 2})
      /\ Protect!ToSet(Protect!Without(q, S)) = {1, 2} \ S
      /\ Protect!IsInjective(Protect!Without(q, S))
  BY <1>6, WithoutKeeps
<1>8. Added(p) = Protect!Without(q, S)
  BY DEF Added, q, S
<1> QED BY <1>5, <1>7, <1>8

LEMMA HealedFits ==
    ASSUME NEW d, DeskFits(d), bracket
    PROVE  DeskFits(Protect!Healed(d))
<1> DEFINE os == d.orders
           p == d.pending
           l == Stamped(d.lot)
<1>1. OrdersFit(os) /\ Len(os) \in Nat /\ Len(os) >= 2 /\ os[2].kind = "tp"
  BY DeskIs, OrdersAre DEF OrdersFit
<1>2. 1 \in 1..Len(os) /\ 2 \in 1..Len(os)
  BY <1>1, ChildTips
<1>3. LotFits(l, os)
  <2>1. LotFits(d.lot, os) /\ d.lot \in LotRecord
    BY DeskIs
  <2>2. /\ l \in LotRecord /\ l.stop \in {d.lot.stop, 1} /\ l.trail = d.lot.trail
        /\ l.tp = d.lot.tp \/ l.tp = 2
    BY <2>1 DEF Stamped, LotRecord
  <2>3. 1 \in 0..Len(os) /\ 2 \in 0..Len(os)
    BY <1>1
  <2> HIDE DEF l, os
  <2> QED BY <1>1, <2>1, <2>2, <2>3 DEF LotFits
<1>4. QueueFits(p \o Added(p), os)
  <2>1. p \in Seq(1..Len(os)) /\ Protect!IsInjective(p) /\ ChainsApart(Protect!ToSet(p), os)
    BY DeskIs DEF QueueFits
  <2>2. Added(p) \in Seq(1..Len(os))
    <3>1. {1, 2} \subseteq 1..Len(os)
      BY <1>2
    <3> QED BY <3>1, AddedIs, SeqMonotonic
  <2>3. Protect!ToSet(p) \cap Protect!ToSet(Added(p)) = {}
    BY AddedIs
  <2> DEFINE r == p \o Added(p)
  <2>4. /\ r \in Seq(1..Len(os)) /\ Protect!IsInjective(r)
        /\ Protect!ToSet(r) = Protect!ToSet(p) \cup Protect!ToSet(Added(p))
    BY <2>1, <2>2, <2>3, AddedIs, RowsJoined
  <2> HIDE DEF r
  <2>5. Protect!ToSet(Added(p)) \subseteq {1, 2}
    BY AddedIs DEF Known
  <2>6. \A x \in 1..Len(os) : /\ Tips(os)[x] = 1 <=> x = 1
                              /\ Tips(os)[x] = 2 <=> x = 2
    BY <1>1, ChildTips
  <2>7. Protect!ToSet(p) \subseteq 1..Len(os)
    BY <2>1, RowsOf
  <2>8. ASSUME NEW x \in Protect!ToSet(r), NEW y \in Protect!ToSet(r), Tips(os)[x] = Tips(os)[y]
        PROVE  x = y
    <3>1. x \in 1..Len(os) /\ y \in 1..Len(os)
      BY <1>2, <2>4, <2>5, <2>7
    <3>2. CASE x \in {1, 2}
      BY <2>6, <2>8, <3>1, <3>2
    <3>3. CASE y \in {1, 2}
      BY <2>6, <2>8, <3>1, <3>3
    <3>4. CASE x \notin {1, 2} /\ y \notin {1, 2}
      <4>1. x \in Protect!ToSet(p) /\ y \in Protect!ToSet(p)
        BY <2>4, <2>5, <3>4
      <4> QED BY <2>1, <2>8, <4>1 DEF ChainsApart
    <3> QED BY <3>2, <3>3, <3>4
  <2>9. QueueFits(r, os)
    BY <2>4, <2>8 DEF QueueFits, ChainsApart
  <2> QED BY <2>9 DEF r
<1>5. Protect!Healed(d) = [lot |-> l, pending |-> p \o Added(p), orders |-> os]
  BY HealedIs
<1> HIDE DEF l, p, os
<1> QED BY <1>1, <1>3, <1>4, <1>5, DeskOf

LEMMA SunsetIs ==
    ASSUME NEW d
    PROVE  Protect!Sunset(d) =
              IF lot.tp = 0 THEN d
              ELSE [lot |-> [d.lot EXCEPT !.tp = 0], pending |-> d.pending,
                    orders |-> Protect!CancelAll(d.orders, {lot.tp})]
BY DEF Protect!Sunset, Protect!None

LEMMA SunsetFits ==
    ASSUME NEW d, DeskFits(d), bracket \in BOOLEAN
    PROVE  DeskFits(Protect!Sunset(d))
<1> DEFINE ot == Protect!CancelAll(d.orders, {lot.tp})
           l == [d.lot EXCEPT !.tp = 0]
<1>1. OrdersFit(ot) /\ Grown(d.orders, ot)
  BY DeskIs, CancelFits
<1> HIDE DEF ot
<1>2. LotFits(d.lot, ot) /\ QueueFits(d.pending, ot)
  BY <1>1, DeskIs, GrownFits
<1>3. LotFits(l, ot)
  <2>1. Len(ot) \in Nat /\ 0 \in 0..Len(ot)
    BY <1>1, OrdersAre
  <2>2. /\ l \in LotRecord /\ l.stop = d.lot.stop /\ l.trail = d.lot.trail /\ l.tp = 0
    BY <1>2 DEF LotFits, LotRecord
  <2> HIDE DEF l
  <2> QED BY <1>2, <2>1, <2>2 DEF LotFits
<1>4. DeskFits([lot |-> l, pending |-> d.pending, orders |-> ot])
  BY <1>1, <1>2, <1>3, DeskOf
<1> QED BY <1>4, SunsetIs DEF ot

LEMMA MarkedIs ==
    ASSUME NEW d, DeskFits(d)
    PROVE  /\ DeskFits(Protect!Marked(d))
           /\ Protect!Marked(d) =
                 [lot |-> d.lot, pending |-> Protect!Without(d.pending, {Protect!Newest(d)}),
                  orders |-> d.orders]
           /\ Protect!Marked(d).lot = d.lot /\ Protect!Marked(d).orders = d.orders
<1>1. Protect!Marked(d) =
         [lot |-> d.lot, pending |-> Protect!Without(d.pending, {Protect!Newest(d)}),
          orders |-> d.orders]
  BY DeskIs DEF Protect!Marked
<1>2. QueueFits(Protect!Without(d.pending, {Protect!Newest(d)}), d.orders)
  BY DeskIs, WithoutFits
<1>3. DeskFits(Protect!Marked(d))
  BY <1>1, <1>2, DeskIs, DeskOf
<1>4. Protect!Marked(d).lot = d.lot /\ Protect!Marked(d).orders = d.orders
  BY <1>1
<1> QED BY <1>1, <1>3, <1>4

LEMMA RelinkedIs ==
    ASSUME NEW d, DeskFits(d), Protect!Cover(d) # {}
    PROVE  /\ DeskFits(Protect!Relinked(d))
           /\ Protect!Relinked(d).orders = d.orders /\ Protect!Relinked(d).pending = d.pending
           /\ Protect!Relinked(d).lot.open = d.lot.open
<1> DEFINE link == CHOOSE o \in Protect!Cover(d) : \A other \in Protect!Cover(d) : o <= other
<1>1. Protect!Columns(d.lot) \subseteq 1..Len(d.orders) /\ Len(d.orders) \in Nat
  <2>1. {d.lot.stop, d.lot.tp, d.lot.trail} \subseteq 0..Len(d.orders) /\ Len(d.orders) \in Nat
    BY DeskIs, OrdersAre DEF LotFits
  <2> QED BY <2>1 DEF Protect!Columns, Protect!None
<1>2. Protect!Cover(d) \subseteq 1..Len(d.orders)
  BY <1>1 DEF Protect!Cover
<1>3. link \in Protect!Cover(d)
  <2>1. Protect!Cover(d) \subseteq Nat
    BY <1>1, <1>2
  <2>2. \E o \in Protect!Cover(d) : \A other \in Protect!Cover(d) : o <= other
    BY <2>1, LeastOf
  <2> QED BY <2>2
<1>4. link \in 0..Len(d.orders) /\ link \in Nat
  BY <1>1, <1>2, <1>3
<1>5. \/ Protect!Relinked(d) = d
      \/ Protect!Relinked(d) = [d EXCEPT !.lot = [d.lot EXCEPT !.trail = link]]
      \/ Protect!Relinked(d) = [d EXCEPT !.lot = [d.lot EXCEPT !.stop = link]]
  BY DEF Protect!Relinked
<1> HIDE DEF link
<1>6. LotFits([d.lot EXCEPT !.trail = link], d.orders) /\ LotFits([d.lot EXCEPT !.stop = link], d.orders)
  BY <1>4, DeskIs DEF LotFits, LotRecord
<1>7. DeskFits(Protect!Relinked(d))
  BY <1>5, <1>6, DeskRelot
<1>8. /\ Protect!Relinked(d).orders = d.orders /\ Protect!Relinked(d).pending = d.pending
      /\ Protect!Relinked(d).lot.open = d.lot.open
  BY <1>5, DeskIs DEF LotRecord
<1> QED BY <1>7, <1>8

LEMMA OrderIs ==
    ASSUME NEW k \in {"stop", "tp", "trail"}
    PROVE  /\ Protect!Order(k) = [kind |-> k, status |-> "new", next |-> 0]
           /\ [Protect!Order(k) EXCEPT !.status = "canceled"]
              = [kind |-> k, status |-> "canceled", next |-> 0]
           /\ Protect!Order(k) \in OrderRecord
           /\ [Protect!Order(k) EXCEPT !.status = "canceled"] \in OrderRecord
BY DEF Protect!Order, Protect!None, OrderRecord

LEMMA FreedFits ==
    ASSUME NEW d, DeskFits(d), NEW k \in {"stop", "trail"}, bracket \in BOOLEAN
    PROVE  DeskFits(Protect!Freed(d, k)) /\ Protect!Freed(d, k).lot.open = d.lot.open
<1> DEFINE ot == Protect!CancelAll(d.orders, {lot[k]})
           l == [d.lot EXCEPT ![k] = 0]
<1>1. OrdersFit(ot) /\ Grown(d.orders, ot)
  BY DeskIs, CancelFits
<1>2. Protect!Freed(d, k) = [lot |-> l, pending |-> d.pending, orders |-> ot]
  BY DEF Protect!Freed, Protect!None
<1> HIDE DEF ot
<1>3. LotFits(d.lot, ot) /\ QueueFits(d.pending, ot)
  BY <1>1, DeskIs, GrownFits
<1>4. LotFits(l, ot)
  <2>1. Len(ot) \in Nat /\ 0 \in 0..Len(ot)
    BY <1>1, OrdersAre
  <2>2. /\ l \in LotRecord /\ l.stop \in {d.lot.stop, 0} /\ l.trail \in {d.lot.trail, 0}
        /\ l.tp = d.lot.tp
    BY <1>3 DEF LotFits, LotRecord
  <2> HIDE DEF l
  <2> QED BY <1>3, <2>1, <2>2 DEF LotFits
<1>5. l.open = d.lot.open
  BY <1>3 DEF LotFits, LotRecord
<1> HIDE DEF l
<1>6. DeskFits([lot |-> l, pending |-> d.pending, orders |-> ot])
  BY <1>1, <1>3, <1>4, DeskOf
<1> QED BY <1>2, <1>5, <1>6

LEMMA PlaceFits ==
    ASSUME NEW d, DeskFits(d), NEW k \in {"stop", "trail"}, NEW fault
    PROVE  DeskFits(Protect!Place(d, k, fault))
           /\ Protect!Place(d, k, fault).lot.open = d.lot.open
<1> DEFINE o == Len(d.orders) + 1
           fresh == Append(d.orders, Protect!Order(k))
           back == Append(d.orders, [Protect!Order(k) EXCEPT !.status = "canceled"])
           l == [d.lot EXCEPT ![k] = o]
           p == Append(d.pending, o)
<1>1. /\ OrdersFit(d.orders) /\ LotFits(d.lot, d.orders) /\ QueueFits(d.pending, d.orders)
      /\ Len(d.orders) \in Nat
  BY DeskIs, OrdersAre
<1>2. OrdersFit(back) /\ Grown(d.orders, back)
  <2>1. /\ [Protect!Order(k) EXCEPT !.status = "canceled"].status # "replaced"
        /\ [Protect!Order(k) EXCEPT !.status = "canceled"].next = 0
    BY OrderIs
  <2> QED BY <1>1, <2>1, OrderIs, AppendFits
<1>3. /\ OrdersFit(fresh) /\ Grown(d.orders, fresh) /\ Len(fresh) = o
      /\ Tips(fresh)[o] = o
  <2>1. Protect!Order(k).status # "replaced" /\ Protect!Order(k).next = 0
    BY OrderIs
  <2> QED BY <1>1, <2>1, OrderIs, AppendFits
<1>4. DeskFits([d EXCEPT !.orders = back])
  BY <1>2, DeskGrows
<1> HIDE DEF back, fresh
<1>5. LotFits(d.lot, fresh) /\ QueueFits(d.pending, fresh)
      /\ \A x \in 1..Len(d.orders) : x \in 1..Len(fresh) /\ Tips(fresh)[x] = Tips(d.orders)[x]
  BY <1>1, <1>3, GrownFits
<1>6. LotFits(l, fresh)
  <2>1. o \in 0..Len(fresh) /\ o \in Nat
    BY <1>1, <1>3
  <2> HIDE DEF o
  <2>2. /\ l \in LotRecord /\ l.stop \in {d.lot.stop, o} /\ l.trail \in {d.lot.trail, o}
        /\ l.tp = d.lot.tp
    BY <1>5, <2>1 DEF LotFits, LotRecord
  <2> HIDE DEF l
  <2> QED BY <1>5, <2>1, <2>2 DEF LotFits
<1>7. QueueFits(p, fresh)
  <2>1. p = d.pending \o <<o>> /\ <<o>> \in Seq(1..Len(fresh))
    <3>1. o \in 1..Len(fresh)
      BY <1>1, <1>3
    <3> HIDE DEF o
    <3> QED BY <3>1, DeskIs
  <2>2. Protect!ToSet(<<o>>) = {o} /\ Protect!IsInjective(<<o>>)
    BY DEF Protect!ToSet, Protect!IsInjective
  <2>3. Protect!ToSet(d.pending) \subseteq 1..Len(d.orders) /\ d.pending \in Seq(1..Len(fresh))
        /\ Protect!IsInjective(d.pending)
    BY <1>1, <1>5, RowsOf DEF QueueFits
  <2>4. o \notin Protect!ToSet(d.pending)
    BY <1>1, <2>3
  <2>5. /\ p \in Seq(1..Len(fresh)) /\ Protect!IsInjective(p)
        /\ Protect!ToSet(p) = Protect!ToSet(d.pending) \cup {o}
    <3> DEFINE q == <<o>>
    <3>1. /\ q \in Seq(1..Len(fresh)) /\ Protect!ToSet(q) = {o} /\ Protect!IsInjective(q)
          /\ p = d.pending \o q
      BY <2>1, <2>2
    <3> HIDE DEF q, p, o
    <3>2. Protect!ToSet(d.pending) \cap Protect!ToSet(q) = {}
      BY <2>4, <3>1
    <3> QED BY <2>3, <3>1, <3>2, RowsJoined
  <2>6. \A x \in Protect!ToSet(d.pending) : Tips(fresh)[x] # o
    <3>1. ASSUME NEW x \in 1..Len(d.orders) PROVE Tips(fresh)[x] \in x..Len(d.orders)
      BY <1>1, <1>5, TipFits DEF OrdersFit
    <3> QED BY <1>1, <2>3, <3>1
  <2>7. ChainsApart(Protect!ToSet(p), fresh)
    <3> HIDE DEF o, p
    <3> QED BY <1>3, <1>5, <2>5, <2>6 DEF QueueFits, ChainsApart
  <2> QED BY <2>5, <2>7 DEF QueueFits
<1>8. DeskFits([lot |-> d.lot, pending |-> p, orders |-> fresh])
      /\ DeskFits([lot |-> l, pending |-> p, orders |-> fresh])
  <2> HIDE DEF l, p
  <2> QED BY <1>3, <1>5, <1>6, <1>7, DeskOf
<1>9. \/ Protect!Place(d, k, fault) = d
      \/ Protect!Place(d, k, fault) = [d EXCEPT !.orders = back]
      \/ Protect!Place(d, k, fault) = [lot |-> d.lot, pending |-> p, orders |-> fresh]
      \/ Protect!Place(d, k, fault) = [lot |-> l, pending |-> p, orders |-> fresh]
  BY DEF Protect!Place, back, fresh
<1>10. l.open = d.lot.open /\ [d EXCEPT !.orders = back].lot = d.lot
  BY DeskIs DEF LotRecord
<1> HIDE DEF l, p
<1>11. DeskFits(Protect!Place(d, k, fault))
  BY <1>4, <1>8, <1>9
<1>12. Protect!Place(d, k, fault).lot.open = d.lot.open
  <2> DEFINE new == Protect!Place(d, k, fault)
             e == [d EXCEPT !.orders = back]
  <2>1. /\ e.lot.open = d.lot.open
        /\ \/ new = d \/ new = e \/ new = [lot |-> d.lot, pending |-> p, orders |-> fresh]
           \/ new = [lot |-> l, pending |-> p, orders |-> fresh]
    BY <1>9, <1>10
  <2> HIDE DEF new, e
  <2>2. new.lot \in {d.lot, e.lot, l}
    BY <2>1
  <2>3. new.lot.open = d.lot.open
    BY <1>10, <2>1, <2>2
  <2> QED BY <2>3 DEF new
<1> QED BY <1>11, <1>12

LEMMA ProtectedFits ==
    ASSUME NEW d, DeskFits(d), NEW fault, bracket \in BOOLEAN
    PROVE  DeskFits(Protect!Protected(d, fault))
           /\ Protect!Protected(d, fault).lot.open = d.lot.open
<1> DEFINE s == Protect!Freed(d, "stop")
           t == Protect!Freed(d, "trail")
<1>1. DeskFits(s) /\ DeskFits(t) /\ s.lot.open = d.lot.open /\ t.lot.open = d.lot.open
  BY FreedFits
<1>2. \/ Protect!Protected(d, fault) = d
      \/ Protect!Protected(d, fault) = Protect!Place(s, "trail", fault)
      \/ Protect!Protected(d, fault) = Protect!Place(d, "stop", fault)
      \/ Protect!Protected(d, fault) = Protect!Place(t, "stop", fault)
  BY DEF Protect!Protected
<1> HIDE DEF s, t
<1> QED BY <1>1, <1>2, PlaceFits

-----------------------------------------------------------------------------
(* The shape of the state, whatever fails and whatever is replaced.           *)

SweepTasks == {"freshen", "cover", "sweep", "poll", "settle", "orphans", "sync", "rest"}

SweepTyped ==
    /\ DeskFits(Protect!desk)
    /\ {shared, bracket, trailing} \subseteq BOOLEAN /\ price \in Protect!Prices \cup {Protect!Unseen}
    /\ listed \subseteq 1..Len(orders)
    /\ exit \in {"none", "working", "dead", "filled"}
    /\ task \in SweepTasks
    /\ ends \in 0..MaxEnds /\ replaced \in 0..MaxReplaced /\ errors \in 0..SweepFaults
    /\ task \in {"sweep", "poll"} => lot.open /\ exit = "none"

LEMMA TasksAre ==
    /\ Protect!ToSet(Protect!Tasks) = SweepTasks
    /\ Protect!After("freshen") = "cover" /\ Protect!After("cover") = "sweep"
    /\ Protect!After("sweep") = "poll" /\ Protect!After("poll") = "settle"
    /\ Protect!After("settle") = "orphans" /\ Protect!After("orphans") = "sync"
    /\ Protect!After("sync") = "rest"
<1> DEFINE ts == Protect!Tasks
<1>1. /\ DOMAIN ts = 1..8 /\ Len(ts) = 8
      /\ ts[1] = "freshen" /\ ts[2] = "cover" /\ ts[3] = "sweep" /\ ts[4] = "poll"
      /\ ts[5] = "settle" /\ ts[6] = "orphans" /\ ts[7] = "sync" /\ ts[8] = "rest"
  BY DEF Protect!Tasks
<1>2. Protect!ToSet(ts) = SweepTasks
  <2> HIDE DEF ts
  <2>1. 1..8 = {1, 2, 3, 4, 5, 6, 7, 8}
    OBVIOUS
  <2>2. Protect!ToSet(ts) = {ts[i] : i \in {1, 2, 3, 4, 5, 6, 7, 8}}
    BY <1>1, <2>1 DEF Protect!ToSet
  <2> QED BY <1>1, <2>2 DEF SweepTasks
<1>3. ASSUME NEW t, NEW n \in 2..8, ts[n - 1] = t,
             \A i \in 2..8 : ts[i - 1] = t => i = n
      PROVE  Protect!After(t) = ts[n]
  <2>1. (CHOOSE i \in 2..Len(Protect!Tasks) : Protect!Tasks[i - 1] = t) = n
    BY <1>1, <1>3
  <2> QED BY <2>1 DEF Protect!After
<1>4. 2..8 = {2, 3, 4, 5, 6, 7, 8}
  OBVIOUS
<1> HIDE DEF ts
<1>5. \A i \in 2..8 : /\ ts[i - 1] = "freshen" => i = 2
                      /\ ts[i - 1] = "cover" => i = 3
                      /\ ts[i - 1] = "sweep" => i = 4
                      /\ ts[i - 1] = "poll" => i = 5
                      /\ ts[i - 1] = "settle" => i = 6
                      /\ ts[i - 1] = "orphans" => i = 7
                      /\ ts[i - 1] = "sync" => i = 8
  BY <1>1, <1>4
<1>6. /\ ts[2 - 1] = "freshen" /\ ts[3 - 1] = "cover" /\ ts[4 - 1] = "sweep" /\ ts[5 - 1] = "poll"
      /\ ts[6 - 1] = "settle" /\ ts[7 - 1] = "orphans" /\ ts[8 - 1] = "sync"
  BY <1>1
<1>7. Protect!After("freshen") = "cover"
  BY <1>1, <1>3, <1>5, <1>6
<1>8. Protect!After("cover") = "sweep"
  BY <1>1, <1>3, <1>5, <1>6
<1>9. Protect!After("sweep") = "poll"
  BY <1>1, <1>3, <1>5, <1>6
<1>10. Protect!After("poll") = "settle"
  BY <1>1, <1>3, <1>5, <1>6
<1>11. Protect!After("settle") = "orphans"
  BY <1>1, <1>3, <1>5, <1>6
<1>12. Protect!After("orphans") = "sync"
  BY <1>1, <1>3, <1>5, <1>6
<1>13. Protect!After("sync") = "rest"
  BY <1>1, <1>3, <1>5, <1>6
<1> QED BY <1>2, <1>7, <1>8, <1>9, <1>10, <1>11, <1>12, <1>13 DEF ts

\* The parts of the desk, of this state and of the next.
LEMMA DeskNow ==
    DeskFits(Protect!desk) <=>
       OrdersFit(orders) /\ LotFits(lot, orders) /\ QueueFits(pending, orders)
<1>1. /\ Protect!desk.lot = lot /\ Protect!desk.pending = pending
      /\ Protect!desk.orders = orders
  BY DEF Protect!desk
<1>2. OrdersFit(orders) /\ LotFits(lot, orders) /\ QueueFits(pending, orders)
      => DeskFits(Protect!desk)
  BY DeskOf DEF Protect!desk
<1> QED BY <1>1, <1>2 DEF DeskFits

LEMMA DeskBecomes ==
    ASSUME NEW d, DeskFits(d), Protect!Become(d), bracket' = bracket
    PROVE  DeskFits(Protect!desk)'
<1>1. Protect!desk' = [lot |-> d.lot, pending |-> d.pending, orders |-> d.orders]
  BY DEF Protect!desk, Protect!Become
<1>2. Protect!desk' = d
  BY <1>1, DeskIs
<1> QED BY <1>2 DEF DeskFits, OrdersFit, LotFits, QueueFits, ChainsApart, Chained

LEMMA DeskBecomesOf ==
    ASSUME NEW os, OrdersFit(os), NEW l, LotFits(l, os), NEW p, QueueFits(p, os),
           lot' = l, pending' = p, orders' = os, bracket' = bracket
    PROVE  DeskFits(Protect!desk)'
<1>1. DeskFits([lot |-> l, pending |-> p, orders |-> os])
  BY DeskOf
<1>2. Protect!Become([lot |-> l, pending |-> p, orders |-> os])
  BY DEF Protect!Become
<1> QED BY <1>1, <1>2, DeskBecomes

\* An order fills, and the twin it has is canceled.
LEMMA FillFits ==
    ASSUME NEW os, OrdersFit(os), NEW o \in 1..Len(os), os[o].status = "new",
           bracket \in BOOLEAN
    PROVE  LET ot == [Protect!CancelAll(os, {Protect!Twin(o)}) EXCEPT ![o].status = "filled"]
           IN  /\ OrdersFit(ot) /\ Grown(os, ot) /\ Len(ot) = Len(os) /\ DOMAIN ot = DOMAIN os
               /\ ot[o].status = "filled"
               /\ \A x \in 1..Len(os) : x # o =>
                     IF os[x].status = "new" /\ x = Protect!Twin(o)
                     THEN ot[x].status = "canceled" ELSE ot[x] = os[x]
<1> DEFINE oc == Protect!CancelAll(os, {Protect!Twin(o)})
           ot == [oc EXCEPT ![o].status = "filled"]
<1>1. /\ OrdersFit(oc) /\ Grown(os, oc) /\ Len(oc) = Len(os) /\ DOMAIN oc = DOMAIN os
      /\ \A x \in 1..Len(os) :
            IF os[x].status = "new" /\ {x, Protect!Twin(x)} \cap {Protect!Twin(o)} # {}
            THEN oc[x].status = "canceled" ELSE oc[x] = os[x]
  <2> DEFINE S == {Protect!Twin(o)}
  <2> HIDE DEF S
  <2>1. LET oc2 == Protect!CancelAll(os, S)
        IN  /\ OrdersFit(oc2) /\ Grown(os, oc2) /\ Len(oc2) = Len(os) /\ DOMAIN oc2 = DOMAIN os
            /\ \A x \in 1..Len(os) :
                  IF os[x].status = "new" /\ {x, Protect!Twin(x)} \cap S # {}
                  THEN oc2[x].status = "canceled" ELSE oc2[x] = os[x]
    BY CancelFits
  <2> QED BY <2>1 DEF S
<1>2. \A x : Protect!Twin(Protect!Twin(x)) = x
  BY DEF Protect!Twin
<1>3. \A x \in 1..Len(os) : x # o =>
         ({x, Protect!Twin(x)} \cap {Protect!Twin(o)} # {} <=> x = Protect!Twin(o))
  BY <1>2
<1> HIDE DEF oc
<1>4. /\ oc \in Seq(OrderRecord) /\ Len(oc) \in Nat /\ DOMAIN oc = 1..Len(oc)
      /\ \A x \in 1..Len(oc) : oc[x] \in OrderRecord
  BY <1>1, OrdersAre
<1> DEFINE r == [oc[o] EXCEPT !.status = "filled"]
<1>5. /\ r \in OrderRecord /\ r.status = "filled" /\ r.kind = oc[o].kind /\ r.next = oc[o].next
      /\ oc[o].status # "replaced"
  BY <1>1, <1>4 DEF OrderRecord
<1> HIDE DEF r
<1>6. ot = [oc EXCEPT ![o] = r]
  BY DEF r
<1>7. /\ ot \in Seq(OrderRecord) /\ Len(ot) = Len(oc) /\ DOMAIN ot = DOMAIN oc
      /\ ot[o] = r /\ \A x \in 1..Len(oc) : x # o => ot[x] = oc[x]
  BY <1>1, <1>4, <1>5, <1>6, ExceptSeq
<1> HIDE DEF ot
<1>8. Grown(os, ot)
  BY <1>1, <1>5, <1>7 DEF Grown
<1>9. OrdersFit(ot)
  <2>1. Chained(ot)
    BY <1>1, <1>5, <1>7 DEF OrdersFit, Chained
  <2>2. \A x \in 1..Len(ot) : /\ ot[x].status = "replaced" => ot[x].kind = "trail"
                              /\ ot[x].status # "replaced" => ot[x].next = 0
    BY <1>1, <1>5, <1>7 DEF OrdersFit
  <2>3. bracket => Len(ot) >= 2 /\ ot[1].kind = "stop" /\ ot[2].kind = "tp"
    BY <1>1, <1>4, <1>5, <1>7 DEF OrdersFit
  <2> QED BY <2>1, <2>2, <2>3 DEF OrdersFit
<1>10. \A x \in 1..Len(os) : x # o =>
          IF os[x].status = "new" /\ x = Protect!Twin(o)
          THEN ot[x].status = "canceled" ELSE ot[x] = os[x]
  BY <1>1, <1>3, <1>7
<1> QED BY <1>1, <1>5, <1>7, <1>8, <1>9, <1>10 DEF ot, oc

\* The broker replaces a trailing stop: a row that led to the old order leads to
\* the new one.
LEMMA ReplaceFits ==
    ASSUME NEW os, OrdersFit(os), NEW r \in 1..Len(os),
           os[r].status = "new", os[r].kind = "trail"
    PROVE  LET old == [kind |-> "trail", status |-> "replaced", next |-> Len(os) + 1]
               ot == Append([os EXCEPT ![r] = old], Protect!Order("trail"))
           IN  /\ OrdersFit(ot) /\ Len(ot) = Len(os) + 1
               /\ \A l : LotFits(l, os) => LotFits(l, ot)
               /\ \A p : QueueFits(p, os) => QueueFits(p, ot)
<1> DEFINE old == [kind |-> "trail", status |-> "replaced", next |-> Len(os) + 1]
           om == [os EXCEPT ![r] = old]
           new == Protect!Order("trail")
           ot == Append(om, new)
<1>1. /\ os \in Seq(OrderRecord) /\ Len(os) \in Nat /\ DOMAIN os = 1..Len(os)
      /\ \A x \in 1..Len(os) : os[x] \in OrderRecord
  BY OrdersAre
<1>2. /\ old \in OrderRecord /\ old.status = "replaced" /\ old.kind = "trail"
      /\ old.next = Len(os) + 1
  BY <1>1 DEF OrderRecord
<1> HIDE DEF old
<1>4. /\ om \in Seq(OrderRecord) /\ Len(om) = Len(os) /\ om[r] = old
      /\ \A x \in 1..Len(os) : x # r => om[x] = os[x]
  BY <1>1, <1>2, ExceptSeq
<1> HIDE DEF om
<1>5. new \in OrderRecord /\ new.status = "new" /\ new.next = 0 /\ new.kind = "trail"
  BY OrderIs
<1> HIDE DEF new
<1>6. /\ ot \in Seq(OrderRecord) /\ Len(ot) = Len(os) + 1 /\ ot[r] = old
      /\ ot[Len(os) + 1] = new /\ \A x \in 1..Len(os) : x # r => ot[x] = os[x]
  BY <1>1, <1>4, <1>5, AppendProperties
<1> HIDE DEF ot
<1>7. \A x \in 1..Len(ot) : x = r \/ x = Len(os) + 1 \/ (x \in 1..Len(os) /\ x # r /\ ot[x] = os[x])
  BY <1>1, <1>6
<1>8. Chained(ot)
  <2>1. \A x \in 1..Len(os) : (x + 1)..Len(os) \subseteq (x + 1)..Len(ot)
                              /\ Len(os) + 1 \in (x + 1)..Len(ot)
    BY <1>1, <1>6
  <2> QED BY <1>2, <1>5, <1>6, <1>7, <2>1 DEF OrdersFit, Chained
<1>9. OrdersFit(ot)
  <2>1. bracket => Len(ot) >= 2 /\ ot[1].kind = "stop" /\ ot[2].kind = "tp"
    <3>1. bracket => r # 1 /\ r # 2 /\ 1 \in 1..Len(os) /\ 2 \in 1..Len(os)
      BY <1>1 DEF OrdersFit
    <3> QED BY <1>1, <1>6, <3>1 DEF OrdersFit
  <2>2. \A o \in 1..Len(ot) : /\ ot[o].status = "replaced" => ot[o].kind = "trail"
                              /\ ot[o].status # "replaced" => ot[o].next = 0
    BY <1>2, <1>5, <1>6, <1>7 DEF OrdersFit
  <2> QED BY <1>8, <2>1, <2>2 DEF OrdersFit
<1>10. \A o \in 1..Len(os) :
          Tips(ot)[o] = IF Tips(os)[o] = r THEN Len(os) + 1 ELSE Tips(os)[o]
  BY <1>2, <1>5, <1>6, <1>8, TipsReplaced DEF OrdersFit
<1>11. 1..Len(os) \subseteq 1..Len(ot) /\ 0..Len(os) \subseteq 0..Len(ot)
  BY <1>1, <1>6
<1>12. ASSUME NEW l, LotFits(l, os) PROVE LotFits(l, ot)
  <2>1. l.tp # 0 => l.tp \in 1..Len(os) /\ l.tp # r
    BY <1>1, <1>12 DEF LotFits, LotRecord
  <2> QED BY <1>6, <1>11, <1>12, <2>1 DEF LotFits
<1>13. ASSUME NEW p, QueueFits(p, os) PROVE QueueFits(p, ot)
  <2>1. p \in Seq(1..Len(ot))
    BY <1>11, <1>13, SeqMonotonic DEF QueueFits
  <2>2. Protect!ToSet(p) \subseteq 1..Len(os)
    BY <1>13, QueueIs
  <2>3. \A x \in 1..Len(os) : Tips(os)[x] # Len(os) + 1
    <3>1. \A x \in 1..Len(os) : Tips(os)[x] \in x..Len(os)
      BY TipFits DEF OrdersFit
    <3> QED BY <1>1, <3>1
  <2>4. ChainsApart(Protect!ToSet(p), ot)
    BY <1>10, <1>13, <2>2, <2>3 DEF QueueFits, ChainsApart
  <2> QED BY <1>13, <2>1, <2>4 DEF QueueFits
<1> QED BY <1>6, <1>9, <1>12, <1>13 DEF ot, om, old, new

\* The reconciler closes the entry, perhaps, and rows of what fired go.
LEMMA ReconciledFits ==
    ASSUME SweepTyped, NEW l, LotFits(l, orders), NEW p, QueueFits(p, orders)
    PROVE  DeskFits(Protect!Reconciled(l, p))
<1>1. OrdersFit(orders)
  BY DeskNow DEF SweepTyped
<1>2. QueueFits(Protect!Without(p, Protect!Fired), orders)
  BY <1>1, WithoutFits
<1>3. LotFits([l EXCEPT !.open = FALSE], orders)
  BY DEF LotFits, LotRecord
<1> QED BY <1>1, <1>2, <1>3, DeskOf DEF Protect!Reconciled

LEMMA ParametersFit == MaxEnds \in Nat /\ MaxReplaced \in Nat /\ SweepFaults \in Nat
BY ServicesAssumption DEF Protect!SweepAssumption

LEMMA FaultsStay ==
    ASSUME NEW f, Protect!Fault(f), errors \in 0..SweepFaults
    PROVE  errors' \in 0..SweepFaults
BY ParametersFit DEF Protect!Fault

LEMMA TypedParts ==
    ASSUME SweepTyped
    PROVE  /\ OrdersFit(orders) /\ LotFits(lot, orders) /\ QueueFits(pending, orders)
           /\ bracket \in BOOLEAN /\ Len(orders) \in Nat /\ DOMAIN orders = 1..Len(orders)
           /\ lot.open \in BOOLEAN
BY DeskNow, OrdersAre DEF SweepTyped, LotFits, LotRecord

\* The pointers named are canceled, and cleared if that is confirmed.
LEMMA ExitFits ==
    ASSUME SweepTyped, NEW os, OrdersFit(os), Grown(orders, os), Len(os) = Len(orders),
           Protect!Exit(os), bracket' = bracket
    PROVE  /\ DeskFits(Protect!desk)' /\ Len(orders') = Len(orders)
           /\ lot'.open = lot.open
           /\ exit' \in {exit, "working"} /\ errors' \in 0..SweepFaults
<1> DEFINE after == Protect!CancelAll(os, Protect!Columns(lot))
<1>1. OrdersFit(after) /\ Grown(os, after) /\ Len(after) = Len(os)
  BY TypedParts, CancelFits
<1>2. /\ orders' = after /\ pending' = pending
      /\ lot' = lot \/ lot' = Protect!Cleared(lot)
      /\ exit' \in {exit, "working"} /\ errors' \in 0..SweepFaults
  BY FaultsStay DEF Protect!Exit, SweepTyped
<1> HIDE DEF after
<1>3. LotFits(lot, after) /\ QueueFits(pending, after)
  BY <1>1, TypedParts, GrownFits
<1>4. LotFits(Protect!Cleared(lot), after) /\ Protect!Cleared(lot).open = lot.open
  <2> DEFINE l == Protect!Cleared(lot)
  <2>1. Len(after) \in Nat /\ 0 \in 0..Len(after)
    BY <1>1, OrdersAre
  <2>2. /\ l \in LotRecord /\ l.stop = 0 /\ l.trail = 0 /\ l.tp = 0 /\ l.open = lot.open
    BY <1>3 DEF LotFits, LotRecord, Protect!Cleared, Protect!None
  <2> HIDE DEF l
  <2>3. LotFits(l, after)
    BY <2>1, <2>2 DEF LotFits
  <2> QED BY <2>2, <2>3 DEF l
<1>5. LotFits(lot', after) /\ lot'.open = lot.open
  BY <1>2, <1>3, <1>4
<1>6. DeskFits(Protect!desk)'
  BY <1>1, <1>2, <1>3, <1>5, DeskBecomesOf
<1> QED BY <1>1, <1>2, <1>5, <1>6

LEMMA SweepFits ==
    ASSUME SweepTyped, Protect!Sweep
    PROVE  SweepTyped'
<1>1. /\ task = "sweep" /\ task' = "poll" /\ listed' = {}
      /\ UNCHANGED <<shared, bracket, trailing, price, exit, ends, replaced>>
  BY TasksAre DEF Protect!Sweep, Protect!Run, Protect!fixed
<1>2. PICK fault \in (SweepFaultKinds \ {"task", "list"}) \cup {"none"} :
         /\ Protect!Fault(fault)
         /\ LET child == bracket /\ fault # "parent"
                base == IF child THEN Protect!Healed(Protect!desk) ELSE Protect!desk
                drained == Protect!Sunset(base)
                marked == Protect!Marked(drained)
            IN  Protect!Become(IF child /\ Protect!LiveChild THEN base
                               ELSE IF Protect!InForce(drained) THEN drained
                               ELSE IF Protect!Cover(marked) # {} THEN Protect!Relinked(marked)
                               ELSE IF fault = "limited" THEN marked
                               ELSE Protect!Protected(marked, fault))
  BY DEF Protect!Sweep
<1> DEFINE child == bracket /\ fault # "parent"
           base == IF child THEN Protect!Healed(Protect!desk) ELSE Protect!desk
           drained == Protect!Sunset(base)
           marked == Protect!Marked(drained)
<1>3. \/ Protect!Become(base) \/ Protect!Become(drained)
      \/ Protect!Cover(marked) # {} /\ Protect!Become(Protect!Relinked(marked))
      \/ Protect!Become(marked) \/ Protect!Become(Protect!Protected(marked, fault))
  BY <1>2
<1>4. DeskFits(Protect!desk) /\ bracket \in BOOLEAN
  BY DEF SweepTyped
<1>5. DeskFits(base)
  BY <1>4, HealedFits
<1>6. base.lot.open = lot.open
  <2>1. Protect!desk.lot = lot
    BY DEF Protect!desk
  <2>2. Stamped(Protect!desk.lot).open = lot.open
    BY <1>4, <2>1 DEF Stamped, DeskFits, LotFits, LotRecord
  <2> QED BY <2>1, <2>2, HealedIs
<1> HIDE DEF base
<1>7. DeskFits(drained) /\ drained.lot.open = lot.open
  BY <1>4, <1>5, <1>6, SunsetFits, SunsetIs DEF DeskFits, LotFits, LotRecord
<1> HIDE DEF drained
<1>8. DeskFits(marked) /\ marked.lot.open = lot.open
  <2>1. DeskFits(Protect!Marked(drained)) /\ Protect!Marked(drained).lot = drained.lot
    BY <1>7, MarkedIs
  <2> QED BY <1>7, <2>1
<1> HIDE DEF marked
<1>9. PICK d : DeskFits(d) /\ d.lot.open = lot.open /\ Protect!Become(d)
  <2>1. CASE Protect!Become(base)
    BY <1>5, <1>6, <2>1
  <2>2. CASE Protect!Become(drained)
    BY <1>7, <2>2
  <2>3. CASE Protect!Cover(marked) # {} /\ Protect!Become(Protect!Relinked(marked))
    BY <1>8, <2>3, RelinkedIs
  <2>4. CASE Protect!Become(marked)
    BY <1>8, <2>4
  <2>5. CASE Protect!Become(Protect!Protected(marked, fault))
    BY <1>4, <1>8, <2>5, ProtectedFits
  <2> QED BY <1>3, <2>1, <2>2, <2>3, <2>4, <2>5
<1>10. DeskFits(Protect!desk)' /\ lot'.open = lot.open
  BY <1>1, <1>9, DeskBecomes DEF Protect!Become
<1>11. errors' \in 0..SweepFaults
  BY <1>2, FaultsStay DEF SweepTyped
<1> QED BY <1>1, <1>10, <1>11 DEF SweepTyped, SweepTasks

\* What a task leaves of the variables beside the books.
LEMMA TypedAgain ==
    ASSUME SweepTyped, DeskFits(Protect!desk)', Len(orders) <= Len(orders'),
           UNCHANGED <<shared, bracket, trailing>>,
           price' \in Protect!Prices \cup {Protect!Unseen},
           listed' \subseteq 1..Len(orders'),
           exit' \in {"none", "working", "dead", "filled"}, task' \in SweepTasks,
           ends' \in 0..MaxEnds, replaced' \in 0..MaxReplaced, errors' \in 0..SweepFaults,
           task' \in {"sweep", "poll"} => lot'.open /\ exit' = "none"
    PROVE  SweepTyped'
BY DEF SweepTyped, SweepTasks

LEMMA ListStays ==
    ASSUME SweepTyped, listed' = listed, Len(orders) <= Len(orders'), Len(orders') \in Nat
    PROVE  listed' \subseteq 1..Len(orders')
<1>1. Len(orders) \in Nat
  BY TypedParts
<1>2. 1..Len(orders) \subseteq 1..Len(orders')
  BY <1>1
<1> QED BY <1>2 DEF SweepTyped

LEMMA DeskStays ==
    ASSUME SweepTyped, UNCHANGED <<lot, pending, orders, bracket>>
    PROVE  DeskFits(Protect!desk)'
BY TypedParts, DeskBecomesOf

\* Rows and the trail's pointer move to where their chains end.
LEMMA SyncFits ==
    ASSUME SweepTyped, Protect!SyncPending
    PROVE  DeskFits(Protect!desk)'
<1> DEFINE Moved(o) == IF Protect!Status(orders, o) = "replaced" /\ o \in Protect!ToSet(pending)
                          /\ orders[Protect!Tip(o)].status # "filled"
                       THEN Protect!Tip(o) ELSE o
           dead == {o \in Protect!ToSet(pending) : orders[o].status = "canceled"}
           q == [i \in DOMAIN pending |-> Moved(pending[i])]
           l == [lot EXCEPT !.trail = Moved(@)]
<1>1. pending' = Protect!Without(q, dead) /\ lot' = l /\ orders' = orders /\ bracket' = bracket
  BY DEF Protect!SyncPending, Protect!fixed
<1>2. /\ OrdersFit(orders) /\ LotFits(lot, orders) /\ QueueFits(pending, orders)
      /\ Len(orders) \in Nat /\ DOMAIN orders = 1..Len(orders) /\ Chained(orders)
  BY TypedParts DEF OrdersFit
<1>3. ASSUME NEW o \in 1..Len(orders)
      PROVE  /\ Moved(o) \in 1..Len(orders)
             /\ Tips(orders)[Moved(o)] = Tips(orders)[o]
  <2>1. /\ Tips(orders)[o] \in o..Len(orders) /\ orders[Tips(orders)[o]].status # "replaced"
        /\ Protect!Tip(o) = Tips(orders)[o]
    BY <1>2, TipFits, TipIs
  <2>2. Tips(orders)[o] \in 1..Len(orders)
    BY <1>2, <2>1
  <2>3. Tips(orders)[Tips(orders)[o]] = Tips(orders)[o]
    BY <1>2, <2>1, <2>2, TipSteps
  <2> QED BY <2>1, <2>2, <2>3
<1>4. Moved(0) = 0
  BY <1>2 DEF Protect!Status
<1>5. /\ pending \in Seq(1..Len(orders)) /\ Len(pending) \in Nat
      /\ DOMAIN pending = 1..Len(pending)
      /\ \A i \in 1..Len(pending) : pending[i] \in 1..Len(orders)
                                    /\ pending[i] \in Protect!ToSet(pending)
  BY <1>2, RowsOf, LenProperties, ElementOfSeq DEF QueueFits
<1> HIDE DEF Moved
<1>6. /\ q \in Seq(1..Len(orders)) /\ DOMAIN q = DOMAIN pending
      /\ \A i \in DOMAIN pending : q[i] = Moved(pending[i])
  <2>1. q \in [1..Len(pending) -> 1..Len(orders)]
    BY <1>3, <1>5
  <2>2. q \in Seq(1..Len(orders))
    <3> HIDE DEF q
    <3> QED BY <1>5, <2>1, SeqDef
  <2> QED BY <2>2
<1> HIDE DEF q
<1>7. \A i, j \in DOMAIN pending : Tips(orders)[q[i]] = Tips(orders)[q[j]] => i = j
  <2> SUFFICES ASSUME NEW i \in DOMAIN pending, NEW j \in DOMAIN pending,
                      Tips(orders)[q[i]] = Tips(orders)[q[j]]
               PROVE  i = j
    OBVIOUS
  <2>1. Tips(orders)[pending[i]] = Tips(orders)[pending[j]]
    BY <1>3, <1>5, <1>6
  <2>2. pending[i] = pending[j]
    BY <1>2, <1>5, <2>1 DEF QueueFits, ChainsApart
  <2> QED BY <1>2, <2>2 DEF QueueFits, Protect!IsInjective
<1>8. QueueFits(q, orders)
  <2>1. Protect!IsInjective(q)
    BY <1>6, <1>7 DEF Protect!IsInjective
  <2>2. ChainsApart(Protect!ToSet(q), orders)
    BY <1>6, <1>7 DEF ChainsApart, Protect!ToSet
  <2> QED BY <1>6, <2>1, <2>2 DEF QueueFits
<1>9. LotFits(l, orders)
  <2> DEFINE t == Moved(lot.trail)
  <2>1. lot.trail \in 0..Len(orders) /\ lot \in LotRecord
    BY <1>2 DEF LotFits
  <2>2. t \in 0..Len(orders) /\ t \in Nat
    <3>1. CASE lot.trail = 0
      BY <1>2, <1>4, <3>1
    <3>2. CASE lot.trail \in 1..Len(orders)
      BY <1>2, <1>3, <3>2
    <3> QED BY <1>2, <2>1, <3>1, <3>2
  <2>3. l = [lot EXCEPT !.trail = t]
    BY <2>1 DEF LotRecord
  <2> HIDE DEF t, l
  <2>4. l \in LotRecord /\ l.stop = lot.stop /\ l.tp = lot.tp /\ l.trail = t
    BY <2>1, <2>2, <2>3 DEF LotRecord
  <2> QED BY <1>2, <2>2, <2>4 DEF LotFits
<1>10. QueueFits(Protect!Without(q, dead), orders)
  BY <1>2, <1>8, WithoutFits
<1> HIDE DEF dead, l
<1> QED BY <1>1, <1>2, <1>9, <1>10, DeskBecomesOf

LEMMA SettleFits ==
    ASSUME SweepTyped, Protect!Settle
    PROVE  DeskFits(Protect!desk)'
<1> DEFINE over == {o \in Protect!ToSet(pending) :
                       Protect!Status(orders, Protect!Tip(o)) \in {"filled", "canceled"}}
           closed == exit = "filled" \/ Protect!ToSet(pending) \cap Protect!Fired # {}
           l == [lot EXCEPT !.open = @ /\ ~closed]
           p == Protect!Without(pending, over)
<1>1. Protect!Become(Protect!Reconciled(l, p)) /\ bracket' = bracket
  BY DEF Protect!Settle, Protect!fixed
<1>2. QueueFits(p, orders)
  BY TypedParts, WithoutFits
<1>3. LotFits(l, orders)
  <2>1. LotFits(lot, orders)
    BY TypedParts
  <2>2. (lot.open /\ ~closed) \in BOOLEAN
    OBVIOUS
  <2> HIDE DEF closed
  <2> QED BY <2>1, <2>2 DEF LotFits, LotRecord
<1> HIDE DEF l, p
<1> QED BY <1>1, <1>2, <1>3, ReconciledFits, DeskBecomes

LEMMA OrphansFit ==
    ASSUME SweepTyped, Protect!CancelOrphans
    PROVE  DeskFits(Protect!desk)' /\ Len(orders') = Len(orders)
<1>1. CASE lot.open
  BY <1>1, DeskStays DEF Protect!CancelOrphans, Protect!books, Protect!fixed
<1>2. CASE ~lot.open
  <2> DEFINE after == Protect!CancelAll(orders, Protect!Journaled)
             Kept(o) == IF Protect!Status(after, o) = "canceled" THEN 0 ELSE o
             dead == {o \in Protect!ToSet(pending) : Kept(o) = 0}
             s == Kept(lot.stop)
             t == Kept(lot.tp)
             u == Kept(lot.trail)
             l == [lot EXCEPT !.stop = Kept(@), !.tp = Kept(@), !.trail = Kept(@)]
             p == Protect!Without(pending, dead)
  <2>1. lot' = l /\ pending' = p /\ orders' = after /\ bracket' = bracket
    BY <1>2 DEF Protect!CancelOrphans, Protect!Become, Protect!fixed, Protect!None
  <2>2. OrdersFit(after) /\ Grown(orders, after) /\ Len(after) = Len(orders)
    BY TypedParts, CancelFits
  <2> HIDE DEF after
  <2>3. LotFits(lot, after) /\ QueueFits(pending, after) /\ Len(after) \in Nat
    BY <2>2, TypedParts, GrownFits
  <2>4. QueueFits(p, after)
    BY <2>2, <2>3, WithoutFits
  <2>5. lot \in LotRecord /\ {lot.stop, lot.tp, lot.trail} \subseteq 0..Len(after)
        /\ (lot.tp # 0 => after[lot.tp].kind = "tp")
    BY <2>3 DEF LotFits
  <2>6. /\ s \in {0, lot.stop} /\ t \in {0, lot.tp} /\ u \in {0, lot.trail}
    OBVIOUS
  <2>7. l = [lot EXCEPT !.stop = s, !.tp = t, !.trail = u]
    BY <2>5 DEF LotRecord
  <2> HIDE DEF s, t, u, l
  <2>8. l \in LotRecord /\ l.stop = s /\ l.tp = t /\ l.trail = u
    <3>1. s \in Nat /\ t \in Nat /\ u \in Nat /\ lot \in LotRecord
      BY <2>5, <2>6 DEF LotRecord
    <3>2. l.stop = s /\ l.tp = t /\ l.trail = u
      BY <2>7, <3>1 DEF LotRecord
    <3>3. l \in LotRecord
      BY <2>7, <3>1 DEF LotRecord
    <3> QED BY <3>2, <3>3
  <2>9. LotFits(l, after)
    BY <2>3, <2>5, <2>6, <2>8 DEF LotFits
  <2> HIDE DEF p
  <2> QED BY <2>1, <2>2, <2>4, <2>9, DeskBecomesOf
<1> QED BY <1>1, <1>2

LEMMA SweepTypedStays == SweepTyped /\ [Protect!Next]_Protect!vars => SweepTyped'
<1> SUFFICES ASSUME SweepTyped, [Protect!Next]_Protect!vars PROVE SweepTyped'
  OBVIOUS
<1>p. /\ OrdersFit(orders) /\ LotFits(lot, orders) /\ QueueFits(pending, orders)
      /\ bracket \in BOOLEAN /\ Len(orders) \in Nat /\ DOMAIN orders = 1..Len(orders)
      /\ lot.open \in BOOLEAN
  BY TypedParts
<1>s. UNCHANGED <<lot, pending, orders, bracket>> => DeskFits(Protect!desk)'
  BY DeskStays
<1>l. listed' = listed /\ Len(orders') = Len(orders) => listed' \subseteq 1..Len(orders')
  BY <1>p, ListStays
<1>1. CASE UNCHANGED Protect!vars
  BY <1>1, <1>p, <1>s DEF Protect!vars, Protect!fixed, Protect!books, SweepTyped, SweepTasks
<1>2. CASE Protect!Freshen
  <2>1. DeskFits(Protect!desk)' /\ orders' = orders
    <3>1. DeskFits(Protect!Reconciled(lot, pending))
      BY <1>p, ReconciledFits
    <3>2. Protect!Reconciled(lot, pending).orders = orders
      BY DEF Protect!Reconciled
    <3> QED BY <1>2, <3>1, <3>2, DeskBecomes DEF Protect!Freshen, Protect!Become, Protect!fixed
  <2> QED BY <1>2, <1>p, <1>l, <2>1, TasksAre, TypedAgain DEF Protect!Freshen, Protect!Run,
             Protect!ExitSettled, Protect!fixed, SweepTyped, SweepTasks
<1>3. CASE Protect!Snapshot
  <2>1. listed' \subseteq 1..Len(orders') /\ orders' = orders
    BY <1>3, <1>p DEF Protect!Snapshot, Protect!Alive, Protect!books
  <2>2. errors' \in 0..SweepFaults
    BY <1>3, FaultsStay DEF Protect!Snapshot, SweepTyped
  <2>3. /\ lot.open /\ exit = "none" /\ task' = "sweep" /\ price' \in Protect!Prices
        /\ UNCHANGED <<shared, bracket, trailing, lot, pending, orders, exit, ends, replaced>>
    BY <1>3, TasksAre DEF Protect!Snapshot, Protect!Positioned, Protect!Run, Protect!books,
       Protect!fixed
  <2> QED BY <1>p, <1>s, <2>1, <2>2, <2>3, TypedAgain DEF SweepTyped, SweepTasks
<1>4. CASE Protect!NoPosition
  <2>1. /\ task' = "settle"
        /\ UNCHANGED <<shared, bracket, trailing, lot, pending, orders, price, listed, exit, ends,
                       replaced, errors>>
    BY <1>4 DEF Protect!NoPosition, Protect!books, Protect!fixed
  <2> QED BY <1>p, <1>s, <2>1, TypedAgain DEF SweepTyped, SweepTasks
<1>5. CASE Protect!Sweep
  BY <1>5, SweepFits
<1>6. CASE Protect!Poll
  <2>1. /\ task' = "settle" /\ price' = Protect!Unseen
        /\ UNCHANGED <<shared, bracket, trailing, listed, ends, replaced>>
    BY <1>6, TasksAre DEF Protect!Poll, Protect!Run, Protect!fixed
  <2>2. CASE Protect!Exit(Protect!CancelAll(orders, Protect!Journaled))
    <3> DEFINE os == Protect!CancelAll(orders, Protect!Journaled)
    <3>1. OrdersFit(os) /\ Grown(orders, os) /\ Len(os) = Len(orders)
      BY <1>p, CancelFits
    <3> HIDE DEF os
    <3>2. /\ DeskFits(Protect!desk)' /\ Len(orders') = Len(orders)
          /\ exit' \in {exit, "working"} /\ errors' \in 0..SweepFaults
      BY <2>1, <2>2, <3>1, ExitFits DEF os
    <3> QED BY <1>p, <1>l, <2>1, <3>2, TypedAgain DEF SweepTyped, SweepTasks
  <2>3. CASE UNCHANGED <<Protect!books, exit, errors>>
    BY <1>p, <1>s, <2>1, <2>3, TypedAgain DEF SweepTyped, SweepTasks, Protect!books
  <2> QED BY <1>6, <2>2, <2>3 DEF Protect!Poll
<1>7. CASE Protect!Settle
  <2>1. DeskFits(Protect!desk)'
    BY <1>7, SettleFits
  <2>2. orders' = orders
    BY <1>7 DEF Protect!Settle, Protect!Become, Protect!Reconciled
  <2> QED BY <1>7, <1>p, <1>l, <2>1, <2>2, TasksAre, TypedAgain DEF Protect!Settle, Protect!Run,
             Protect!ExitSettled, Protect!fixed, SweepTyped, SweepTasks
<1>8. CASE Protect!CancelOrphans
  <2>1. DeskFits(Protect!desk)' /\ Len(orders') = Len(orders)
    BY <1>8, OrphansFit
  <2>2. /\ task' = "sync"
        /\ UNCHANGED <<shared, bracket, trailing, price, listed, exit, ends, replaced, errors>>
    BY <1>8, TasksAre DEF Protect!CancelOrphans, Protect!Run, Protect!fixed
  <2> QED BY <1>p, <1>l, <2>1, <2>2, TypedAgain DEF SweepTyped, SweepTasks
<1>9. CASE Protect!SyncPending
  <2>1. DeskFits(Protect!desk)'
    BY <1>9, SyncFits
  <2>2. /\ task' = "rest" /\ orders' = orders
        /\ UNCHANGED <<shared, bracket, trailing, price, listed, exit, ends, replaced, errors>>
    BY <1>9, TasksAre DEF Protect!SyncPending, Protect!Run, Protect!fixed
  <2> QED BY <1>p, <1>l, <2>1, <2>2, TypedAgain DEF SweepTyped, SweepTasks
<1>10. CASE Protect!NewCycle
  <2>1. /\ task' = "freshen"
        /\ UNCHANGED <<shared, bracket, trailing, lot, pending, orders, price, listed, exit, ends,
                       replaced, errors>>
    BY <1>10 DEF Protect!NewCycle, Protect!books, Protect!fixed
  <2> QED BY <1>p, <1>s, <2>1, TypedAgain DEF SweepTyped, SweepTasks
<1>11. CASE Protect!TaskRaises
  <2>1. /\ task' \in SweepTasks \ {"sweep", "poll"}
        /\ UNCHANGED <<shared, bracket, trailing, lot, pending, orders, price, listed, exit, ends,
                       replaced>>
    BY <1>11, TasksAre DEF Protect!TaskRaises, Protect!books, Protect!fixed, SweepTasks
  <2>2. errors' \in 0..SweepFaults
    BY <1>11, FaultsStay DEF Protect!TaskRaises, SweepTyped
  <2> QED BY <1>p, <1>s, <2>1, <2>2, TypedAgain DEF SweepTyped
<1>12. CASE Protect!AiSell
  <2>1. Grown(orders, orders)
    BY <1>p DEF Grown
  <2>2. /\ DeskFits(Protect!desk)' /\ Len(orders') = Len(orders)
        /\ exit' \in {exit, "working"} /\ errors' \in 0..SweepFaults
    BY <1>12, <1>p, <2>1, ExitFits DEF Protect!AiSell, Protect!fixed
  <2>3. /\ task = "rest" /\ task' = task
        /\ UNCHANGED <<shared, bracket, trailing, price, listed, ends, replaced>>
    BY <1>12 DEF Protect!AiSell, Protect!fixed
  <2> QED BY <1>p, <1>l, <2>2, <2>3, TypedAgain DEF SweepTyped, SweepTasks
<1>13. CASE Protect!FillExit \/ Protect!ExitDies
  <2>1. /\ exit = "working" /\ exit' \in {"filled", "dead"} /\ task' = task
        /\ UNCHANGED <<shared, bracket, trailing, lot, pending, orders, price, listed,
                       replaced, errors>>
        /\ ends' = ends \/ (ends < MaxEnds /\ ends' = ends + 1)
    BY <1>13 DEF Protect!FillExit, Protect!ExitDies, Protect!books, Protect!fixed
  <2>2. ends' \in 0..MaxEnds /\ task \notin {"sweep", "poll"}
    BY <2>1, ParametersFit DEF SweepTyped
  <2> QED BY <1>p, <1>s, <2>1, <2>2, TypedAgain DEF SweepTyped
<1>14. CASE \E o \in Protect!Ids : Protect!Fill(o) \/ Protect!Terminate(o)
  <2>1. PICK o \in 1..Len(orders) : Protect!Fill(o) \/ Protect!Terminate(o)
    BY <1>14, <1>p DEF Protect!Ids
  <2>2. orders[o].status = "new"
    BY <1>p, <2>1 DEF Protect!Fill, Protect!Terminate, Protect!Status
  <2>3. PICK os : /\ orders' = os /\ OrdersFit(os) /\ Grown(orders, os)
                  /\ Len(os) = Len(orders)
    <3>1. CASE Protect!Fill(o)
      <4> DEFINE ot == [Protect!CancelAll(orders, {Protect!Twin(o)}) EXCEPT ![o].status = "filled"]
      <4>1. orders' = ot
        BY <3>1 DEF Protect!Fill
      <4>2. OrdersFit(ot) /\ Grown(orders, ot) /\ Len(ot) = Len(orders)
        BY <1>p, <2>2, FillFits
      <4> HIDE DEF ot
      <4> QED BY <4>1, <4>2
    <3>2. CASE Protect!Terminate(o)
      <4> DEFINE S == {o}
      <4>1. orders' = Protect!CancelAll(orders, S)
        BY <3>2 DEF Protect!Terminate
      <4> HIDE DEF S
      <4> QED BY <1>p, <4>1, CancelFits
    <3> QED BY <2>1, <3>1, <3>2
  <2>4. /\ UNCHANGED <<shared, bracket, trailing, lot, pending, price, listed, exit, task,
                       replaced, errors>>
        /\ ends' = ends \/ (ends < MaxEnds /\ ends' = ends + 1)
    BY <2>1 DEF Protect!Fill, Protect!Terminate, Protect!fixed
  <2>5. DeskFits(Protect!desk)'
    BY <1>p, <2>3, <2>4, GrownFits, DeskBecomesOf
  <2>6. ends' \in 0..MaxEnds
    BY <2>4, ParametersFit DEF SweepTyped
  <2> QED BY <1>p, <1>l, <2>3, <2>4, <2>5, <2>6, TypedAgain DEF SweepTyped
<1>15. CASE \E o \in Protect!Ids : Protect!Replace(o)
  <2>1. PICK r \in 1..Len(orders) : Protect!Replace(r)
    BY <1>15, <1>p DEF Protect!Ids
  <2>2. PICK ot : /\ orders' = ot /\ OrdersFit(ot) /\ Len(ot) = Len(orders) + 1
                  /\ LotFits(lot, ot) /\ QueueFits(pending, ot)
    <3>1. orders[r].status = "new" /\ orders[r].kind = "trail"
      BY <1>p, <2>1 DEF Protect!Replace, Protect!Status
    <3> QED BY <1>p, <2>1, <3>1, ReplaceFits DEF Protect!Replace
  <2>3. /\ UNCHANGED <<shared, bracket, trailing, lot, pending, price, listed, exit, task,
                       ends, errors>>
        /\ replaced < MaxReplaced /\ replaced' = replaced + 1
    BY <2>1 DEF Protect!Replace, Protect!fixed
  <2>4. DeskFits(Protect!desk)'
    BY <2>2, <2>3, DeskBecomesOf
  <2>5. replaced' \in 0..MaxReplaced
    BY <2>3, ParametersFit DEF SweepTyped
  <2>6. Len(orders) <= Len(orders') /\ Len(orders') \in Nat /\ listed' \subseteq 1..Len(orders')
    BY <1>p, <2>2, <2>3, ListStays
  <2> QED BY <2>3, <2>4, <2>5, <2>6, TypedAgain DEF SweepTyped
<1> QED BY <1>1, <1>2, <1>3, <1>4, <1>5, <1>6, <1>7, <1>8, <1>9, <1>10, <1>11, <1>12, <1>13,
           <1>14, <1>15 DEF Protect!Next, Protect!Cycle

\* No order is replaced yet.
LEMMA FirstOrders ==
    ASSUME NEW os \in Seq(OrderRecord), \A o \in 1..Len(os) : os[o].status = "new" /\ os[o].next = 0,
           bracket => Len(os) = 2 /\ os[1].kind = "stop" /\ os[2].kind = "tp"
    PROVE  OrdersFit(os) /\ \A o \in 1..Len(os) : Tips(os)[o] = o
<1>1. Chained(os)
  BY DEF Chained
<1>2. OrdersFit(os)
  BY <1>1 DEF OrdersFit
<1> QED BY <1>1, <1>2, TipSteps

\* How a position begins.
StartsAs(b, os, p, stop, tp) ==
    /\ bracket = b /\ orders = os /\ pending = p
    /\ lot = [open |-> TRUE, trail |-> 0, stop |-> stop, tp |-> tp]

LEMMA StartIs ==
    ASSUME Init
    PROVE  LET s == Protect!Order("stop")
               t == Protect!Order("tp")
           IN  \/ StartsAs(TRUE, <<s, t>>, <<1, 2>>, 1, 2)
               \/ StartsAs(TRUE, <<s, t>>, <<>>, 0, 0)
               \/ StartsAs(FALSE, <<t>>, <<1>>, 0, 1)
               \/ StartsAs(FALSE, <<>>, <<>>, 0, 0)
<1>1. Protect!Init
  BY DEF Init
<1>2. PICK start \in Starts :
         LET children == IF start \in {"stamped", "unstamped"} THEN <<1, 2>>
                         ELSE IF start = "lingering" THEN <<1>> ELSE <<>>
         IN  /\ bracket = (start \in {"stamped", "unstamped"})
             /\ orders = CASE bracket -> <<Protect!Order("stop"), Protect!Order("tp")>>
                           [] start = "lingering" -> <<Protect!Order("tp")>>
                           [] OTHER -> <<>>
             /\ pending = IF start = "unstamped" THEN <<>> ELSE children
             /\ lot = [open |-> TRUE, trail |-> Protect!None,
                       stop |-> IF start = "stamped" THEN 1 ELSE Protect!None,
                       tp |-> CASE start = "stamped" -> 2 [] start = "lingering" -> 1
                                [] OTHER -> Protect!None]
  BY <1>1 DEF Protect!Init
<1>3. start \in {"stamped", "unstamped", "plain", "lingering"}
  BY ServicesAssumption DEF Protect!SweepAssumption
<1> DEFINE s == Protect!Order("stop")
           t == Protect!Order("tp")
<1>4. CASE start = "stamped"
  <2>1. StartsAs(TRUE, <<s, t>>, <<1, 2>>, 1, 2)
    BY <1>2, <1>4 DEF Protect!None, StartsAs
  <2> QED BY <2>1
<1>5. CASE start = "unstamped"
  <2>1. StartsAs(TRUE, <<s, t>>, <<>>, 0, 0)
    BY <1>2, <1>5 DEF Protect!None, StartsAs
  <2> QED BY <2>1
<1>6. CASE start \in {"lingering", "plain"}
  <2>1. bracket = FALSE
    <3>1. (start \in {"stamped", "unstamped"}) = FALSE
      BY <1>6
    <3>2. bracket = (start \in {"stamped", "unstamped"})
      BY <1>2
    <3> QED BY <3>1, <3>2, Zenon
  <2>2. CASE start = "lingering"
    <3>1. pending = <<1>>
      BY <1>2, <2>2
    <3>2. orders = <<t>>
      BY <1>2, <2>1, <2>2
    <3>3. lot = [open |-> TRUE, trail |-> 0, stop |-> 0, tp |-> 1]
      BY <1>2, <2>2 DEF Protect!None
    <3>4. StartsAs(FALSE, <<t>>, <<1>>, 0, 1)
      BY <2>1, <3>1, <3>2, <3>3 DEF StartsAs
    <3> QED BY <3>4
  <2>3. CASE start = "plain"
    <3>1. pending = <<>>
      BY <1>2, <2>3
    <3>2. orders = <<>>
      BY <1>2, <2>1, <2>3
    <3>3. lot = [open |-> TRUE, trail |-> 0, stop |-> 0, tp |-> 0]
      BY <1>2, <2>3 DEF Protect!None
    <3>4. StartsAs(FALSE, <<>>, <<>>, 0, 0)
      BY <2>1, <3>1, <3>2, <3>3 DEF StartsAs
    <3> QED BY <3>4
  <2> QED BY <1>6, <2>2, <2>3
<1> QED BY <1>3, <1>4, <1>5, <1>6

LEMMA SweepInit == Init => SweepTyped
<1> SUFFICES ASSUME Init PROVE SweepTyped
  OBVIOUS
<1>1. Protect!Init
  BY DEF Init
<1> DEFINE s == Protect!Order("stop")
           t == Protect!Order("tp")
<1>2. \/ StartsAs(TRUE, <<s, t>>, <<1, 2>>, 1, 2)
      \/ StartsAs(TRUE, <<s, t>>, <<>>, 0, 0)
      \/ StartsAs(FALSE, <<t>>, <<1>>, 0, 1)
      \/ StartsAs(FALSE, <<>>, <<>>, 0, 0)
  BY StartIs
<1>4. /\ s \in OrderRecord /\ t \in OrderRecord /\ s.kind = "stop" /\ t.kind = "tp"
      /\ s.status = "new" /\ t.status = "new" /\ s.next = 0 /\ t.next = 0
  BY OrderIs
<1> HIDE DEF s, t
<1>5. \A os : os = <<s, t>> \/ os = <<t>> \/ os = <<>> =>
         /\ os \in Seq(OrderRecord) /\ Len(os) \in 0..2
         /\ \A o \in 1..Len(os) : os[o].status = "new" /\ os[o].next = 0
  <2>1. ASSUME NEW os, os = <<s, t>> PROVE /\ os \in Seq(OrderRecord) /\ Len(os) \in 0..2
                                     /\ \A o \in 1..Len(os) : os[o].status = "new" /\ os[o].next = 0
    <3>1. os \in Seq(OrderRecord) /\ Len(os) = 2 /\ os[1] = s /\ os[2] = t
      BY <1>4, <2>1
    <3>2. \A o \in 1..Len(os) : o = 1 \/ o = 2
      BY <3>1
    <3> QED BY <1>4, <3>1, <3>2
  <2>2. ASSUME NEW os, os = <<t>> PROVE /\ os \in Seq(OrderRecord) /\ Len(os) \in 0..2
                                     /\ \A o \in 1..Len(os) : os[o].status = "new" /\ os[o].next = 0
    <3>1. os \in Seq(OrderRecord) /\ Len(os) = 1 /\ os[1] = t
      BY <1>4, <2>2
    <3>2. \A o \in 1..Len(os) : o = 1
      BY <3>1
    <3> QED BY <1>4, <3>1, <3>2
  <2>3. ASSUME NEW os, os = <<>> PROVE /\ os \in Seq(OrderRecord) /\ Len(os) \in 0..2
                                     /\ \A o \in 1..Len(os) : os[o].status = "new" /\ os[o].next = 0
    BY <2>3
  <2> QED BY <2>1, <2>2, <2>3
<1>6. OrdersFit(orders) /\ LotFits(lot, orders) /\ (\A o \in 1..Len(orders) : Tips(orders)[o] = o)
      /\ pending \in {<<>>, <<1>>, <<1, 2>>} /\ bracket \in BOOLEAN
      /\ (pending = <<1>> => Len(orders) = 1) /\ (pending = <<1, 2>> => Len(orders) = 2)
      /\ lot.open /\ Len(orders) \in Nat
  <2>0. <<>> # <<1>> /\ <<>> # <<1, 2>> /\ <<1>> # <<1, 2>>
    OBVIOUS
  <2>1. CASE StartsAs(TRUE, <<s, t>>, <<1, 2>>, 1, 2)
    <3>1. /\ bracket = TRUE /\ orders = <<s, t>> /\ pending = <<1, 2>>
          /\ lot = [open |-> TRUE, trail |-> 0, stop |-> 1, tp |-> 2]
      BY <2>1 DEF StartsAs
    <3>2. Len(orders) = 2 /\ orders[1] = s /\ orders[2] = t
      BY <3>1
    <3>3. OrdersFit(orders) /\ \A o \in 1..Len(orders) : Tips(orders)[o] = o
      BY <1>4, <1>5, <3>1, <3>2, FirstOrders
    <3>4. LotFits(lot, orders)
      BY <1>4, <3>1, <3>2 DEF LotFits, LotRecord
    <3> QED BY <2>0, <3>1, <3>2, <3>3, <3>4
  <2>2. CASE StartsAs(TRUE, <<s, t>>, <<>>, 0, 0)
    <3>1. /\ bracket = TRUE /\ orders = <<s, t>> /\ pending = <<>>
          /\ lot = [open |-> TRUE, trail |-> 0, stop |-> 0, tp |-> 0]
      BY <2>2 DEF StartsAs
    <3>2. Len(orders) = 2 /\ orders[1] = s /\ orders[2] = t
      BY <3>1
    <3>3. OrdersFit(orders) /\ \A o \in 1..Len(orders) : Tips(orders)[o] = o
      BY <1>4, <1>5, <3>1, <3>2, FirstOrders
    <3>4. LotFits(lot, orders)
      BY <1>4, <3>1, <3>2 DEF LotFits, LotRecord
    <3> QED BY <2>0, <3>1, <3>2, <3>3, <3>4
  <2>3. CASE StartsAs(FALSE, <<t>>, <<1>>, 0, 1)
    <3>1. /\ bracket = FALSE /\ orders = <<t>> /\ pending = <<1>>
          /\ lot = [open |-> TRUE, trail |-> 0, stop |-> 0, tp |-> 1]
      BY <2>3 DEF StartsAs
    <3>2. Len(orders) = 1 /\ orders[1] = t
      BY <3>1
    <3>3. OrdersFit(orders) /\ \A o \in 1..Len(orders) : Tips(orders)[o] = o
      BY <1>4, <1>5, <3>1, <3>2, FirstOrders
    <3>4. LotFits(lot, orders)
      BY <1>4, <3>1, <3>2 DEF LotFits, LotRecord
    <3> QED BY <2>0, <3>1, <3>2, <3>3, <3>4
  <2>4. CASE StartsAs(FALSE, <<>>, <<>>, 0, 0)
    <3>1. /\ bracket = FALSE /\ orders = <<>> /\ pending = <<>>
          /\ lot = [open |-> TRUE, trail |-> 0, stop |-> 0, tp |-> 0]
      BY <2>4 DEF StartsAs
    <3>2. Len(orders) = 0
      BY <3>1
    <3>3. OrdersFit(orders) /\ \A o \in 1..Len(orders) : Tips(orders)[o] = o
      BY <1>4, <1>5, <3>1, <3>2, FirstOrders
    <3>4. LotFits(lot, orders)
      BY <1>4, <3>1, <3>2 DEF LotFits, LotRecord
    <3> QED BY <2>0, <3>1, <3>2, <3>3, <3>4
  <2> QED BY <1>2, <2>1, <2>2, <2>3, <2>4
<1>7. QueueFits(pending, orders)
  <2>1. pending \in Seq(1..Len(orders)) /\ Protect!IsInjective(pending)
    <3>1. CASE pending = <<>>
      BY <3>1 DEF Protect!IsInjective
    <3>2. CASE pending = <<1>>
      <4>1. 1 \in 1..Len(orders)
        BY <1>6, <3>2
      <4> QED BY <3>2, <4>1 DEF Protect!IsInjective
    <3>3. CASE pending = <<1, 2>>
      <4>1. 1 \in 1..Len(orders) /\ 2 \in 1..Len(orders)
        BY <1>6, <3>3
      <4> QED BY <3>3, <4>1 DEF Protect!IsInjective
    <3> QED BY <1>6, <3>1, <3>2, <3>3
  <2>2. Protect!ToSet(pending) \subseteq 1..Len(orders)
    BY <2>1, RowsOf
  <2> QED BY <1>6, <2>1, <2>2 DEF QueueFits, ChainsApart
<1>8. DeskFits(Protect!desk)
  BY <1>6, <1>7, DeskNow
<1> QED BY <1>1, <1>6, <1>8, ParametersFit DEF Protect!Init, SweepTyped, SweepTasks

LEMMA SweepTypes == SweepTyped => Protect!TypeOK
<1> SUFFICES ASSUME SweepTyped PROVE Protect!TypeOK
  OBVIOUS
<1>1. /\ OrdersFit(orders) /\ LotFits(lot, orders) /\ QueueFits(pending, orders)
      /\ bracket \in BOOLEAN /\ Len(orders) \in Nat /\ DOMAIN orders = 1..Len(orders)
      /\ lot.open \in BOOLEAN
  BY TypedParts
<1>2. \A o \in 1..Len(orders) :
         orders[o].status = "replaced" <=> orders[o].next \in (o + 1)..Len(orders)
  BY <1>1 DEF OrdersFit, Chained
<1>3. Protect!Journaled \subseteq 1..Len(orders)
  <2>1. Protect!Columns(lot) \subseteq 1..Len(orders)
    BY <1>1 DEF Protect!Columns, Protect!None, LotFits
  <2>2. Protect!ToSet(pending) \subseteq 1..Len(orders)
    BY <1>1, QueueIs
  <2> QED BY <2>1, <2>2 DEF Protect!Journaled
<1> QED BY <1>1, <1>2, <1>3, TasksAre, ParametersFit
        DEF SweepTyped, Protect!TypeOK, Protect!Ids, QueueFits

-----------------------------------------------------------------------------
(* One reservation, as long as no order is replaced and no fault leaves an    *)
(* order without its row or its pointer.                                      *)

Working(os) == Protect!Alive(os)

\* A child of a bracket the journal has not heard of, before the first sweep.
Fresh(o) ==
    /\ bracket /\ o \in {1, 2} /\ pending = <<>> /\ Protect!Columns(lot) = {}
    /\ Protect!Positioned /\ task \in {"freshen", "cover", "sweep"}

\* An order has a row, the newest unless it is a child, and a pointer, or its twin has.
OnBooks(o, l, p) ==
    /\ o \in Protect!ToSet(p) /\ {o, Protect!Twin(o)} \cap Protect!Columns(l) # {}
    /\ o = Protect!Last(p) \/ (bracket /\ o \in {1, 2})

NoneReplaced == \A o \in 1..Len(orders) : orders[o].status # "replaced"

OneAtWork ==
    /\ \A a, b \in Working(orders) : b = a \/ b = Protect!Twin(a)
    /\ exit = "working" => Working(orders) = {}

AtWorkIsKnown == \A o \in Working(orders) : Fresh(o) \/ OnBooks(o, lot, pending)

\* What a child sold is on the books until the entry is closed.
FilledChild(c) == bracket /\ c \in {1, 2} /\ orders[c].status = "filled"
SaleIsKnown ==
    lot.open => \A c : FilledChild(c) => c \in Protect!ToSet(pending) \/ Working(orders) = {}

SweepSafe == NoneReplaced /\ OneAtWork /\ AtWorkIsKnown /\ SaleIsKnown

LEMMA WorkingIs ==
    ASSUME NEW os, OrdersFit(os)
    PROVE  /\ Working(os) = {o \in 1..Len(os) : os[o].status = "new"}
           /\ Working(os) \subseteq 1..Len(os)
BY OrdersAre DEF Working, Protect!Alive

\* Nothing is at work any more.
LEMMA AllQuiet ==
    ASSUME Working(orders') = {}, NoneReplaced'
    PROVE  SweepSafe'
<1>1. Working(orders)' = {}
  BY DEF Working, Protect!Alive
<1> QED BY <1>1 DEF SweepSafe, OneAtWork, AtWorkIsKnown, SaleIsKnown

LEMMA CanceledAtWork ==
    ASSUME NEW os, OrdersFit(os), NEW S, bracket \in BOOLEAN
    PROVE  LET ot == Protect!CancelAll(os, S)
           IN  /\ Working(ot) = {o \in Working(os) : {o, Protect!Twin(o)} \cap S = {}}
               /\ (\A o \in 1..Len(os) : os[o].status # "replaced")
                  => \A o \in 1..Len(ot) : ot[o].status # "replaced"
               /\ Len(ot) = Len(os)
               /\ \A o \in 1..Len(os) : ot[o].status = "filled" <=> os[o].status = "filled"
<1> DEFINE ot == Protect!CancelAll(os, S)
<1>1. /\ OrdersFit(ot) /\ Len(ot) = Len(os)
      /\ \A o \in 1..Len(os) :
            IF os[o].status = "new" /\ {o, Protect!Twin(o)} \cap S # {}
            THEN ot[o].status = "canceled" ELSE ot[o] = os[o]
  BY CancelFits
<1> HIDE DEF ot
<1>2. /\ Working(os) = {o \in 1..Len(os) : os[o].status = "new"}
      /\ Working(ot) = {o \in 1..Len(ot) : ot[o].status = "new"}
  BY <1>1, WorkingIs
<1>3. Working(ot) = {o \in Working(os) : {o, Protect!Twin(o)} \cap S = {}}
  BY <1>1, <1>2
<1> QED BY <1>1, <1>3 DEF ot

\* A row that stays keeps its order on the books.
LEMMA StaysOnBooks ==
    ASSUME NEW T, NEW p \in Seq(T), NEW l, NEW o, OnBooks(o, l, p), NEW X, o \notin X
    PROVE  OnBooks(o, l, Protect!Without(p, X))
<1>1. p # <<>>
  BY DEF OnBooks, Protect!ToSet
<1> QED BY <1>1, WithoutKeeps DEF OnBooks

LEMMA OwnTip ==
    ASSUME SweepTyped, NoneReplaced, NEW o \in 1..Len(orders)
    PROVE  Protect!Tip(o) = o
BY TypedParts, TipIs, TipSteps DEF NoneReplaced, OrdersFit

LEMMA ColumnsOf ==
    ASSUME NEW l \in LotRecord, NEW v
    PROVE  Protect!Columns([l EXCEPT !.open = v]) = Protect!Columns(l)
BY DEF Protect!Columns, LotRecord

\* What is at work has not fired, and the reconciler leaves it on the books.
LEMMA ReconciledKeeps ==
    ASSUME SweepTyped, NoneReplaced, NEW l, LotFits(l, orders), NEW p, QueueFits(p, orders),
           NEW d, d = Protect!Reconciled(l, p)
    PROVE  /\ d.orders = orders
           /\ \A o \in Working(orders) : OnBooks(o, l, p) => OnBooks(o, d.lot, d.pending)
           /\ d.lot.open => l.open /\ d.lot = l /\ d.pending = p
           /\ Protect!Fired = {} => d.lot = l /\ d.pending = p
<1> DEFINE shut == [l EXCEPT !.open = FALSE]
           left == Protect!Without(p, Protect!Fired)
<1>1. \/ d = [lot |-> l, pending |-> p, orders |-> orders] /\ ~(l.open /\ Protect!Fired # {})
      \/ d = [lot |-> shut, pending |-> left, orders |-> orders] /\ Protect!Fired # {}
  BY DEF Protect!Reconciled
<1>2. l \in LotRecord /\ p \in Seq(1..Len(orders))
  BY DEF LotFits, QueueFits
<1>3. Protect!Columns(shut) = Protect!Columns(l) /\ shut.open = FALSE
  BY <1>2, ColumnsOf DEF LotRecord
<1>4. \A o \in Working(orders) : o \notin Protect!Fired
  <2>1. ASSUME NEW o \in Working(orders) PROVE o \notin Protect!Fired
    <3>1. o \in 1..Len(orders) /\ orders[o].status = "new"
      BY TypedParts, WorkingIs
    <3> QED BY <3>1, OwnTip, TypedParts DEF Protect!Fired, Protect!Status
  <2> QED BY <2>1
<1>5. ASSUME NEW o \in Working(orders), OnBooks(o, l, p)
      PROVE  OnBooks(o, shut, left)
  <2>1. OnBooks(o, l, left)
    BY <1>2, <1>4, <1>5, StaysOnBooks
  <2> QED BY <1>3, <2>1 DEF OnBooks
<1> HIDE DEF shut, left
<1>6. CASE d = [lot |-> l, pending |-> p, orders |-> orders] /\ ~(l.open /\ Protect!Fired # {})
  BY <1>6
<1>7. CASE d = [lot |-> shut, pending |-> left, orders |-> orders] /\ Protect!Fired # {}
  BY <1>3, <1>5, <1>7
<1> QED BY <1>1, <1>6, <1>7

\* Nothing changes at the broker, and what has a row and a pointer keeps them.
LEMMA BooksKept ==
    ASSUME SweepTyped, SweepSafe, UNCHANGED <<orders, bracket>>,
           exit' = exit \/ exit' # "working",
           \A o \in Working(orders) :
              (Fresh(o) => Fresh(o)') /\ (OnBooks(o, lot, pending) => OnBooks(o, lot', pending')),
           lot'.open => lot.open /\ \A c : FilledChild(c) =>
              (c \in Protect!ToSet(pending) => c \in Protect!ToSet(pending') \/ Working(orders) = {})
    PROVE  SweepSafe'
<1>1. Working(orders)' = Working(orders) /\ NoneReplaced'
  BY DEF SweepSafe, NoneReplaced, Working, Protect!Alive
<1>2. \A o : Protect!Twin(o)' = Protect!Twin(o)
  BY DEF Protect!Twin
<1>3. OneAtWork'
  BY <1>1, <1>2 DEF SweepSafe, OneAtWork
<1>4. \A o : OnBooks(o, lot', pending') => OnBooks(o, lot, pending)'
  BY <1>2 DEF OnBooks, Protect!ToSet, Protect!Last, Protect!Columns, Protect!None
<1>5. AtWorkIsKnown'
  BY <1>1, <1>4 DEF SweepSafe, AtWorkIsKnown
<1>6. \A c : FilledChild(c)' <=> FilledChild(c)
  BY DEF FilledChild
<1>7. SaleIsKnown'
  BY <1>1, <1>6 DEF SweepSafe, SaleIsKnown, Protect!ToSet
<1> QED BY <1>1, <1>3, <1>5, <1>7 DEF SweepSafe

LEMMA FreshenSafe ==
    ASSUME SweepTyped, SweepSafe, Protect!Freshen
    PROVE  SweepSafe'
<1>1. PICK d : d = Protect!Reconciled(lot, pending)
  OBVIOUS
<1>2. /\ task = "freshen" /\ task' = "cover" /\ lot' = d.lot /\ pending' = d.pending
      /\ orders' = d.orders /\ bracket' = bracket /\ exit' = Protect!ExitSettled
  BY <1>1, TasksAre DEF Protect!Freshen, Protect!Run, Protect!Become, Protect!fixed
<1>3. /\ d.orders = orders
      /\ \A o \in Working(orders) : OnBooks(o, lot, pending) => OnBooks(o, d.lot, d.pending)
      /\ d.lot.open => lot.open /\ d.lot = lot /\ d.pending = pending
      /\ Protect!Fired = {} => d.lot = lot /\ d.pending = pending
  BY <1>1, TypedParts, ReconciledKeeps DEF SweepSafe
<1>4. ASSUME NEW o, Fresh(o) PROVE Fresh(o)'
  <2>1. Protect!Fired = {}
    BY <1>4 DEF Fresh, Protect!Fired, Protect!Journaled, Protect!ToSet
  <2>2. lot' = lot /\ pending' = pending /\ exit' = "none"
    BY <1>2, <1>3, <1>4, <2>1 DEF Fresh, Protect!Positioned, Protect!ExitSettled
  <2> QED BY <1>2, <1>4, <2>2 DEF Fresh, Protect!Positioned, Protect!Columns, Protect!None
<1>5. exit' = exit \/ exit' # "working"
  BY <1>2 DEF Protect!ExitSettled
<1> QED BY <1>2, <1>3, <1>4, <1>5, BooksKept

LEMMA SettleSafe ==
    ASSUME SweepTyped, SweepSafe, Protect!Settle
    PROVE  SweepSafe'
<1> DEFINE over == {o \in Protect!ToSet(pending) :
                       Protect!Status(orders, Protect!Tip(o)) \in {"filled", "canceled"}}
           closed == exit = "filled" \/ Protect!ToSet(pending) \cap Protect!Fired # {}
           l == [lot EXCEPT !.open = @ /\ ~closed]
           p == Protect!Without(pending, over)
<1>1. PICK d : d = Protect!Reconciled(l, p)
  OBVIOUS
<1>2. /\ task = "settle" /\ lot' = d.lot /\ pending' = d.pending
      /\ orders' = d.orders /\ bracket' = bracket /\ exit' = Protect!ExitSettled
  BY <1>1 DEF Protect!Settle, Protect!Run, Protect!Become, Protect!fixed
<1>3. /\ LotFits(lot, orders) /\ QueueFits(pending, orders) /\ OrdersFit(orders)
      /\ DOMAIN orders = 1..Len(orders)
      /\ NoneReplaced
  BY TypedParts DEF SweepSafe
<1>4. QueueFits(p, orders) /\ pending \in Seq(1..Len(orders))
  BY <1>3, WithoutFits DEF QueueFits
<1>5. /\ LotFits(l, orders) /\ Protect!Columns(l) = Protect!Columns(lot)
      /\ l.open => lot.open /\ ~closed
  <2>1. (lot.open /\ ~closed) \in BOOLEAN /\ lot \in LotRecord
    BY <1>3 DEF LotFits
  <2>2. l = [lot EXCEPT !.open = lot.open /\ ~closed]
    BY <2>1 DEF LotRecord
  <2> HIDE DEF closed
  <2>3. Protect!Columns(l) = Protect!Columns(lot)
    BY <2>1, <2>2, ColumnsOf
  <2>4. LotFits(l, orders)
    BY <1>3, <2>1 DEF LotFits, LotRecord
  <2>5. l.open => lot.open /\ ~closed
    BY <2>1 DEF LotRecord
  <2> QED BY <2>3, <2>4, <2>5
<1>6. ASSUME NEW o \in Working(orders), OnBooks(o, lot, pending)
      PROVE  OnBooks(o, l, p)
  <2>1. o \in 1..Len(orders) /\ orders[o].status = "new"
    BY <1>3, WorkingIs
  <2>2. o \notin over
    BY <1>3, <2>1, OwnTip DEF Protect!Status
  <2> HIDE DEF over, l
  <2>3. OnBooks(o, lot, p)
    BY <1>4, <1>6, <2>2, StaysOnBooks
  <2> QED BY <1>5, <2>3 DEF OnBooks
<1>7. ASSUME NEW c, FilledChild(c), c \in Protect!ToSet(pending)
      PROVE  closed
  <2>1. c \in 1..Len(orders)
    BY <1>3, <1>7, ChildTips DEF FilledChild
  <2>2. c \in Protect!Fired
    BY <1>3, <1>7, <2>1, OwnTip DEF FilledChild, Protect!Fired, Protect!Journaled, Protect!Status
  <2> QED BY <1>7, <2>2
<1> HIDE DEF closed, l, p
<1>8. /\ d.orders = orders
      /\ \A o \in Working(orders) : OnBooks(o, l, p) => OnBooks(o, d.lot, d.pending)
      /\ d.lot.open => l.open
  BY <1>1, <1>3, <1>4, <1>5, ReconciledKeeps
<1>9. exit' = exit \/ exit' # "working"
  BY <1>2 DEF Protect!ExitSettled
<1>10. \A o : ~Fresh(o)
  BY <1>2 DEF Fresh
<1> QED BY <1>2, <1>5, <1>6, <1>7, <1>8, <1>9, <1>10, BooksKept

\* The books rest; what is fresh stays so while the position waits for the sweep.
LEMMA BooksRest ==
    ASSUME SweepTyped, SweepSafe, UNCHANGED <<orders, bracket, lot, pending>>,
           exit' = exit \/ exit' # "working",
           \A o : Fresh(o) => Protect!Positioned' /\ task' \in {"freshen", "cover", "sweep"}
    PROVE  SweepSafe'
<1>1. \A o : Fresh(o) => Fresh(o)'
  BY DEF Fresh, Protect!Columns, Protect!None
<1> QED BY <1>1, BooksKept

\* The sell cancels all that its pointers name: nothing is left at work.
LEMMA ExitSafe ==
    ASSUME SweepTyped, NoneReplaced, NEW S,
           \A o \in Working(orders) : {o, Protect!Twin(o)} \cap (S \cup Protect!Columns(lot)) # {},
           Protect!Exit(Protect!CancelAll(orders, S))
    PROVE  SweepSafe'
<1> DEFINE os == Protect!CancelAll(orders, S)
           after == Protect!CancelAll(os, Protect!Columns(lot))
<1>1. OrdersFit(orders) /\ bracket \in BOOLEAN
  BY TypedParts
<1>2. /\ OrdersFit(os) /\ Len(os) = Len(orders)
      /\ Working(os) = {o \in Working(orders) : {o, Protect!Twin(o)} \cap S = {}}
      /\ \A o \in 1..Len(os) : os[o].status # "replaced"
  BY <1>1, CancelFits, CanceledAtWork DEF NoneReplaced
<1> HIDE DEF os
<1>3. /\ Working(after) = {o \in Working(os) : {o, Protect!Twin(o)} \cap Protect!Columns(lot) = {}}
      /\ \A o \in 1..Len(after) : after[o].status # "replaced"
  BY <1>1, <1>2, CanceledAtWork
<1>4. Working(after) = {}
  BY <1>2, <1>3
<1>5. orders' = after
  BY DEF Protect!Exit, os
<1> HIDE DEF after
<1>6. NoneReplaced'
  BY <1>3, <1>5 DEF NoneReplaced
<1> QED BY <1>4, <1>5, <1>6, AllQuiet

LEMMA PollSafe ==
    ASSUME SweepTyped, SweepSafe, Protect!Poll
    PROVE  SweepSafe'
<1>1. task = "poll" /\ task' = "settle" /\ bracket' = bracket
  BY TasksAre DEF Protect!Poll, Protect!Run, Protect!fixed
<1>2. \A o : ~Fresh(o)
  BY <1>1 DEF Fresh
<1>3. CASE Protect!Exit(Protect!CancelAll(orders, Protect!Journaled))
  <2>1. \A o \in Working(orders) : o \in Protect!Journaled
    BY <1>2 DEF SweepSafe, AtWorkIsKnown, OnBooks, Protect!Journaled
  <2> DEFINE S == Protect!Journaled
  <2> HIDE DEF S
  <2>2. \A o \in Working(orders) : {o, Protect!Twin(o)} \cap (S \cup Protect!Columns(lot)) # {}
    BY <2>1 DEF S
  <2>3. Protect!Exit(Protect!CancelAll(orders, S))
    BY <1>3 DEF S
  <2> QED BY <2>2, <2>3, ExitSafe DEF SweepSafe
<1>4. CASE UNCHANGED <<Protect!books, exit, errors>>
  <2>1. UNCHANGED <<orders, lot, pending, exit>>
    BY <1>4 DEF Protect!books
  <2> QED BY <1>1, <1>2, <2>1, BooksRest
<1> QED BY <1>3, <1>4 DEF Protect!Poll

LEMMA AiSellSafe ==
    ASSUME SweepTyped, SweepSafe, Protect!AiSell
    PROVE  SweepSafe'
<1>1. task = "rest" /\ Protect!Exit(orders)
  BY DEF Protect!AiSell
<1>2. \A o \in Working(orders) : {o, Protect!Twin(o)} \cap Protect!Columns(lot) # {}
  BY <1>1 DEF SweepSafe, AtWorkIsKnown, OnBooks, Fresh
<1> DEFINE after == Protect!CancelAll(orders, Protect!Columns(lot))
<1>3. OrdersFit(orders) /\ bracket \in BOOLEAN
  BY TypedParts
<1>4. /\ Working(after) = {o \in Working(orders) : {o, Protect!Twin(o)} \cap Protect!Columns(lot) = {}}
      /\ \A o \in 1..Len(after) : after[o].status # "replaced"
  BY <1>3, CanceledAtWork DEF SweepSafe, NoneReplaced
<1>5. Working(after) = {} /\ orders' = after
  BY <1>1, <1>2, <1>4 DEF Protect!Exit
<1> HIDE DEF after
<1>6. NoneReplaced'
  BY <1>4, <1>5 DEF NoneReplaced
<1> QED BY <1>5, <1>6, AllQuiet

LEMMA OrphansSafe ==
    ASSUME SweepTyped, SweepSafe, Protect!CancelOrphans
    PROVE  SweepSafe'
<1>1. task = "orphans" /\ bracket' = bracket /\ exit' = exit
  BY DEF Protect!CancelOrphans, Protect!Run, Protect!fixed
<1>2. \A o : ~Fresh(o)
  BY <1>1 DEF Fresh
<1>3. CASE lot.open
  <2>1. UNCHANGED <<orders, lot, pending>>
    BY <1>3 DEF Protect!CancelOrphans, Protect!books
  <2> QED BY <1>1, <1>2, <2>1, BooksRest
<1>4. CASE ~lot.open
  <2> DEFINE S == Protect!Journaled
             after == Protect!CancelAll(orders, S)
  <2>1. orders' = after
    BY <1>4 DEF Protect!CancelOrphans, Protect!Become
  <2>2. \A o \in Working(orders) : o \in S
    BY <1>2 DEF SweepSafe, AtWorkIsKnown, OnBooks, Protect!Journaled
  <2> HIDE DEF S
  <2>3. OrdersFit(orders) /\ bracket \in BOOLEAN
    BY TypedParts
  <2>4. /\ Working(after) = {o \in Working(orders) : {o, Protect!Twin(o)} \cap S = {}}
        /\ \A o \in 1..Len(after) : after[o].status # "replaced"
    BY <2>3, CanceledAtWork DEF SweepSafe, NoneReplaced
  <2>5. Working(after) = {}
    BY <2>2, <2>4
  <2> HIDE DEF after
  <2>6. NoneReplaced'
    BY <2>1, <2>4 DEF NoneReplaced
  <2> QED BY <2>1, <2>5, <2>6, AllQuiet
<1> QED BY <1>3, <1>4

LEMMA SyncSafe ==
    ASSUME SweepTyped, SweepSafe, Protect!SyncPending
    PROVE  SweepSafe'
<1> DEFINE Moved(o) == IF Protect!Status(orders, o) = "replaced" /\ o \in Protect!ToSet(pending)
                          /\ orders[Protect!Tip(o)].status # "filled"
                       THEN Protect!Tip(o) ELSE o
           dead == {o \in Protect!ToSet(pending) : orders[o].status = "canceled"}
           q == [i \in DOMAIN pending |-> Moved(pending[i])]
           l == [lot EXCEPT !.trail = Moved(@)]
<1>1. /\ pending' = Protect!Without(q, dead) /\ lot' = l
      /\ UNCHANGED <<orders, bracket, exit>> /\ task = "sync"
  BY DEF Protect!SyncPending, Protect!Run, Protect!fixed
<1>2. /\ OrdersFit(orders) /\ LotFits(lot, orders) /\ QueueFits(pending, orders)
      /\ Len(orders) \in Nat /\ DOMAIN orders = 1..Len(orders)
  BY TypedParts
<1>3. \A o : Moved(o) = o
  BY <1>2 DEF SweepSafe, NoneReplaced, Protect!Status
<1> HIDE DEF Moved
<1>4. q = pending
  <2>1. pending \in Seq(1..Len(orders))
    BY <1>2 DEF QueueFits
  <2>2. pending = [i \in DOMAIN pending |-> pending[i]]
    BY <2>1, SeqDef
  <2> QED BY <1>3, <2>2
<1>5. l = lot
  <2>1. lot \in LotRecord
    BY <1>2 DEF LotFits
  <2>2. l = [lot EXCEPT !.trail = lot.trail]
    BY <1>3, <2>1
  <2> QED BY <2>1, <2>2 DEF LotRecord
<1>6. pending \in Seq(1..Len(orders)) /\ pending' = Protect!Without(pending, dead)
  BY <1>1, <1>2, <1>4 DEF QueueFits
<1> HIDE DEF q, l
<1>7. ASSUME NEW o \in Working(orders), OnBooks(o, lot, pending)
      PROVE  OnBooks(o, lot', pending')
  <2>1. orders[o].status = "new"
    BY <1>2, WorkingIs
  <2>2. o \notin dead
    BY <2>1
  <2> HIDE DEF dead
  <2> QED BY <1>1, <1>5, <1>6, <1>7, <2>2, StaysOnBooks
<1>8. ASSUME NEW c, FilledChild(c), c \in Protect!ToSet(pending)
      PROVE  c \in Protect!ToSet(pending')
  <2>1. c \notin dead
    BY <1>8 DEF FilledChild
  <2> HIDE DEF dead
  <2> QED BY <1>6, <1>8, <2>1, WithoutKeeps
<1>9. \A o : ~Fresh(o)
  BY <1>1 DEF Fresh
<1> QED BY <1>1, <1>5, <1>7, <1>8, <1>9, BooksKept

\* One order ends, and with it its twin: that was all there was at work.
LEMMA EndSafe ==
    ASSUME SweepTyped, SweepSafe, NEW o \in 1..Len(orders), Protect!Fill(o) \/ Protect!Terminate(o)
    PROVE  SweepSafe'
<1>1. /\ OrdersFit(orders) /\ DOMAIN orders = 1..Len(orders) /\ bracket \in BOOLEAN
      /\ \A x \in 1..Len(orders) : orders[x].status # "replaced"
  BY TypedParts DEF SweepSafe, NoneReplaced
<1>2. orders[o].status = "new" /\ o \in Working(orders)
  BY <1>1, WorkingIs DEF Protect!Fill, Protect!Terminate, Protect!Status
<1>3. \A x \in Working(orders) : x = o \/ x = Protect!Twin(o)
  BY <1>2 DEF SweepSafe, OneAtWork
<1>4. CASE Protect!Fill(o)
  <2> DEFINE ot == [Protect!CancelAll(orders, {Protect!Twin(o)}) EXCEPT ![o].status = "filled"]
  <2>1. /\ OrdersFit(ot) /\ Len(ot) = Len(orders) /\ ot[o].status = "filled"
        /\ \A x \in 1..Len(orders) : x # o =>
              IF orders[x].status = "new" /\ x = Protect!Twin(o)
              THEN ot[x].status = "canceled" ELSE ot[x] = orders[x]
    BY <1>1, <1>2, FillFits
  <2>2. orders' = ot
    BY <1>4 DEF Protect!Fill
  <2> HIDE DEF ot
  <2>3. \A x \in 1..Len(ot) : ot[x].status # "replaced" /\ ot[x].status # "new"
    BY <1>1, <1>3, <2>1, WorkingIs
  <2>4. Working(ot) = {} /\ NoneReplaced'
    BY <2>1, <2>2, <2>3, WorkingIs DEF NoneReplaced
  <2> QED BY <2>2, <2>4, AllQuiet
<1>5. CASE Protect!Terminate(o)
  <2> DEFINE S == {o}
             ot == Protect!CancelAll(orders, S)
  <2>1. orders' = ot
    BY <1>5 DEF Protect!Terminate
  <2>2. \A x \in Working(orders) : {x, Protect!Twin(x)} \cap S # {}
    <3>1. \A x : Protect!Twin(Protect!Twin(x)) = x
      BY DEF Protect!Twin
    <3> QED BY <1>3, <3>1
  <2> HIDE DEF S
  <2>3. /\ Working(ot) = {x \in Working(orders) : {x, Protect!Twin(x)} \cap S = {}}
        /\ \A x \in 1..Len(ot) : ot[x].status # "replaced"
    BY <1>1, CanceledAtWork
  <2>4. Working(ot) = {}
    BY <2>2, <2>3
  <2> HIDE DEF ot
  <2>5. NoneReplaced'
    BY <2>1, <2>3 DEF NoneReplaced
  <2> QED BY <2>1, <2>4, <2>5, AllQuiet
<1> QED BY <1>4, <1>5

Unreplaced(os) == \A o \in 1..Len(os) : os[o].status # "replaced"

\* No order is lost, and none fills in the books' own doing.
SameSales(os, ot) ==
    /\ Len(os) <= Len(ot)
    /\ \A o \in 1..Len(os) : ot[o].status = "filled" <=> os[o].status = "filled"

\* What is placed where nothing is at work is the only order, and on the books.
LEMMA PlaceSafe ==
    ASSUME NEW d, DeskFits(d), Working(d.orders) = {}, Unreplaced(d.orders),
           NEW k \in {"stop", "trail"}, NEW fault, fault # "pointer"
    PROVE  LET e == Protect!Place(d, k, fault)
           IN  /\ Unreplaced(e.orders) /\ SameSales(d.orders, e.orders)
               /\ Protect!ToSet(d.pending) \subseteq Protect!ToSet(e.pending)
               /\ \A o \in Working(e.orders) : OnBooks(o, e.lot, e.pending)
               /\ \A a, b \in Working(e.orders) : a = b
<1> DEFINE o == Len(d.orders) + 1
           fresh == Append(d.orders, Protect!Order(k))
           void == [Protect!Order(k) EXCEPT !.status = "canceled"]
           back == Append(d.orders, void)
           l == [d.lot EXCEPT ![k] = o]
           p == Append(d.pending, o)
           e == Protect!Place(d, k, fault)
           backed == [d EXCEPT !.orders = back]
           placed == [lot |-> l, pending |-> p, orders |-> fresh]
<1>1. /\ OrdersFit(d.orders) /\ LotFits(d.lot, d.orders) /\ QueueFits(d.pending, d.orders)
      /\ Len(d.orders) \in Nat /\ d.lot \in LotRecord /\ d.pending \in Seq(Nat)
      /\ \A x \in 1..Len(d.orders) : d.orders[x].status # "new"
  BY DeskIs, OrdersAre, WorkingIs
<1>2. e = d \/ e = backed \/ e = placed
  BY DEF Protect!Place
<1>3. /\ OrdersFit(back) /\ Len(back) = o /\ back[o].status = "canceled"
      /\ \A x \in 1..Len(d.orders) : back[x] = d.orders[x]
  <2>1. void.status = "canceled" /\ void.next = 0 /\ void \in OrderRecord
    BY OrderIs
  <2> HIDE DEF void
  <2> QED BY <1>1, <2>1, AppendFits
<1>4. /\ OrdersFit(fresh) /\ Len(fresh) = o /\ fresh[o].status = "new"
      /\ \A x \in 1..Len(d.orders) : fresh[x] = d.orders[x]
  <2> DEFINE r == Protect!Order(k)
  <2>1. r.status = "new" /\ r.next = 0 /\ r \in OrderRecord
    BY OrderIs
  <2> HIDE DEF r
  <2>2. LET ot == Append(d.orders, r)
        IN  /\ OrdersFit(ot) /\ Len(ot) = Len(d.orders) + 1
            /\ \A x \in 1..Len(d.orders) : ot[x] = d.orders[x]
            /\ ot[Len(d.orders) + 1] = r
    BY <1>1, <2>1, AppendFits
  <2> QED BY <2>1, <2>2 DEF r
<1>5. backed.orders = back /\ backed.lot = d.lot /\ backed.pending = d.pending
  BY DeskIs
<1>6. placed.orders = fresh /\ placed.lot = l /\ placed.pending = p
  OBVIOUS
<1>7. \A x \in 1..o : x \in 1..Len(d.orders) \/ x = o
  BY <1>1
<1>8. /\ p \in Seq(Nat) /\ Protect!ToSet(p) = Protect!ToSet(d.pending) \cup {o}
      /\ Protect!Last(p) = o
  <2>1. o \in Nat
    BY <1>1
  <2> HIDE DEF o
  <2>2. /\ p \in Seq(Nat) /\ Len(p) = Len(d.pending) + 1 /\ Len(d.pending) \in Nat
        /\ DOMAIN p = 1..Len(p) /\ DOMAIN d.pending = 1..Len(d.pending)
        /\ p[Len(d.pending) + 1] = o
        /\ \A i \in 1..Len(d.pending) : p[i] = d.pending[i]
    BY <1>1, <2>1, AppendProperties, LenProperties
  <2> HIDE DEF p
  <2>3. \A i \in 1..Len(p) : i \in 1..Len(d.pending) \/ i = Len(d.pending) + 1
    BY <2>2
  <2>4. 1..Len(d.pending) \subseteq 1..Len(p) /\ Len(d.pending) + 1 \in 1..Len(p)
    BY <2>2
  <2>5. \A x : x \in Protect!ToSet(p) <=> x \in Protect!ToSet(d.pending) \/ x = o
    BY <2>2, <2>3, <2>4 DEF Protect!ToSet
  <2> QED BY <2>2, <2>5 DEF Protect!Last
<1>9. o \in Protect!Columns(l)
  <2>1. o # 0 /\ o \in Nat
    BY <1>1
  <2> HIDE DEF o
  <2>2. l.stop = o \/ l.trail = o
    BY <1>1 DEF LotRecord
  <2> QED BY <2>1, <2>2 DEF Protect!Columns, Protect!None
<1> HIDE DEF e, backed, placed, fresh, back, l, p
<1>10. CASE e = d
  <2>1. SameSales(d.orders, d.orders)
    BY <1>1 DEF SameSales
  <2> QED BY <1>10, <2>1 DEF e
<1>11. CASE e = backed
  <2>1. Working(back) = {}
    BY <1>1, <1>3, <1>7, WorkingIs
  <2>2. Unreplaced(back) /\ SameSales(d.orders, back)
    BY <1>1, <1>3, <1>7 DEF Unreplaced, SameSales
  <2> QED BY <1>5, <1>11, <2>1, <2>2 DEF e
<1>12. CASE e = placed
  <2>1. Working(fresh) = {o}
    BY <1>1, <1>4, <1>7, WorkingIs
  <2>2. Unreplaced(fresh) /\ SameSales(d.orders, fresh)
    BY <1>1, <1>4, <1>7 DEF Unreplaced, SameSales
  <2>3. OnBooks(o, l, p)
    BY <1>8, <1>9 DEF OnBooks
  <2> QED BY <1>6, <1>8, <1>12, <2>1, <2>2, <2>3 DEF e
<1> QED BY <1>2, <1>10, <1>11, <1>12

LEMMA FreedSafe ==
    ASSUME NEW d, DeskFits(d), Working(d.orders) = {}, Unreplaced(d.orders), bracket \in BOOLEAN,
           NEW k \in {"stop", "trail"}
    PROVE  LET e == Protect!Freed(d, k)
           IN  /\ DeskFits(e) /\ Working(e.orders) = {} /\ Unreplaced(e.orders)
               /\ SameSales(d.orders, e.orders) /\ e.pending = d.pending
<1> DEFINE S == {lot[k]}
           ot == Protect!CancelAll(d.orders, S)
<1>1. OrdersFit(d.orders) /\ Len(d.orders) \in Nat
  BY DeskIs, OrdersAre
<1>2. Protect!Freed(d, k).orders = ot /\ Protect!Freed(d, k).pending = d.pending
  BY DEF Protect!Freed
<1> HIDE DEF S
<1>3. /\ Working(ot) = {o \in Working(d.orders) : {o, Protect!Twin(o)} \cap S = {}}
      /\ \A o \in 1..Len(ot) : ot[o].status # "replaced"
      /\ Len(ot) = Len(d.orders)
      /\ \A o \in 1..Len(d.orders) : ot[o].status = "filled" <=> d.orders[o].status = "filled"
  BY <1>1, CanceledAtWork DEF Unreplaced
<1> HIDE DEF ot
<1>4. Working(ot) = {} /\ Unreplaced(ot) /\ SameSales(d.orders, ot)
  BY <1>1, <1>3 DEF Unreplaced, SameSales
<1>5. DeskFits(Protect!Freed(d, k))
  BY FreedFits
<1> QED BY <1>2, <1>4, <1>5

LEMMA ProtectedSafe ==
    ASSUME NEW d, DeskFits(d), Working(d.orders) = {}, Unreplaced(d.orders), bracket \in BOOLEAN,
           NEW fault, fault # "pointer"
    PROVE  LET e == Protect!Protected(d, fault)
           IN  /\ Unreplaced(e.orders) /\ SameSales(d.orders, e.orders)
               /\ Protect!ToSet(d.pending) \subseteq Protect!ToSet(e.pending)
               /\ \A o \in Working(e.orders) : OnBooks(o, e.lot, e.pending)
               /\ \A a, b \in Working(e.orders) : a = b
<1> DEFINE s == Protect!Freed(d, "stop")
           t == Protect!Freed(d, "trail")
           e == Protect!Protected(d, fault)
           trailed == Protect!Place(s, "trail", fault)
           plain == Protect!Place(d, "stop", fault)
           back == Protect!Place(t, "stop", fault)
           Good(x) == /\ Unreplaced(x.orders) /\ SameSales(d.orders, x.orders)
                      /\ Protect!ToSet(d.pending) \subseteq Protect!ToSet(x.pending)
                      /\ \A o \in Working(x.orders) : OnBooks(o, x.lot, x.pending)
                      /\ \A a, b \in Working(x.orders) : a = b
<1>1. /\ DeskFits(s) /\ Working(s.orders) = {} /\ Unreplaced(s.orders)
      /\ SameSales(d.orders, s.orders) /\ s.pending = d.pending
  BY FreedSafe
<1>2. /\ DeskFits(t) /\ Working(t.orders) = {} /\ Unreplaced(t.orders)
      /\ SameSales(d.orders, t.orders) /\ t.pending = d.pending
  BY FreedSafe
<1>3. e = d \/ e = trailed \/ e = plain \/ e = back
  BY DEF Protect!Protected
<1>4. Len(d.orders) \in Nat /\ Len(s.orders) \in Nat /\ Len(t.orders) \in Nat
  BY <1>1, <1>2, DeskIs, OrdersAre
<1> HIDE DEF s, t
<1>5. /\ Len(trailed.orders) \in Nat /\ Len(plain.orders) \in Nat /\ Len(back.orders) \in Nat
  BY <1>1, <1>2, PlaceFits, DeskIs, OrdersAre
<1>6. Good(trailed)
  <2>1. LET x == trailed
        IN  /\ Unreplaced(x.orders) /\ SameSales(s.orders, x.orders)
            /\ Protect!ToSet(s.pending) \subseteq Protect!ToSet(x.pending)
            /\ \A o \in Working(x.orders) : OnBooks(o, x.lot, x.pending)
            /\ \A a, b \in Working(x.orders) : a = b
    BY <1>1, PlaceSafe
  <2> HIDE DEF trailed
  <2>2. SameSales(d.orders, trailed.orders)
    BY <1>1, <1>4, <1>5, <2>1 DEF SameSales
  <2> QED BY <1>1, <2>1, <2>2
<1>7. Good(plain)
  BY PlaceSafe
<1>8. Good(back)
  <2>1. LET x == back
        IN  /\ Unreplaced(x.orders) /\ SameSales(t.orders, x.orders)
            /\ Protect!ToSet(t.pending) \subseteq Protect!ToSet(x.pending)
            /\ \A o \in Working(x.orders) : OnBooks(o, x.lot, x.pending)
            /\ \A a, b \in Working(x.orders) : a = b
    BY <1>2, PlaceSafe
  <2> HIDE DEF back
  <2>2. SameSales(d.orders, back.orders)
    BY <1>2, <1>4, <1>5, <2>1 DEF SameSales
  <2> QED BY <1>2, <2>1, <2>2
<1>9. Good(d)
  BY <1>4 DEF SameSales
<1> HIDE DEF trailed, plain, back, Good
<1>10. Good(e)
  BY <1>3, <1>6, <1>7, <1>8, <1>9
<1> QED BY <1>10 DEF e, Good

NoneNamed == \A fault : fault \in SweepFaultKinds => fault \notin {"task", "parent", "pointer"}

Seen == IF bracket THEN Protect!Healed(Protect!desk) ELSE Protect!desk

\* What the sweep has seen: every child that is not canceled has a row, and what
\* had a pointer has one.
LEMMA SeenIs ==
    ASSUME SweepTyped, SweepSafe
    PROVE  /\ DeskFits(Seen) /\ Seen.orders = orders
           /\ Seen.lot.trail = lot.trail /\ Seen.lot.open = lot.open
           /\ lot.stop # 0 => Seen.lot.stop = lot.stop
           /\ lot.tp # 0 => Seen.lot.tp = lot.tp
           /\ Protect!Columns(lot) \subseteq Protect!Columns(Seen.lot)
           /\ bracket /\ lot.stop = 0 /\ 1 \in Known => Seen.lot.stop = 1
           /\ bracket /\ lot.tp = 0 /\ 2 \in Known => Seen.lot.tp = 2
           /\ Protect!ToSet(pending) \subseteq Protect!ToSet(Seen.pending)
           /\ bracket => Known \subseteq Protect!ToSet(Seen.pending)
           /\ ~bracket \/ Known \subseteq Protect!ToSet(pending) => Seen.pending = pending
<1>1. /\ DeskFits(Protect!desk) /\ bracket \in BOOLEAN /\ lot \in LotRecord
      /\ pending \in Seq(1..Len(orders))
  BY TypedParts DEF SweepTyped, LotFits, QueueFits
<1>2. /\ Protect!desk.lot = lot /\ Protect!desk.pending = pending /\ Protect!desk.orders = orders
  BY DEF Protect!desk
<1>3. DeskFits(Seen)
  BY <1>1, HealedFits DEF Seen
<1>4. CASE ~bracket
  BY <1>2, <1>3, <1>4 DEF Seen
<1>5. CASE bracket
  <2> DEFINE l == Stamped(lot)
             q == Added(pending)
  <2>1. Seen = [lot |-> l, pending |-> pending \o q, orders |-> orders]
    BY <1>2, <1>5, HealedIs DEF Seen
  <2>2. /\ l.trail = lot.trail /\ l.open = lot.open
        /\ l.stop = IF lot.stop = 0 /\ 1 \in Known THEN 1 ELSE lot.stop
        /\ l.tp = IF lot.tp = 0 /\ 2 \in Known THEN 2 ELSE lot.tp
    BY <1>1 DEF Stamped, LotRecord
  <2>3. /\ q \in Seq({1, 2}) /\ Protect!ToSet(q) = Known \ Protect!ToSet(pending)
        /\ Protect!IsInjective(q)
    BY AddedIs
  <2> HIDE DEF l, q
  <2>4. Protect!Columns(lot) \subseteq Protect!Columns(l)
    BY <2>2 DEF Protect!Columns, Protect!None
  <2>5. /\ Protect!ToSet(pending \o q) = Protect!ToSet(pending) \cup Protect!ToSet(q)
        /\ q = <<>> => pending \o q = pending
    <3> DEFINE S == (1..Len(orders)) \cup {1, 2}
    <3>1. pending \in Seq(S) /\ q \in Seq(S)
      <4>1. 1..Len(orders) \subseteq S /\ {1, 2} \subseteq S
        OBVIOUS
      <4> HIDE DEF S
      <4> QED BY <1>1, <2>3, <4>1, SeqMonotonic
    <3> HIDE DEF S
    <3> QED BY <3>1, RowsJoined
  <2>6. Known \subseteq Protect!ToSet(pending) => q = <<>>
    <3> SUFFICES ASSUME Known \subseteq Protect!ToSet(pending) PROVE q = <<>>
      OBVIOUS
    <3>1. Protect!ToSet(q) = {}
      BY <2>3
    <3> QED BY <2>3, <3>1, RowsOf
  <2> QED BY <1>3, <1>5, <2>1, <2>2, <2>3, <2>4, <2>5, <2>6
<1> QED BY <1>1, <1>4, <1>5

\* What is at work is tracked when the bracket has a child alive.
LEMMA TrackedSafe ==
    ASSUME SweepTyped, SweepSafe, bracket, Protect!LiveChild
    PROVE  /\ \A o \in Working(orders) : OnBooks(o, Seen.lot, Seen.pending)
           /\ \A c : FilledChild(c) => c \in Protect!ToSet(Seen.pending)
<1>1. PICK a \in {1, 2} : orders[a].status = "new"
  BY DEF Protect!LiveChild
<1>2. OrdersFit(orders) /\ Len(orders) \in Nat /\ a \in 1..Len(orders)
  BY TypedParts, ChildTips
<1>3. a \in Working(orders)
  BY <1>1, <1>2, WorkingIs
<1>4. \A o \in Working(orders) : o \in {1, 2} /\ o \in Known
  <2>1. ASSUME NEW o \in Working(orders) PROVE o \in {1, 2} /\ o \in Known
    <3>1. o = a \/ o = Protect!Twin(a)
      BY <1>3 DEF SweepSafe, OneAtWork
    <3>2. o \in {1, 2}
      BY <3>1 DEF Protect!Twin
    <3>3. orders[o].status = "new"
      BY <1>2, WorkingIs
    <3> QED BY <3>2, <3>3 DEF Known
  <2> QED BY <2>1
<1>5. Known \subseteq Protect!ToSet(Seen.pending)
  BY SeenIs
<1>6. ASSUME NEW o \in Working(orders)
      PROVE  OnBooks(o, Seen.lot, Seen.pending)
  <2>1. o \in {1, 2} /\ o \in Known /\ o \in Protect!ToSet(Seen.pending)
    BY <1>4, <1>5
  <2>2. {o, Protect!Twin(o)} \cap Protect!Columns(Seen.lot) # {}
    <3>1. CASE Fresh(o)
      <4>1. lot.stop = 0 /\ lot.tp = 0
        BY <3>1 DEF Fresh, Protect!Columns, Protect!None
      <4>2. o = 1 => Seen.lot.stop = 1
        BY <2>1, <4>1, SeenIs
      <4>3. o = 2 => Seen.lot.tp = 2
        BY <2>1, <4>1, SeenIs
      <4> QED BY <2>1, <4>2, <4>3 DEF Protect!Columns, Protect!None
    <3>2. CASE OnBooks(o, lot, pending)
      <4>1. Protect!Columns(lot) \subseteq Protect!Columns(Seen.lot)
        BY SeenIs
      <4> QED BY <3>2, <4>1 DEF OnBooks
    <3> QED BY <3>1, <3>2 DEF SweepSafe, AtWorkIsKnown
  <2> QED BY <2>1, <2>2 DEF OnBooks
<1>7. \A c : FilledChild(c) => c \in Known
  BY DEF FilledChild, Known
<1> QED BY <1>5, <1>6, <1>7

Drained == Protect!Sunset(Seen)

\* With no child alive, at most one order is at work, the newest of the rows; what the
\* sweep drains is that order if it is a take-profit.
LEMMA DrainedIs ==
    ASSUME SweepTyped, SweepSafe, lot.open, ~(bracket /\ Protect!LiveChild)
    PROVE  /\ DeskFits(Drained) /\ Unreplaced(Drained.orders) /\ SameSales(orders, Drained.orders)
           /\ Working(Drained.orders) \subseteq Working(orders)
           /\ \A o \in Working(Drained.orders) :
                 /\ OnBooks(o, Drained.lot, Drained.pending) /\ o = Protect!Newest(Drained)
                 /\ Drained.orders[o] = orders[o]
           /\ \A c : FilledChild(c) => c \in Protect!ToSet(Drained.pending)
           /\ \A o \in Working(orders) : orders[o].kind # "tp" => o \in Working(Drained.orders)
<1>1. /\ OrdersFit(orders) /\ LotFits(lot, orders) /\ QueueFits(pending, orders)
      /\ bracket \in BOOLEAN /\ Len(orders) \in Nat /\ DOMAIN orders = 1..Len(orders)
      /\ Unreplaced(orders)
  BY TypedParts DEF SweepSafe, NoneReplaced, Unreplaced
<1>2. DeskFits(Seen) /\ Seen.orders = orders
  BY SeenIs
<1>3. DeskFits(Drained)
  BY <1>1, <1>2, SunsetFits DEF Drained
<1>4. ASSUME NEW a \in Working(orders)
      PROVE  /\ OnBooks(a, lot, pending) /\ a = Protect!Last(pending) /\ pending # <<>>
             /\ Protect!Twin(a) = a /\ Working(orders) = {a} /\ a \in 1..Len(orders)
             /\ orders[a].status = "new"
  <2>1. a \in 1..Len(orders) /\ orders[a].status = "new"
    BY <1>1, WorkingIs
  <2>2. ~(bracket /\ a \in {1, 2})
    BY <2>1 DEF Protect!LiveChild
  <2>3. OnBooks(a, lot, pending) /\ a = Protect!Last(pending)
    BY <2>2 DEF SweepSafe, AtWorkIsKnown, Fresh, OnBooks
  <2>4. Protect!Twin(a) = a
    BY <2>2 DEF Protect!Twin
  <2>5. pending # <<>>
    BY <2>3 DEF OnBooks, Protect!ToSet
  <2> QED BY <2>1, <2>3, <2>4, <2>5 DEF SweepSafe, OneAtWork
<1>5. ASSUME NEW c \in Known, bracket, Working(orders) # {}
      PROVE  c \in Protect!ToSet(pending)
  <2>1. c \in {1, 2} /\ c \in 1..Len(orders) /\ orders[c].status # "canceled"
    BY <1>1, <1>5, ChildTips DEF Known
  <2>2. orders[c].status # "new" /\ orders[c].status # "replaced"
    BY <1>1, <1>5, <2>1 DEF Protect!LiveChild, Unreplaced
  <2>3. orders[c].status = "filled"
    BY <1>1, <2>1, <2>2, OrdersAre DEF OrderRecord
  <2> QED BY <1>5, <2>1, <2>3 DEF SweepSafe, SaleIsKnown, FilledChild
<1>6. Working(orders) # {} => Seen.pending = pending
  BY <1>5, SeenIs
<1>7. \A c : FilledChild(c) => c \in Protect!ToSet(Seen.pending)
  <2>1. \A c : FilledChild(c) => bracket /\ c \in Known
    BY DEF FilledChild, Known
  <2> QED BY <2>1, SeenIs
<1>8. /\ Protect!Columns(lot) \subseteq Protect!Columns(Seen.lot)
      /\ Seen.lot.trail = lot.trail /\ (lot.stop # 0 => Seen.lot.stop = lot.stop)
  BY SeenIs
<1>9. CASE lot.tp = 0
  <2>1. Drained = Seen
    BY <1>9, SunsetIs DEF Drained
  <2>2. ASSUME NEW o \in Working(orders)
        PROVE  OnBooks(o, Seen.lot, Seen.pending) /\ o = Protect!Newest(Seen)
    <3>1. Seen.pending = pending /\ Seen.pending # <<>>
      BY <1>4, <1>6
    <3>2. OnBooks(o, Seen.lot, Seen.pending)
      BY <1>4, <1>8, <3>1 DEF OnBooks
    <3>3. Protect!Newest(Seen) = Protect!Last(pending)
      BY <3>1 DEF Protect!Newest
    <3> QED BY <1>4, <3>2, <3>3
  <2>3. SameSales(orders, orders)
    BY <1>1 DEF SameSales
  <2> QED BY <1>1, <1>2, <1>7, <2>1, <2>2, <2>3
<1>10. CASE lot.tp # 0
  <2> DEFINE S == {lot.tp}
             ot == Protect!CancelAll(orders, S)
             l == [Seen.lot EXCEPT !.tp = 0]
  <2>1. Drained = [lot |-> l, pending |-> Seen.pending, orders |-> ot]
    BY <1>2, <1>10, SunsetIs DEF Drained
  <2>2. Drained.lot = l /\ Drained.pending = Seen.pending /\ Drained.orders = ot
    BY <2>1
  <2> HIDE DEF S
  <2>3. /\ Working(ot) = {o \in Working(orders) : {o, Protect!Twin(o)} \cap S = {}}
        /\ Unreplaced(ot) /\ Len(ot) = Len(orders)
        /\ \A o \in 1..Len(orders) : ot[o].status = "filled" <=> orders[o].status = "filled"
    BY <1>1, CanceledAtWork DEF Unreplaced
  <2>4. \A o \in 1..Len(orders) : {o, Protect!Twin(o)} \cap S = {} => ot[o] = orders[o]
    BY <1>1, CancelFits
  <2> HIDE DEF ot
  <2>5. SameSales(orders, ot)
    BY <1>1, <2>3 DEF SameSales
  <2>6. l.stop = Seen.lot.stop /\ l.trail = Seen.lot.trail
    BY <1>2, DeskIs DEF LotRecord
  <2> HIDE DEF l
  <2>7. ASSUME NEW o \in Working(ot)
        PROVE  OnBooks(o, l, Seen.pending) /\ ot[o] = orders[o]
               /\ o = Protect!Newest(Drained)
    <3>1. o \in Working(orders) /\ {o, Protect!Twin(o)} \cap S = {}
      BY <2>3
    <3>2. /\ OnBooks(o, lot, pending) /\ o = Protect!Last(pending) /\ pending # <<>>
          /\ Protect!Twin(o) = o /\ o \in 1..Len(orders)
      BY <1>4, <3>1
    <3>3. Seen.pending = pending
      BY <1>6, <3>1
    <3>4. o # lot.tp /\ o # 0
      <4>1. lot.tp \in S
        BY DEF S
      <4>2. o # 0
        BY <1>1, <3>2
      <4> QED BY <3>1, <4>1, <4>2
    <3>5. o = lot.stop \/ o = lot.trail
      BY <3>2, <3>4 DEF OnBooks, Protect!Columns
    <3>6. o \in Protect!Columns(l)
      BY <1>8, <2>6, <3>4, <3>5 DEF Protect!Columns, Protect!None
    <3>7. OnBooks(o, l, Seen.pending)
      BY <3>2, <3>3, <3>6 DEF OnBooks
    <3>8. o = Protect!Newest(Drained)
      BY <2>2, <3>2, <3>3 DEF Protect!Newest
    <3> QED BY <2>4, <3>1, <3>2, <3>7, <3>8
  <2>8. ASSUME NEW o \in Working(orders), orders[o].kind # "tp"
        PROVE  o \in Working(ot)
    <3>1. orders[lot.tp].kind = "tp"
      BY <1>1, <1>10 DEF LotFits
    <3>2. o # lot.tp /\ Protect!Twin(o) = o
      BY <1>4, <2>8, <3>1
    <3> QED BY <2>3, <3>2 DEF S
  <2> QED BY <1>3, <1>7, <2>2, <2>3, <2>5, <2>7, <2>8
<1> QED BY <1>9, <1>10

\* There is a stop at the broker.
Covered(os) == \E o \in Working(os) : os[o].kind # "tp"

LEMMA SweepSafely ==
    ASSUME SweepTyped, SweepSafe, NoneNamed, Protect!Sweep
    PROVE  SweepSafe' /\ (Covered(orders) => Covered(orders'))
<1>1. /\ task = "sweep" /\ lot.open /\ exit = "none" /\ exit' = "none" /\ bracket' = bracket
      /\ bracket \in BOOLEAN /\ OrdersFit(orders) /\ Len(orders) \in Nat
      /\ DOMAIN orders = 1..Len(orders)
  BY TypedParts DEF Protect!Sweep, Protect!Run, Protect!fixed, SweepTyped
<1>2. PICK fault \in (SweepFaultKinds \ {"task", "list"}) \cup {"none"} :
         LET child == bracket /\ fault # "parent"
             base == IF child THEN Protect!Healed(Protect!desk) ELSE Protect!desk
             drained == Protect!Sunset(base)
             marked == Protect!Marked(drained)
         IN  Protect!Become(IF child /\ Protect!LiveChild THEN base
                            ELSE IF Protect!InForce(drained) THEN drained
                            ELSE IF Protect!Cover(marked) # {} THEN Protect!Relinked(marked)
                            ELSE IF fault = "limited" THEN marked
                            ELSE Protect!Protected(marked, fault))
  BY DEF Protect!Sweep
<1>3. fault # "parent" /\ fault # "pointer"
  BY DEF NoneNamed
<1> DEFINE marked == Protect!Marked(Drained)
           result == IF bracket /\ Protect!LiveChild THEN Seen
                     ELSE IF Protect!InForce(Drained) THEN Drained
                     ELSE IF Protect!Cover(marked) # {} THEN Protect!Relinked(marked)
                     ELSE IF fault = "limited" THEN marked
                     ELSE Protect!Protected(marked, fault)
<1>4. Protect!Become(result)
  BY <1>2, <1>3 DEF Seen, Drained
<1>5. \A o : Protect!Twin(o)' = Protect!Twin(o)
  BY <1>1 DEF Protect!Twin
<1>6. \A o : OnBooks(o, lot', pending') => OnBooks(o, lot, pending)'
  BY <1>1, <1>5 DEF OnBooks, Protect!ToSet, Protect!Last, Protect!Columns, Protect!None
<1>7. Working(orders)' = Working(orders')
  BY DEF Working, Protect!Alive
\* What a result must be like.
<1> DEFINE Good(d) == /\ Unreplaced(d.orders) /\ SameSales(orders, d.orders)
                      /\ \A a, b \in Working(d.orders) : b = a \/ b = Protect!Twin(a)
                      /\ \A o \in Working(d.orders) : OnBooks(o, d.lot, d.pending)
                      /\ \A c : FilledChild(c) =>
                            c \in Protect!ToSet(d.pending) \/ Working(d.orders) = {}
                      /\ Covered(orders) => Covered(d.orders)
<1>8. ASSUME NEW d, Good(d), Protect!Become(d)
      PROVE  SweepSafe' /\ (Covered(orders) => Covered(orders'))
  <2>1. lot' = d.lot /\ pending' = d.pending /\ orders' = d.orders
    BY <1>8 DEF Protect!Become
  <2>2. NoneReplaced'
    BY <1>8, <2>1 DEF NoneReplaced, Unreplaced
  <2>3. OneAtWork'
    BY <1>1, <1>5, <1>7, <1>8, <2>1 DEF OneAtWork
  <2>4. AtWorkIsKnown'
    BY <1>6, <1>7, <1>8, <2>1 DEF AtWorkIsKnown
  <2>5. ASSUME NEW c, FilledChild(c)' PROVE FilledChild(c)
    <3>1. bracket /\ c \in {1, 2} /\ orders'[c].status = "filled"
      BY <1>1, <2>5 DEF FilledChild
    <3>2. c \in 1..Len(orders)
      BY <1>1, <3>1, ChildTips
    <3> QED BY <1>8, <2>1, <3>1, <3>2 DEF FilledChild, SameSales
  <2>6. SaleIsKnown'
    BY <1>7, <1>8, <2>1, <2>5 DEF SaleIsKnown, Protect!ToSet
  <2> QED BY <1>8, <2>1, <2>2, <2>3, <2>4, <2>6 DEF SweepSafe
<1>9. Unreplaced(orders) /\ \A a, b \in Working(orders) : b = a \/ b = Protect!Twin(a)
  BY DEF SweepSafe, NoneReplaced, OneAtWork, Unreplaced
<1>10. CASE bracket /\ Protect!LiveChild
  <2>1. result = Seen
    BY <1>10
  <2>2. Good(Seen)
    <3>1. Seen.orders = orders
      BY SeenIs
    <3>2. SameSales(orders, orders)
      BY <1>1 DEF SameSales
    <3> QED BY <1>9, <1>10, <3>1, <3>2, TrackedSafe
  <2> HIDE DEF Good, result
  <2> QED BY <1>4, <1>8, <2>1, <2>2
<1>11. CASE ~(bracket /\ Protect!LiveChild)
  <2>1. /\ DeskFits(Drained) /\ Unreplaced(Drained.orders) /\ SameSales(orders, Drained.orders)
        /\ Working(Drained.orders) \subseteq Working(orders)
        /\ \A o \in Working(Drained.orders) :
              /\ OnBooks(o, Drained.lot, Drained.pending) /\ o = Protect!Newest(Drained)
              /\ Drained.orders[o] = orders[o]
        /\ \A c : FilledChild(c) => c \in Protect!ToSet(Drained.pending)
        /\ \A o \in Working(orders) : orders[o].kind # "tp" => o \in Working(Drained.orders)
    BY <1>1, <1>11, DrainedIs
  <2>2. Covered(orders) => Covered(Drained.orders)
    BY <2>1 DEF Covered
  <2>3. CASE Protect!InForce(Drained)
    <3>1. Good(Drained)
      BY <1>9, <2>1, <2>2
    <3>2. result = Drained
      BY <1>11, <2>3
    <3> HIDE DEF Good, result
    <3> QED BY <1>4, <1>8, <3>1, <3>2
  <2>4. CASE ~Protect!InForce(Drained)
    <3>1. /\ OrdersFit(Drained.orders) /\ Len(Drained.orders) \in Nat
          /\ DOMAIN Drained.orders = 1..Len(Drained.orders)
          /\ Drained.pending \in Seq(Nat)
      BY <2>1, DeskIs, OrdersAre
    <3>2. Working(Drained.orders) = {}
      BY <2>1, <2>4, <3>1, WorkingIs DEF Protect!InForce, Protect!Status
    <3>3. ~Covered(orders)
      BY <2>2, <3>2 DEF Covered
    <3>4. /\ DeskFits(marked) /\ marked.orders = Drained.orders
          /\ marked.pending = Protect!Without(Drained.pending, {Protect!Newest(Drained)})
      BY <2>1, MarkedIs
    <3>5. ASSUME NEW c, FilledChild(c) PROVE c \in Protect!ToSet(marked.pending)
      <4>1. c \in 1..Len(orders) /\ orders[c].status = "filled" /\ c \in Protect!ToSet(Drained.pending)
        BY <1>1, <2>1, <3>5, ChildTips DEF FilledChild
      <4>2. c \in 1..Len(Drained.orders) /\ Drained.orders[c].status = "filled"
        BY <1>1, <2>1, <3>1, <4>1 DEF SameSales
      <4>3. c # Protect!Newest(Drained)
        BY <2>4, <3>1, <4>2 DEF Protect!InForce, Protect!Status
      <4> DEFINE S == {Protect!Newest(Drained)}
      <4> HIDE DEF S
      <4>4. Protect!ToSet(Protect!Without(Drained.pending, S))
            = Protect!ToSet(Drained.pending) \ S
        BY <3>1, WithoutKeeps
      <4> QED BY <3>4, <4>1, <4>3, <4>4 DEF S
    <3> HIDE DEF marked
    <3>6. Good(marked)
      BY <2>1, <3>2, <3>3, <3>4
    <3>7. CASE Protect!Cover(marked) # {}
      <4>1. Protect!Relinked(marked).orders = marked.orders
        BY <3>4, <3>7, RelinkedIs
      <4>2. Good(Protect!Relinked(marked))
        BY <2>1, <3>2, <3>3, <3>4, <4>1
      <4>3. result = Protect!Relinked(marked)
        BY <1>11, <2>4, <3>7
      <4> HIDE DEF Good, result
      <4> QED BY <1>4, <1>8, <4>2, <4>3
    <3>8. CASE Protect!Cover(marked) = {} /\ fault = "limited"
      <4>1. result = marked
        BY <1>11, <2>4, <3>8
      <4> HIDE DEF Good, result
      <4> QED BY <1>4, <1>8, <3>6, <4>1
    <3>9. CASE Protect!Cover(marked) = {} /\ fault # "limited"
      <4> DEFINE e == Protect!Protected(marked, fault)
      <4>1. /\ Unreplaced(e.orders) /\ SameSales(marked.orders, e.orders)
            /\ Protect!ToSet(marked.pending) \subseteq Protect!ToSet(e.pending)
            /\ \A o \in Working(e.orders) : OnBooks(o, e.lot, e.pending)
            /\ \A a, b \in Working(e.orders) : a = b
        BY <1>1, <1>3, <2>1, <3>2, <3>4, ProtectedSafe
      <4>2. result = e
        BY <1>11, <2>4, <3>9
      <4>3. Len(e.orders) \in Nat
        BY <1>1, <3>4, ProtectedFits, DeskIs, OrdersAre
      <4> HIDE DEF e
      <4>4. SameSales(orders, e.orders)
        BY <1>1, <2>1, <3>1, <3>4, <4>1, <4>3 DEF SameSales
      <4>5. Good(e)
        BY <3>3, <3>5, <4>1, <4>4
      <4> HIDE DEF Good, result
      <4> QED BY <1>4, <1>8, <4>2, <4>5
    <3> QED BY <3>7, <3>8, <3>9
  <2> QED BY <2>3, <2>4
<1> QED BY <1>10, <1>11

LEMMA SweepSafeInit == Init => SweepSafe
<1> SUFFICES ASSUME Init PROVE SweepSafe
  OBVIOUS
<1> DEFINE s == Protect!Order("stop")
           t == Protect!Order("tp")
<1>1. \/ StartsAs(TRUE, <<s, t>>, <<1, 2>>, 1, 2)
      \/ StartsAs(TRUE, <<s, t>>, <<>>, 0, 0)
      \/ StartsAs(FALSE, <<t>>, <<1>>, 0, 1)
      \/ StartsAs(FALSE, <<>>, <<>>, 0, 0)
  BY StartIs
<1>2. s.status = "new" /\ t.status = "new"
  BY OrderIs
<1> HIDE DEF s, t
<1>3. exit = "none" /\ task = "freshen" /\ OrdersFit(orders)
  BY SweepInit, TypedParts DEF Init, Protect!Init
<1>4. Working(orders) = {o \in 1..Len(orders) : orders[o].status = "new"}
  BY <1>3, WorkingIs
<1>5. CASE bracket = TRUE /\ orders = <<s, t>>
  <2>1. Len(orders) = 2 /\ orders[1] = s /\ orders[2] = t
    BY <1>5
  <2>2. \A o \in 1..Len(orders) : o = 1 \/ o = 2
    BY <2>1
  <2>3. Working(orders) = {1, 2} /\ Protect!Twin(1) = 2 /\ Protect!Twin(2) = 1
    BY <1>2, <1>4, <1>5, <2>1, <2>2 DEF Protect!Twin
  <2>4. NoneReplaced /\ OneAtWork
    BY <1>2, <1>3, <2>1, <2>2, <2>3 DEF NoneReplaced, OneAtWork
  <2>5. SaleIsKnown
    BY <1>2, <2>1 DEF SaleIsKnown, FilledChild
  <2>6. AtWorkIsKnown
    <3>1. CASE StartsAs(TRUE, <<s, t>>, <<1, 2>>, 1, 2)
      <4>1. pending = <<1, 2>> /\ lot = [open |-> TRUE, trail |-> 0, stop |-> 1, tp |-> 2]
        BY <3>1 DEF StartsAs
      <4>2. Protect!ToSet(pending) = {1, 2}
        BY <4>1 DEF Protect!ToSet
      <4>3. Protect!Columns(lot) = {1, 2}
        BY <4>1 DEF Protect!Columns, Protect!None
      <4> QED BY <1>5, <2>3, <4>2, <4>3 DEF AtWorkIsKnown, OnBooks
    <3>2. CASE StartsAs(TRUE, <<s, t>>, <<>>, 0, 0)
      <4>1. pending = <<>> /\ lot = [open |-> TRUE, trail |-> 0, stop |-> 0, tp |-> 0]
        BY <3>2 DEF StartsAs
      <4>2. Protect!Columns(lot) = {} /\ Protect!Positioned
        BY <1>3, <4>1 DEF Protect!Columns, Protect!None, Protect!Positioned
      <4> QED BY <1>3, <1>5, <2>3, <4>1, <4>2 DEF AtWorkIsKnown, Fresh
    <3>3. TRUE # FALSE
      OBVIOUS
    <3> QED BY <1>1, <1>5, <3>1, <3>2, <3>3 DEF StartsAs
  <2> QED BY <2>4, <2>5, <2>6 DEF SweepSafe
<1>6. CASE StartsAs(FALSE, <<t>>, <<1>>, 0, 1)
  <2>1. /\ bracket = FALSE /\ orders = <<t>> /\ pending = <<1>>
        /\ lot = [open |-> TRUE, trail |-> 0, stop |-> 0, tp |-> 1]
    BY <1>6 DEF StartsAs
  <2>2. Len(orders) = 1 /\ orders[1] = t
    BY <2>1
  <2>3. \A o \in 1..Len(orders) : o = 1
    BY <2>2
  <2>4. Working(orders) = {1} /\ Protect!Twin(1) = 1
    BY <1>2, <1>4, <2>1, <2>2, <2>3 DEF Protect!Twin
  <2>5. NoneReplaced /\ OneAtWork
    BY <1>2, <1>3, <2>2, <2>3, <2>4 DEF NoneReplaced, OneAtWork
  <2>6. SaleIsKnown
    BY <2>1 DEF SaleIsKnown, FilledChild
  <2>7. Protect!ToSet(pending) = {1} /\ Protect!Last(pending) = 1
    BY <2>1 DEF Protect!ToSet, Protect!Last
  <2>8. Protect!Columns(lot) = {1}
    BY <2>1 DEF Protect!Columns, Protect!None
  <2> QED BY <2>4, <2>5, <2>6, <2>7, <2>8 DEF SweepSafe, AtWorkIsKnown, OnBooks
<1>7. CASE StartsAs(FALSE, <<>>, <<>>, 0, 0)
  <2>1. bracket = FALSE /\ Len(orders) = 0
    BY <1>7 DEF StartsAs
  <2>2. Working(orders) = {} /\ NoneReplaced
    BY <1>4, <2>1 DEF NoneReplaced
  <2> QED BY <2>2 DEF SweepSafe, OneAtWork, AtWorkIsKnown, SaleIsKnown
<1> QED BY <1>1, <1>5, <1>6, <1>7 DEF StartsAs

LEMMA SweepSafeStays ==
    ASSUME SweepTyped, SweepSafe, MaxReplaced = 0, NoneNamed, [Protect!Next]_Protect!vars
    PROVE  SweepSafe'
<1>1. CASE UNCHANGED Protect!vars
  <2>1. UNCHANGED <<orders, bracket, lot, pending, exit, task>>
    BY <1>1 DEF Protect!vars, Protect!fixed, Protect!books
  <2> QED BY <2>1, BooksRest DEF Fresh, Protect!Positioned
<1>2. CASE Protect!Freshen
  BY <1>2, FreshenSafe
<1>3. CASE Protect!Snapshot
  <2>1. UNCHANGED <<orders, bracket, lot, pending, exit>> /\ task' = "sweep"
    BY <1>3, TasksAre DEF Protect!Snapshot, Protect!Run, Protect!books, Protect!fixed
  <2> QED BY <2>1, BooksRest DEF Fresh, Protect!Positioned
<1>4. CASE Protect!NoPosition
  <2>1. UNCHANGED <<orders, bracket, lot, pending, exit>> /\ ~Protect!Positioned
    BY <1>4 DEF Protect!NoPosition, Protect!books, Protect!fixed
  <2> QED BY <2>1, BooksRest DEF Fresh
<1>5. CASE Protect!Sweep
  BY <1>5, SweepSafely
<1>6. CASE Protect!Poll
  BY <1>6, PollSafe
<1>7. CASE Protect!Settle
  BY <1>7, SettleSafe
<1>8. CASE Protect!CancelOrphans
  BY <1>8, OrphansSafe
<1>9. CASE Protect!SyncPending
  BY <1>9, SyncSafe
<1>10. CASE Protect!NewCycle
  <2>1. UNCHANGED <<orders, bracket, lot, pending, exit>> /\ task = "rest"
    BY <1>10 DEF Protect!NewCycle, Protect!books, Protect!fixed
  <2> QED BY <2>1, BooksRest DEF Fresh
<1>11. ~Protect!TaskRaises
  BY DEF Protect!TaskRaises, NoneNamed
<1>12. CASE Protect!AiSell
  BY <1>12, AiSellSafe
<1>13. CASE Protect!FillExit \/ Protect!ExitDies
  <2>1. /\ UNCHANGED <<orders, bracket, lot, pending, task>> /\ exit = "working"
        /\ exit' # "working"
    BY <1>13 DEF Protect!FillExit, Protect!ExitDies, Protect!books, Protect!fixed
  <2> QED BY <2>1, BooksRest DEF Fresh, Protect!Positioned
<1>14. CASE \E o \in Protect!Ids : Protect!Fill(o) \/ Protect!Terminate(o)
  BY <1>14, TypedParts, EndSafe DEF Protect!Ids
<1>15. ASSUME NEW o \in Protect!Ids PROVE ~Protect!Replace(o)
  BY TypedParts DEF Protect!Replace, SweepTyped
<1> QED BY <1>1, <1>2, <1>3, <1>4, <1>5, <1>6, <1>7, <1>8, <1>9, <1>10, <1>11, <1>12, <1>13,
           <1>14, <1>15 DEF Protect!Next, Protect!Cycle

LEMMA ReservationsCount == ASSUME NEW S PROVE Protect!Cardinality(S) = Cardinality(S)
BY DEF Protect!Cardinality, Cardinality

LEMMA SafeReserves == ASSUME SweepTyped, SweepSafe PROVE Protect!OneReservation
<1> DEFINE sets == Protect!Reservations
<1>1. CASE Working(orders) = {}
  <2>1. sets = {}
    BY <1>1 DEF Protect!Reservations, Working
  <2>2. Protect!Cardinality(sets) = 0
    BY <2>1, ReservationsCount, FS_EmptySet
  <2> HIDE DEF sets
  <2>3. (IF exit = "working" THEN 1 ELSE 0) \in {0, 1}
    OBVIOUS
  <2> QED BY <2>2, <2>3 DEF Protect!OneReservation, sets
<1>2. CASE Working(orders) # {}
  <2>1. PICK a : a \in Working(orders)
    BY <1>2
  <2>2. \A o \in Working(orders) : {o, Protect!Twin(o)} = {a, Protect!Twin(a)}
    <3>1. \A x : Protect!Twin(Protect!Twin(x)) = x
      BY DEF Protect!Twin
    <3> QED BY <2>1, <3>1 DEF SweepSafe, OneAtWork
  <2>3. sets = {{a, Protect!Twin(a)}}
    BY <2>1, <2>2 DEF Protect!Reservations, Working
  <2>4. Protect!Cardinality(sets) = 1
    BY <2>3, ReservationsCount, FS_Singleton
  <2>5. exit # "working"
    BY <1>2 DEF SweepSafe, OneAtWork
  <2> HIDE DEF sets
  <2> QED BY <2>4, <2>5 DEF Protect!OneReservation, sets
<1> QED BY <1>1, <1>2

LEMMA SweepCovers ==
    ASSUME SweepTyped, SweepSafe, NoneNamed, Protect!Sweep, Protect!Stops # {}
    PROVE  \E o \in DOMAIN orders' : orders'[o].status = "new" /\ orders'[o].kind # "tp"
<1>1. Covered(orders)
  BY DEF Covered, Protect!Stops, Working
<1>2. PICK o \in Working(orders') : orders'[o].kind # "tp"
  BY <1>1, SweepSafely DEF Covered
<1> QED BY <1>2 DEF Working, Protect!Alive

-----------------------------------------------------------------------------

(* The types of the protective orders: a pointer names an order of its kind,  *)
(* a row an order, no order twice, and a replacement one that came later.     *)
THEOREM SweepIsTyped == Spec => []Protect!TypeOK
<1>1. SweepTyped /\ [Next]_vars => SweepTyped'
  BY ProtectMoves, SweepTypedStays
<1> QED BY <1>1, SweepInit, SweepTypes, PTL DEF Spec

(* One sell order at a time reserves the position's shares, and no sweep      *)
(* leaves a position without a stop that had one (ensure_protective_stops).   *)
(* Four things must not happen, and each of them breaks it: the broker        *)
(* replaces a trailing stop, a task raises, a bracket's parent cannot be      *)
(* read, a pointer is not written.                                            *)
THEOREM ProtectionIsKept ==
    ASSUME MaxReplaced = 0, SweepFaultKinds \cap {"task", "parent", "pointer"} = {}
    PROVE  Spec => ProtectionHolds
<1>1. NoneNamed
  BY DEF NoneNamed
<1>2. SweepTyped /\ SweepSafe /\ [Next]_vars => (SweepTyped /\ SweepSafe)'
  BY <1>1, ProtectMoves, SweepTypedStays, SweepSafeStays
<1>3. SweepTyped /\ SweepSafe => Protect!OneReservation
  BY SafeReserves
<1>4. SweepTyped /\ SweepSafe /\ [Next]_vars =>
         [Protect!Sweep => (Protect!Stops # {} =>
            \E o \in DOMAIN orders' : orders'[o].status = "new" /\ orders'[o].kind # "tp")]_Protect!vars
  BY <1>1, SweepCovers
<1> QED BY <1>2, <1>3, <1>4, SweepInit, SweepSafeInit, PTL
        DEF Spec, ProtectionHolds, Protect!NeverUncovered

-----------------------------------------------------------------------------

(* Every component keeps its types, whatever its constants.                   *)
THEOREM ComponentsAreTyped == Spec => []TypesOK
<1>1. Spec => []Risk!TypeOK
  BY RowOutlivesFailedChecks, PTL DEF RiskInv
<1>2. Spec => []Halts!TypeOK
  BY HaltsAreKept, PTL DEF HaltsInv
<1>3. Spec => []Costs!TypeOK
  <2>1. BudgetInv => Costs!TypeOK
    BY DEF BudgetInv
  <2> QED BY <2>1, BudgetInit, BudgetStays, PTL DEF Spec
<1>4. Spec => []Statuses!TypeOK
  <2>1. Init => StatusesInv
    BY StatusesInit DEF Init
  <2>2. StatusesInv /\ [Next]_vars => StatusesInv'
    BY StatusesMove, StatusesKeep
  <2>3. StatusesInv => Statuses!TypeOK
    BY DEF StatusesInv
  <2> QED BY <2>1, <2>2, <2>3, PTL DEF Spec
<1>5. Spec => []Bus!TypeOK
  <2>1. BusInv => Bus!TypeOK
    BY DEF BusInv
  <2> QED BY <2>1, BusInit, BusSteps, PTL DEF Spec
<1>6. Spec => []Expiry!TypeOK
  <2>1. Init => ExpiryInv
    BY ExpiryInit
  <2>2. ExpiryInv /\ [Next]_vars => ExpiryInv'
    BY ExpiryMoves, ExpirySteps
  <2>3. ExpiryInv => Expiry!TypeOK
    BY DEF ExpiryInv
  <2> QED BY <2>1, <2>2, <2>3, PTL DEF Spec
<1>7. Spec => []Events!TypeOK
  <2>1. Init => EventsInv
    BY EventsInit
  <2>2. EventsInv /\ [Next]_vars => EventsInv'
    BY EventsMove, EventsSteps
  <2>3. EventsInv => Events!TypeOK
    BY DEF EventsInv
  <2> QED BY <2>1, <2>2, <2>3, PTL DEF Spec
<1>8. Spec => [](on \in Components)
  <2>1. Init => on \in Components
    BY DEF Init
  <2>2. on \in Components /\ [Next]_vars => (on \in Components)'
    BY DEF Next, vars, RiskStep, HaltsStep, ProvidersStep, CostsStep, StatusesStep, CycleStep,
       WatchStep, BusStep, ExpiryStep, EventsStep, ProtectStep
  <2> QED BY <2>1, <2>2, PTL DEF Spec
<1>9. /\ on \in Components /\ Risk!TypeOK /\ Halts!TypeOK /\ Providers!TypeOK
      /\ Costs!TypeOK /\ Statuses!TypeOK /\ Cycle!TypeOK /\ Watchdog!TypeOK /\ Bus!TypeOK
      /\ Expiry!TypeOK /\ Events!TypeOK /\ Protect!TypeOK
      => TypesOK
  <2> SUFFICES ASSUME on \in Components, Risk!TypeOK, Halts!TypeOK, Providers!TypeOK,
                      Costs!TypeOK, Statuses!TypeOK, Cycle!TypeOK, Watchdog!TypeOK,
                      Bus!TypeOK, Expiry!TypeOK, Events!TypeOK, Protect!TypeOK
               PROVE  TypesOK
    OBVIOUS
  <2>1. on \in {"risk", "halts", "providers", "costs", "statuses", "cycle", "watch", "bus",
                "expiry", "events", "protect"}
    BY ServicesAssumption
  <2> QED BY <2>1 DEF TypesOK
<1> QED BY <1>1, <1>2, <1>3, <1>4, <1>5, <1>6, <1>7, <1>8, <1>9, ProvidersTyped, LoopIsTyped,
        WatchdogIsTyped, SweepIsTyped, PTL
=============================================================================

------------------------- MODULE OrderCustodyProofs -------------------------
(* Theorems of OrderCustody.                                               *)
EXTENDS OrderCustody, TLAPS

\* No table and no hand ever names an order the broker has not accepted.
THEOREM OrdersAreGenuine == Spec => []Genuine
<1>1. Init => Genuine
  BY DEF Init, Genuine, Answered
<1>2. Genuine /\ [Next]_vars => Genuine'
  <2>. SUFFICES ASSUME Genuine, [Next]_vars PROVE Genuine'
    OBVIOUS
  <2>1. CASE Next
    <3>1. BrokerGoesOn /\ NothingInvented
      BY <2>1 DEF Next
    <3>. QED
      BY <3>1 DEF BrokerGoesOn, NothingInvented, Genuine, Answered, New
  <2>2. CASE UNCHANGED vars
    BY <2>2 DEF vars, Genuine, Answered
  <2>. QED
    BY <2>1, <2>2
<1>. QED
  BY <1>1, <1>2, PTL DEF Spec

\* Until the alarm, somebody answers for every order that may have filled.
THEOREM EveryOrderAnswered == Spec => []Answerable
<1>1. Init => Answerable
  BY DEF Init, Answerable, Answered
<1>2. Answerable /\ [Next]_vars => Answerable'
  <2>. SUFFICES ASSUME Answerable, [Next]_vars PROVE Answerable'
    OBVIOUS
  <2>1. CASE Next /\ Raised
    BY <2>1 DEF Raised, Answerable
  <2>2. CASE Next /\ NothingDropped /\ alarm' = alarm
    <3>1. CASE alarm
      BY <2>2, <3>1 DEF Answerable
    <3>2. CASE ~alarm
      <4>1. sent \ empty \subseteq Answered
        BY <3>2 DEF Answerable
      <4>2. empty \subseteq empty'
        BY <2>2 DEF Next, BrokerGoesOn
      <4>3. sent' \ empty' \subseteq inHand' \union onRecord'
        BY <4>1, <4>2, <2>2 DEF NothingDropped, New
      <4>. QED
        BY <4>3 DEF Answerable, Answered
    <3>. QED
      BY <3>1, <3>2
  <2>3. CASE UNCHANGED vars
    BY <2>3 DEF vars, Answerable, Answered
  <2>. QED
    BY <2>1, <2>2, <2>3 DEF Next
<1>. QED
  BY <1>1, <1>2, PTL DEF Spec
=============================================================================

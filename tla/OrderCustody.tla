---------------------------- MODULE OrderCustody ----------------------------
(***************************************************************************)
(* What the books promise of every order a program sends to its broker:    *)
(* somebody always answers for it.  The one who sent it has it in hand     *)
(* until it is on record; it leaves the record only once the broker has    *)
(* ended it without a fill; and when that cannot be kept, the alarm is     *)
(* raised.  The stock orders of OrderLifecycle and the option orders of    *)
(* SpreadOrders both implement it.                                         *)
(***************************************************************************)
EXTENDS Naturals

VARIABLES
    sent,       \* the ids of the orders the broker has accepted
    empty,      \* those that ended without a fill
    inHand,     \* those the sender still has to record
    onRecord,   \* those the program's tables name
    alarm       \* the program was stopped over an order it lost

vars == <<sent, empty, inHand, onRecord, alarm>>

Answered == inHand \union onRecord
New == sent' \ sent

\* At first every order is on record.
Init ==
    /\ sent \subseteq Nat /\ empty \subseteq sent
    /\ inHand = {} /\ onRecord = sent /\ alarm = FALSE

\* The broker accepts orders and ends orders, and takes nothing back.
BrokerGoesOn == sent \subseteq sent' /\ empty \subseteq empty' /\ empty' \subseteq sent'

\* Only what was in hand, or is new, gets on the record; only what is new
\* gets into a hand.
NothingInvented ==
    /\ onRecord' \subseteq Answered \union New
    /\ inHand' \subseteq inHand \union New

\* What somebody answered for, or is new, has someone after the step, unless
\* it had ended empty before it.
NothingDropped == (Answered \union New) \ (inHand' \union onRecord') \subseteq empty

Raised == alarm' = TRUE

Next ==
    /\ BrokerGoesOn /\ NothingInvented
    /\ \/ NothingDropped /\ alarm' = alarm
       \/ Raised

Spec == Init /\ [][Next]_vars

-----------------------------------------------------------------------------
\* Somebody answers for every order that has not ended empty, or the alarm
\* was raised.
Answerable == alarm \/ sent \ empty \subseteq Answered

\* Nobody answers for an order the broker never had.
Genuine == Answered \subseteq sent /\ empty \subseteq sent
=============================================================================

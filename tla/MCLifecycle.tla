---------------------------- MODULE MCLifecycle -----------------------------
(* Three instances of OrderLifecycle in one run.  Each is an account with its  *)
(* own budgets and faults, named by scenario, which never changes: the        *)
(* reachable states are the union of the instances', not their product.  In   *)
(* each, p1 starts flat and trades beside a sibling that holds one share.     *)
(* An instance fixes the faults under which its property is claimed.          *)
EXTENDS Integers, Sequences, FiniteSets

CONSTANTS p1, p2

VARIABLES scenario, orders, trades, submitted, fresh, flight, halted
books == <<orders, trades, submitted, fresh, flight, halted>>
vars == <<scenario, books>>

Profiles == {p1, p2}
Workers == {p1}
MaxQty == 2
StopBudget == 1
Holding == [p \in Profiles |-> IF p = p1 THEN 0 ELSE 1]
AllKinds == {"entry", "exit", "protective"}

\* Everything fills in pieces and cancels land late; every row is written.
Book == INSTANCE OrderLifecycle WITH
    EntryBudget <- 1, ExitBudget <- 1, PartialKinds <- AllKinds,
    AsyncCancel <- TRUE, LostWrites <- {}
\* Two exits, filling in pieces, against one entry.
Truth == INSTANCE OrderLifecycle WITH
    EntryBudget <- 1, ExitBudget <- 2, PartialKinds <- {"exit"},
    AsyncCancel <- FALSE, LostWrites <- {}
\* Any row may be lost, and orders fill whole.
Recovery == INSTANCE OrderLifecycle WITH
    EntryBudget <- 1, ExitBudget <- 1, PartialKinds <- {},
    AsyncCancel <- FALSE, LostWrites <- AllKinds

Init ==
    \/ scenario = "book" /\ Book!Init
    \/ scenario = "truth" /\ Truth!Init
    \/ scenario = "recovery" /\ Recovery!Init

Next ==
    /\ UNCHANGED scenario
    /\ \/ scenario = "book" /\ Book!Next
       \/ scenario = "truth" /\ Truth!Next
       \/ scenario = "recovery" /\ Recovery!Next

Spec == Init /\ [][Next]_vars

\* The fairness of Recovery!FairSpec, in this run's states.
Fairness ==
    LET fair == scenario = "recovery" IN
    /\ SF_books(fair /\ Recovery!CycleStart)
    /\ WF_books(fair /\ (Recovery!LogTrade(p1) \/ Recovery!ExitAbandoned(p1)))
    /\ SF_books(fair /\ Recovery!Freshen(p1))
FairSpec == Spec /\ Fairness

-----------------------------------------------------------------------------
(* Each property is OrderLifecycle's, for the account it is claimed of.      *)

\* An entry or an exit that holds fills is never written off: whatever fills in
\* pieces and however late cancels land.
FillsNeverWrittenOff ==
    [][scenario = "book" => ~Book!WritesOff({"entry", "exit"})]_vars

\* When all is quiet the book is the signed sum of the profile's own fills.
OrderIdTruth == scenario = "truth" => Truth!OrderIdTruth

\* A filled entry reaches the journal in the end, its row lost or not, unless
\* the book reads short at some point.
FilledEntriesJournaled ==
    (scenario = "recovery" /\ Recovery!Missing(p1) # {})
        ~> (Recovery!Missing(p1) = {} \/ Recovery!BookQty(trades[p1]) < 0)
=============================================================================

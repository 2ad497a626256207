------------------------- MODULE MCSwitchAndSpreads -------------------------
(* The kill switch with two profiles and the program's own latch, and the    *)
(* option spreads of MCSpreadOrders, in one run: moving names which of the   *)
(* two moves, the other rests in its initial state.  They share no variable. *)
EXTENDS KillSwitch, MCSpreadOrders

CONSTANTS p1, p2

VARIABLE moving

JointInit ==
    /\ Init /\ SpreadInit
    /\ moving \in {"switch", "spread"} /\ (moving = "switch" => setup = Refusal)

SwitchStep == moving = "switch" /\ Next /\ UNCHANGED <<moving, spreadVars>>
SpreadStep == moving = "spread" /\ SpreadNext /\ UNCHANGED <<moving, vars>>
JointNext == SwitchStep \/ SpreadStep

\* The fairness of KillSwitch, while the switch is what moves.
SwitchFairness ==
    LET fair == moving = "switch" IN
    /\ SF_vars(fair /\ BeginGate) /\ SF_vars(fair /\ EndScan)
    /\ WF_vars(fair /\ (GateReads \/ GateHalts \/ GateLeaves \/ GateLifts))
    /\ \A p \in Profiles : WF_vars(fair /\ (FloorActs(p) \/ EntrySubmits(p)))

\* That of SpreadFairSpec, while the vertical that meets any failure moves.
SpreadFairness ==
    LET fair == moving = "spread" /\ setup = Anything IN
    /\ WF_spread(fair /\ Broker) /\ WF_spread(fair /\ Settle)
    /\ WF_spread(fair /\ Execute /\ attempts' = attempts)

JointSpec ==
    /\ JointInit /\ [][JointNext]_<<vars, spreadVars, moving>>
    /\ SwitchFairness /\ SpreadFairness

-----------------------------------------------------------------------------
\* Whatever fails, no row waits for its fill for ever.
RowsSettle ==
    \A i \in 1..(4 * Len(Vertical)) :
        (setup = Anything /\ Waiting(i)) ~> ~(setup = Anything /\ Waiting(i))
=============================================================================

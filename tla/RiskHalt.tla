------------------------------- MODULE RiskHalt -------------------------------
(***************************************************************************)
(* The intraday risk halt of one profile (intraday_risk_monitor.py): every  *)
(* cycle a check looks at the market and writes its decision to a single    *)
(* row; later in the cycle the trade pipeline reads the row and drops the   *)
(* trades it covers.  The decision has three layers: sectors that moved too *)
(* far, sectors correlated with one that fell hard, and the whole portfolio *)
(* when there is a macro event.  The check may fail or be skipped, so the   *)
(* row can be old when it is read; a row nobody refreshed expires.          *)
(***************************************************************************)
EXTENDS Integers, FiniteSets

CONSTANTS
  Sectors,           \* the sector ETFs the check looks at
  Correlated,        \* SECTOR_CORRELATIONS: the sectors a hard fall spills to
  BreadthHaltCount,  \* BREADTH_HALT_COUNT
  ClearAfter         \* HALT_AUTO_CLEAR_SECONDS, in cycles

RiskHaltAssumption ==
  /\ IsFiniteSet(Sectors)
  /\ Correlated \in [Sectors -> SUBSET Sectors]
  /\ BreadthHaltCount \in Nat \ {0}
  /\ ClearAfter \in Nat

VARIABLES
  row,     \* intraday_risk_halt: the row with id 1, or NoRow
  gateOn,  \* users.intraday_risk_blocks_trades
  stage,   \* where the cycle is: before its check, or before its scan
  seen,    \* ghost: the market the last finished check saw
  since,   \* ghost: cycles since that check
  scan     \* what the last scan let through, per sector and for exits

vars == <<row, gateOn, stage, seen, since, scan>>

\* hard_down is at most -5%; far is at most -3%, or a rise of 6% or more, which
\* halts the sector alike but drags no other.
Move == {"hard_down", "far", "flat"}
Action == {"pass", "block_new_entries", "pause_all"}
\* The drawdown and volatility checks suggest block_new_entries, halted holdings
\* either action.
Market == [moves : [Sectors -> Move], spyDown : BOOLEAN, vixSpike : BOOLEAN,
           other : Action]
Calm == [moves |-> [s \in Sectors |-> "flat"], spyDown |-> FALSE,
         vixSpike |-> FALSE, other |-> "pass"]
NoRow == [action |-> "none", sectors |-> {}, age |-> 0]
Everything == [entries |-> Sectors, exits |-> TRUE]

Init ==
  /\ row = NoRow
  /\ gateOn \in BOOLEAN
  /\ stage = "check"
  /\ seen = Calm
  /\ since = 0
  /\ scan = Everything

-----------------------------------------------------------------------------
(* The three layers.                                                        *)

\* check_sector_halts
SectorHalts(moves) == {s \in Sectors : moves[s] # "flat"}

\* apply_correlated_spillover
Spillover(moves) ==
  SectorHalts(moves) \cup UNION {Correlated[s] : s \in {t \in Sectors : moves[t] = "hard_down"}}

\* Mutant: the sectors reached by spillover are counted too.
SpilledCount(moves) == Cardinality(Spillover(moves))

\* check_breadth_collapse counts the sectors that moved by themselves only.
BreadthCount(moves) == Cardinality(SectorHalts(moves))
BreadthCollapse(m) ==
  m.spyDown \/ m.vixSpike \/ BreadthCount(m.moves) >= BreadthHaltCount

\* compute_halt_decision, portfolio part.
PortfolioAction(m) ==
  IF m.other # "pass" THEN m.other
  ELSE IF BreadthCollapse(m) THEN "block_new_entries" ELSE "pass"

-----------------------------------------------------------------------------
(* The row.                                                                 *)

\* Written when any alert fires or any sector halts, else deleted.
RowAfter(m) ==
  IF PortfolioAction(m) # "pass" \/ Spillover(m.moves) # {}
  THEN [action |-> PortfolioAction(m), sectors |-> Spillover(m.moves), age |-> 0]
  ELSE NoRow

Expired == row # NoRow /\ row.age > ClearAfter

\* get_active_risk_halt: nothing for an expired row, and nothing for a row whose
\* action is "pass", whatever its sectors.
ActiveHalt == IF Expired \/ row.action = "pass" THEN NoRow ELSE row

\* The gate of run_trade_cycle.
Admitted(halt) ==
  IF ~gateOn THEN Everything
  ELSE CASE halt.action = "pause_all" -> [entries |-> {}, exits |-> FALSE]
         [] halt.action = "block_new_entries" -> [entries |-> {}, exits |-> TRUE]
         [] OTHER -> [entries |-> Sectors \ halt.sectors, exits |-> TRUE]

-----------------------------------------------------------------------------
(* _task_intraday_risk_check, the scan of the same cycle, and time.         *)

Check ==
  /\ stage = "check"
  /\ \E m \in Market :
       /\ row' = RowAfter(m)
       /\ seen' = m
  /\ since' = 0
  /\ stage' = "scan"
  /\ UNCHANGED <<gateOn, scan>>

\* No bars for SPY, or any exception of the task: the row stays as it is.
CheckFails ==
  /\ stage = "check"
  /\ stage' = "scan"
  /\ UNCHANGED <<row, gateOn, seen, since, scan>>

\* Reading an expired row deletes it; the deletion may fail.
Scan ==
  /\ stage = "scan"
  /\ scan' = Admitted(ActiveHalt)
  /\ \/ row' = IF Expired THEN NoRow ELSE row
     \/ Expired /\ row' = row
  /\ stage' = "wait"
  /\ UNCHANGED <<gateOn, seen, since>>

\* The next cycle, a quarter of an hour later.  Ages are capped once expired.
NextCycle ==
  /\ stage = "wait"
  /\ stage' = "check"
  /\ row' = IF row = NoRow \/ row.age > ClearAfter THEN row ELSE [row EXCEPT !.age = @ + 1]
  /\ since' = IF since > ClearAfter THEN since ELSE since + 1
  /\ UNCHANGED <<gateOn, seen, scan>>

\* The user flips the switch on the settings page.
ToggleGate ==
  /\ gateOn' = ~gateOn
  /\ UNCHANGED <<row, stage, seen, since, scan>>

Next == Check \/ CheckFails \/ Scan \/ NextCycle \/ ToggleGate

Spec == Init /\ [][Next]_vars

-----------------------------------------------------------------------------
(* Properties.                                                              *)

TypeOK ==
  /\ row \in [action : Action \cup {"none"}, sectors : SUBSET Sectors, age : 0..(ClearAfter + 1)]
  /\ gateOn \in BOOLEAN
  /\ stage \in {"check", "scan", "wait"}
  /\ seen \in Market
  /\ since \in 0..(ClearAfter + 1)
  /\ scan \in [entries : SUBSET Sectors, exits : BOOLEAN]

Scanned == stage = "scan" /\ stage' = "wait"
MacroEvent(m) ==
  \/ m.other # "pass" \/ m.spyDown \/ m.vixSpike
  \/ Cardinality({s \in Sectors : m.moves[s] # "flat"}) >= BreadthHaltCount

\* While the last check is recent, what it saw of the whole market decides:
\* with the gate on, no scan opens anything in a market where a macro event was
\* seen, however many failed checks lie between (check, row and gate together).
MacroEventBlocksEntries ==
  [][Scanned /\ gateOn /\ since <= ClearAfter /\ MacroEvent(seen) => scan'.entries = {}]_vars

\* Trouble in one corner stays there: without a macro event a sector that did not
\* move, and that no hard fall spills to, trades on, and so do exits.  Spillover
\* must not be taken for breadth (intraday_risk_monitor.py:407-412).
TroubleStaysLocal ==
  [][Scanned /\ ~MacroEvent(seen) =>
       /\ scan'.exits
       /\ \A s \in Sectors :
            seen.moves[s] = "flat"
              /\ (\A t \in Sectors : seen.moves[t] = "hard_down" => s \notin Correlated[t])
            => s \in scan'.entries]_vars

\* A halt nobody refreshes ends by itself: once every check has failed for longer
\* than the clearing time, the scan lets everything through, whether or not the
\* old row could be deleted.
UnrefreshedHaltsEnd ==
  [][Scanned /\ since > ClearAfter => scan' = Everything]_vars
==============================================================================

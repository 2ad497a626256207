--------------------------- MODULE KillSwitchProofs ---------------------------
(***************************************************************************)
(* Theorems about KillSwitch, for any number of profiles and any latch.     *)
(* The type invariant holds whatever fails.  The two action properties need *)
(* what the gate itself assumes: that nobody writes the switch between its  *)
(* read and its write, and that its reads do not fail.                      *)
(***************************************************************************)
EXTENDS KillSwitch, TLAPS

\* The two rows activate and deactivate write are well formed.
LEMMA WrittenRows ==
  ASSUME NEW reason \in Reason \ {"none"}, NEW by \in Setter
  PROVE  /\ Activated(reason, by) \in [on : BOOLEAN, reason : Reason, by : Setter]
         /\ Deactivated(by) \in [on : BOOLEAN, reason : Reason, by : Setter]
         /\ ~Activated(reason, by).on <=> Activated(reason, by).reason = "none"
         /\ ~Deactivated(by).on <=> Deactivated(by).reason = "none"
<1>1. /\ Activated(reason, by) \in [on : BOOLEAN, reason : Reason, by : Setter]
      /\ Deactivated(by) \in [on : BOOLEAN, reason : Reason, by : Setter]
  BY DEF Activated, Deactivated, Reason
<1>2. ~Activated(reason, by).on <=> Activated(reason, by).reason = "none"
  BY Zenon DEF Activated, Reason
<1>3. ~Deactivated(by).on <=> Deactivated(by).reason = "none"
  BY Zenon DEF Deactivated
<1>4. QED
  BY <1>1, <1>2, <1>3

\* Every row the program writes to kill_switch_state is well formed: a halt has
\* a reason, a released switch has none, and the flap count stays within the
\* latch, whatever fails and whoever interferes.
THEOREM TypeCorrect == Spec => []TypeOK
<1>1. Init => TypeOK
  <2> SUFFICES ASSUME Init PROVE TypeOK
    OBVIOUS
  <2>1. switch = Off
    BY DEF Init
  <2>2. switch \in [on : BOOLEAN, reason : Reason, by : Setter]
    BY <2>1 DEF Off, Reason, Setter
  <2>3. ~switch.on <=> switch.reason = "none"
    BY <2>1, Zenon DEF Off
  <2>4. releases \in 0..LatchReleases
    BY KillSwitchAssumption DEF Init
  <2>5. QED
    BY <2>2, <2>3, <2>4 DEF Init, TypeOK, Books, GateState
<1>2. TypeOK /\ [Next]_vars => TypeOK'
  <2> SUFFICES ASSUME TypeOK, [Next]_vars PROVE TypeOK'
    OBVIOUS
  <2> USE KillSwitchAssumption DEF TypeOK, Reason, Setter, Books, GateState,
          Activated, Deactivated
  <2>1. CASE BeginGate
    BY <2>1 DEF BeginGate
  <2>2. CASE GateReads
    <3>1. PICK b \in Healed : \E dirty \in Dirty(b) : \E s \in Reads :
            /\ books' = b
            /\ findings' = (dirty /\ findings)
            /\ gate' = IF dirty THEN IF ~s.on \/ Ours(s) THEN "halt" ELSE "leave"
                       ELSE IF Ours(s) THEN "lift" ELSE "idle"
            /\ pool' = IF gate' = "idle" THEN "scan" ELSE pool
      BY <2>2 DEF GateReads
    <3>2. books' \in Books
      BY <3>1 DEF Healed
    <3>3. findings' \in BOOLEAN /\ gate' \in GateState
      BY <3>1
    <3>4. pool' \in {"exits", "gate", "scan"}
      BY <3>1
    <3>5. QED
      BY <2>2, <3>2, <3>3, <3>4 DEF GateReads
  <2>3. CASE GateHalts
    BY <2>3 DEF GateHalts
  <2>4. CASE GateLeaves
    BY <2>4 DEF GateLeaves
  <2>5. CASE GateLifts
    <3>1. PICK latched \in Latched :
            IF latched
              THEN /\ switch' = Activated("latched", "integrity_latch")
                   /\ UNCHANGED releases
              ELSE /\ switch' = Deactivated("integrity_auto")
                   /\ releases' = ReleasesAfter("integrity_auto")
      BY <2>5 DEF GateLifts
    <3>2. ~latched => releases < LatchReleases
      <4>1. latched \/ latched = (releases >= LatchReleases)
        BY Zenon DEF Latched
      <4>2. ~latched => ~(releases >= LatchReleases)
        BY <4>1, Zenon
      <4>3. QED
        BY <4>2
    <3>3. releases' \in 0..LatchReleases
      BY <3>1, <3>2 DEF ReleasesAfter
    <3>4. /\ switch' \in [on : BOOLEAN, reason : Reason, by : Setter]
          /\ ~switch'.on <=> switch'.reason = "none"
      <4>1. \/ switch' = Activated("latched", "integrity_latch")
            \/ switch' = Deactivated("integrity_auto")
        BY <3>1, Zenon
      <4>2. CASE switch' = Activated("latched", "integrity_latch")
        BY <4>2, WrittenRows, Zenon DEF Reason, Setter
      <4>3. CASE switch' = Deactivated("integrity_auto")
        BY <4>3, WrittenRows, Zenon DEF Reason, Setter
      <4>4. QED
        BY <4>1, <4>2, <4>3
    <3>5. QED
      BY <2>5, <3>3, <3>4 DEF GateLifts
  <2>6. CASE EndScan
    BY <2>6 DEF EndScan
  <2>7. CASE \E p \in Profiles : Thread(p)
    <3>1. PICK p \in Profiles : Thread(p)
      BY <2>7
    <3>2. CASE FloorReads(p)
      BY <3>2 DEF FloorReads
    <3>3. CASE FloorActs(p)
      <4>1. \/ switch' = switch
            \/ switch' = Activated("auto", "auto")
        BY <3>3 DEF FloorActs
      <4>2. /\ switch' \in [on : BOOLEAN, reason : Reason, by : Setter]
            /\ ~switch'.on <=> switch'.reason = "none"
        <5>1. CASE switch' = switch
          BY <5>1, Zenon
        <5>2. CASE switch' = Activated("auto", "auto")
          BY <5>2, WrittenRows, Zenon DEF Reason, Setter
        <5>3. QED
          BY <4>1, <5>1, <5>2
      <4>3. thread' \in [Profiles -> {"idle", "floor", "entering"}]
        BY <3>3 DEF FloorActs
      <4>4. QED
        BY <3>3, <4>2, <4>3 DEF FloorActs
    <3>4. CASE StopCoverageKills(p)
      BY <3>4 DEF StopCoverageKills
    <3>5. CASE EntryPasses(p)
      BY <3>5 DEF EntryPasses
    <3>6. CASE EntrySubmits(p)
      BY <3>6 DEF EntrySubmits
    <3>7. CASE RecordFill(p)
      BY <3>7 DEF RecordFill
    <3>8. QED
      BY <3>1, <3>2, <3>3, <3>4, <3>5, <3>6, <3>7 DEF Thread
  <2>8. CASE OperatorHalts
    BY <2>8 DEF OperatorHalts
  <2>9. CASE OperatorClears
    BY <2>9 DEF OperatorClears, ReleasesAfter
  <2>10. CASE BooksChange
    BY <2>10 DEF BooksChange
  <2>11. CASE ReleaseAges
    BY <2>11 DEF ReleaseAges
  <2>12. CASE UNCHANGED vars
    BY <2>12 DEF vars
  <2>13. QED
    BY <2>1, <2>2, <2>3, <2>4, <2>5, <2>6, <2>7, <2>8, <2>9, <2>10, <2>11,
       <2>12 DEF Next, Gate, World
<1>3. QED
  BY <1>1, <1>2, PTL DEF Spec

\* The gate reads the switch, then acts on it in a later step.  Because the exit
\* pool is joined before and the scan pool started after, nothing comes between.
THEOREM TheGateActsOnWhatItRead ==
  ASSUME ~OperatorMidGate, ~ReadsFail
  PROVE  Spec => []DecisionStillFits
<1>1. Init => DecisionStillFits
  BY DEF Init, DecisionStillFits, Ours, Off
<1>2. TypeOK /\ DecisionStillFits /\ [Next]_vars => DecisionStillFits'
  <2> SUFFICES ASSUME TypeOK, DecisionStillFits, [Next]_vars PROVE DecisionStillFits'
    OBVIOUS
  <2> USE DEF TypeOK, DecisionStillFits, ThreadsIdle, Ours, Activated, Deactivated
  <2>1. CASE BeginGate
    BY <2>1 DEF BeginGate
  <2>2. CASE GateReads
    <3>1. Reads = {switch}
      BY DEF Reads
    <3>2. PICK dirty \in BOOLEAN :
            /\ findings' = (dirty /\ findings)
            /\ gate' = IF dirty
                         THEN IF ~switch.on \/ Ours(switch) THEN "halt" ELSE "leave"
                         ELSE IF Ours(switch) THEN "lift" ELSE "idle"
            /\ pool' = IF gate' = "idle" THEN "scan" ELSE pool
      BY <2>2, <3>1, Zenon DEF GateReads, Dirty
    <3>3. gate = "collect" /\ pool = "gate" /\ UNCHANGED <<switch, thread>>
      BY <2>2 DEF GateReads
    <3>4. CASE dirty
      BY <3>2, <3>3, <3>4
    <3>5. CASE ~dirty
      BY <3>2, <3>3, <3>5
    <3>6. QED
      BY <3>4, <3>5
  <2>3. CASE GateHalts
    BY <2>3 DEF GateHalts
  <2>4. CASE GateLeaves
    BY <2>4 DEF GateLeaves
  <2>5. CASE GateLifts
    BY <2>5 DEF GateLifts
  <2>6. CASE EndScan
    BY <2>6 DEF EndScan
  <2>7. CASE \E p \in Profiles : Thread(p)
    <3>1. PICK p \in Profiles : Thread(p)
      BY <2>7
    <3>2. pool # "gate" /\ gate = "idle" /\ pool' = pool /\ gate' = gate /\ findings' = findings
      BY <3>1 DEF Thread, Running, FloorReads, FloorActs, StopCoverageKills,
                  EntryPasses, EntrySubmits, RecordFill
    <3>3. switch' = switch \/ switch'.on
      BY <3>1 DEF Thread, FloorReads, FloorActs, StopCoverageKills,
                  EntryPasses, EntrySubmits, RecordFill
    <3>4. QED
      BY <3>2, <3>3
  <2>8. CASE OperatorHalts
    BY <2>8 DEF OperatorHalts, OperatorFree
  <2>9. CASE OperatorClears
    BY <2>9 DEF OperatorClears, OperatorFree
  <2>10. CASE BooksChange
    BY <2>10 DEF BooksChange
  <2>11. CASE ReleaseAges
    BY <2>11 DEF ReleaseAges
  <2>12. CASE UNCHANGED vars
    BY <2>12 DEF vars
  <2>13. QED
    BY <2>1, <2>2, <2>3, <2>4, <2>5, <2>6, <2>7, <2>8, <2>9, <2>10, <2>11,
       <2>12 DEF Next, Gate, World
<1>3. QED
  BY <1>1, <1>2, TypeCorrect, PTL DEF Spec

\* "Never override a manual or loss-floor kill switch": a halt the gate did not
\* set, and a latched one, ends only by the operator's hand.
THEOREM OnlyTheOperatorEndsAHumanHalt ==
  ASSUME ~OperatorMidGate, ~ReadsFail
  PROVE  Spec => HumanHaltSticks
<1> DEFINE Sticks == switch.on /\ ~Ours(switch) =>
                       \/ switch'.on /\ ~Ours(switch)'
                       \/ switch'.by = "user"
<1>1. TypeOK /\ DecisionStillFits /\ [Next]_vars => [Sticks]_vars
  <2> SUFFICES ASSUME TypeOK, DecisionStillFits, [Next]_vars, switch.on, ~Ours(switch)
               PROVE  (switch'.on /\ ~Ours(switch)') \/ switch'.by = "user"
    OBVIOUS
  <2> USE DEF Ours, Activated, Deactivated
  <2>1. CASE switch' = switch
    BY <2>1
  <2>2. CASE OperatorHalts \/ OperatorClears
    BY <2>2 DEF OperatorHalts, OperatorClears
  <2>3. CASE GateHalts \/ GateLifts
    BY <2>3 DEF GateHalts, GateLifts, DecisionStillFits
  <2>4. CASE \E p \in Profiles : FloorActs(p) \/ StopCoverageKills(p)
    <3>1. PICK p \in Profiles : FloorActs(p) \/ StopCoverageKills(p)
      BY <2>4
    <3>2. switch' = switch \/ switch' = Activated("auto", "auto")
      BY <3>1 DEF FloorActs, StopCoverageKills
    <3>3. QED
      BY <3>2
  <2>5. QED
    BY <2>1, <2>2, <2>3, <2>4
       DEF Next, Gate, World, Thread, vars, BeginGate, GateReads, GateLeaves, EndScan,
           FloorReads, EntryPasses, EntrySubmits, RecordFill, BooksChange, ReleaseAges
<1>2. QED
  BY <1>1, TypeCorrect, TheGateActsOnWhatItRead, PTL DEF Spec, HumanHaltSticks

\* "A problem therefore halts trading on the SAME cycle it appears": no entry passes the
\* switch after a dirty verdict unless the operator cleared the halt.
THEOREM DirtyBooksBlockEntries ==
  ASSUME ~OperatorMidGate, ~ReadsFail
  PROVE  Spec => EntriesBlockedWhileDirty
<1> DEFINE Blocked == \A p \in Profiles :
                        thread[p] = "idle" /\ thread'[p] = "entering" /\ findings =>
                          switch.by = "user"
<1>1. TypeOK /\ DecisionStillFits /\ [Next]_vars => [Blocked]_vars
  <2> SUFFICES ASSUME TypeOK, DecisionStillFits, [Next]_vars,
                      NEW p \in Profiles,
                      thread[p] = "idle", thread'[p] = "entering", findings
               PROVE  switch.by = "user"
    OBVIOUS
  <2>1. PICK q \in Profiles : Thread(q)
    BY DEF Next, Gate, World, vars, BeginGate, GateReads, GateHalts, GateLeaves,
           GateLifts, EndScan, OperatorHalts, OperatorClears, BooksChange, ReleaseAges
  <2>2. EntryPasses(q)
    BY <2>1 DEF Thread, FloorReads, FloorActs, StopCoverageKills, EntrySubmits,
                RecordFill, TypeOK
  <2>3. ~switch.on
    BY <2>2 DEF EntryPasses, Reads
  <2>4. QED
    BY <2>3 DEF DecisionStillFits
<1>2. QED
  BY <1>1, TypeCorrect, TheGateActsOnWhatItRead, PTL DEF Spec, EntriesBlockedWhileDirty
==============================================================================

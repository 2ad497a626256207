------------------------------ MODULE KillSwitch ------------------------------
(***************************************************************************)
(* The master kill switch: one row of the master database that blocks every *)
(* new entry of every profile.  Four parties write it: the operator (web    *)
(* process), the integrity gate that the scheduler runs between the exit    *)
(* pool and the scan pool of a cycle, the daily-loss floor and the stop     *)
(* coverage check that every profile's thread runs, and nobody else.        *)
(*                                                                          *)
(* The row has no owner column that anyone checks: the gate knows its own   *)
(* halt by the prefix of the reason text, so a reason is here one of the    *)
(* classes the code tells apart.  The gate reads the row and acts on what   *)
(* it read in two steps.                                                    *)
(***************************************************************************)
EXTENDS Integers, FiniteSets

CONSTANTS
  Profiles,         \* the profiles with a thread in the pools
  LatchReleases,    \* INTEGRITY_LATCH_RELEASES
  OperatorMidGate,  \* may the operator act between the gate's read and its write?
  ReadsFail,        \* may a read of the switch fail (it then reads as off)?
  CheckersFail      \* may the book checks crash (they then find nothing)?

ASSUME KillSwitchAssumption ==
  /\ LatchReleases \in Nat \ {0}
  /\ OperatorMidGate \in BOOLEAN /\ ReadsFail \in BOOLEAN /\ CheckersFail \in BOOLEAN

VARIABLES
  switch,    \* the row: on, reason, and who set it
  releases,  \* auto releases in the trailing hour since the last manual one
  books,     \* what the books are: clean, a fill not recorded yet, or drifted
  findings,  \* _integrity_findings_active: the last gate run saw findings
  gate,      \* where the gate is, with what it decided
  pool,      \* what the scheduler runs: the exit pool, the gate, the scan pool
  thread     \* thread[p]: what the profile's thread read the switch for

vars == <<switch, releases, books, findings, gate, pool, thread>>

Reason == {"none", "integrity", "latched", "manual", "auto"}
Setter == {"nobody", "integrity_auto", "integrity_latch", "user", "auto"}
Books == {"clean", "unrecorded", "drifted"}
GateState == {"idle", "collect", "halt", "leave", "lift"}
Off == [on |-> FALSE, reason |-> "none", by |-> "nobody"]

Init ==
  /\ switch = Off
  /\ releases = 0
  /\ books = "clean"
  /\ findings = FALSE
  /\ gate = "idle"
  /\ pool = "exits"
  /\ thread = [p \in Profiles |-> "idle"]

-----------------------------------------------------------------------------
(* kill_switch.py                                                           *)

\* is_active: fails open.
Reads == {switch} \cup (IF ReadsFail THEN {Off} ELSE {})

\* Mutant: only an e-mail goes out, and the halt is not set.
Unchanged(reason, by) == switch
\* Mutant: the reason lingers after the release.
ReasonLingers(by) == [switch EXCEPT !.on = FALSE, !.by = by]

\* activate overwrites the reason of a halt that is already up.
Activated(reason, by) == [on |-> TRUE, reason |-> reason, by |-> by]

\* deactivate; only a true release writes a history row, and a manual one
\* fences the releases before it.
Deactivated(by) == [on |-> FALSE, reason |-> "none", by |-> by]
ReleasesAfter(by) ==
  IF ~switch.on THEN releases
  ELSE IF by = "integrity_auto" THEN releases + 1 ELSE 0

\* integrity_release_latched: fails closed.
Latched == {releases >= LatchReleases} \cup (IF ReadsFail THEN {TRUE} ELSE {})

-----------------------------------------------------------------------------
(* The integrity gate, between the pools.                                   *)

\* Mutant: the scheduler goes on without joining the pool.
NobodyJoins == TRUE
ThreadsIdle == \A p \in Profiles : thread[p] = "idle"

\* The exit pool is joined and a scan is due.
BeginGate ==
  /\ pool = "exits" /\ ThreadsIdle
  /\ pool' = "gate" /\ gate' = "collect"
  /\ UNCHANGED <<switch, releases, books, findings, thread>>

\* Our own halt, by the prefix of its reason.
Ours(s) == s.on /\ s.reason = "integrity"

\* Mutant: findings once seen stay.
StickyFindings(b) == {b # "clean" \/ findings}

\* Collect the findings, record pending fills and collect again, then read the
\* switch.  A check that crashes contributes no finding.
Healed == IF books = "unrecorded" THEN {"clean", "unrecorded"} ELSE {books}
Dirty(b) == {b # "clean"} \cup (IF CheckersFail THEN {FALSE} ELSE {})
GateReads ==
  /\ gate = "collect"
  /\ \E b \in Healed : \E dirty \in Dirty(b) : \E s \in Reads :
       /\ books' = b
       /\ findings' = (dirty /\ findings)
       /\ gate' = IF dirty THEN IF ~s.on \/ Ours(s) THEN "halt" ELSE "leave"
                  ELSE IF Ours(s) THEN "lift" ELSE "idle"
       /\ pool' = IF gate' = "idle" THEN "scan" ELSE pool
  /\ UNCHANGED <<switch, releases, thread>>

\* Dirty, and no halt or our own: (re)stamp it.
GateHalts ==
  /\ gate = "halt"
  /\ switch' = Activated("integrity", "integrity_auto")
  /\ findings' = TRUE
  /\ gate' = "idle" /\ pool' = "scan"
  /\ UNCHANGED <<releases, books, thread>>

\* Dirty, but someone else's halt is up.
GateLeaves ==
  /\ gate = "leave"
  /\ findings' = TRUE
  /\ gate' = "idle" /\ pool' = "scan"
  /\ UNCHANGED <<switch, releases, books, thread>>

\* Clean, and our halt is up: release it, or latch it when this would go on
\* with a flap.
GateLifts ==
  /\ gate = "lift"
  /\ \E latched \in Latched :
       IF latched
         THEN /\ switch' = Activated("latched", "integrity_latch")
              /\ UNCHANGED releases
         ELSE /\ switch' = Deactivated("integrity_auto")
              /\ releases' = ReleasesAfter("integrity_auto")
  /\ gate' = "idle" /\ pool' = "scan"
  /\ UNCHANGED <<books, findings, thread>>

\* The scan pool is joined; the next cycle starts with its exit pool.
EndScan ==
  /\ pool = "scan" /\ ThreadsIdle
  /\ pool' = "exits"
  /\ UNCHANGED <<switch, releases, books, findings, gate, thread>>

-----------------------------------------------------------------------------
(* The threads of the profiles, in either pool.                             *)

Running(p) == pool # "gate" /\ thread[p] = "idle"

\* _task_check_book_loss_floor: nothing to do while the switch is on ...
FloorReads(p) ==
  /\ Running(p)
  /\ \E s \in Reads : ~s.on
  /\ thread' = [thread EXCEPT ![p] = "floor"]
  /\ UNCHANGED <<switch, releases, books, findings, gate, pool>>
\* ... else the book is computed and, below the floor, the switch flipped.
FloorActs(p) ==
  /\ thread[p] = "floor"
  /\ thread' = [thread EXCEPT ![p] = "idle"]
  /\ switch' \in {switch, Activated("auto", "auto")}
  /\ UNCHANGED <<releases, books, findings, gate, pool>>

\* _task_check_stop_coverage, when the profile opted in.
StopCoverageKills(p) ==
  /\ Running(p)
  /\ switch' = Activated("auto", "auto")
  /\ UNCHANGED <<releases, books, findings, gate, pool, thread>>

\* execute_trade reads the switch, then sizes and submits the entry.
EntryPasses(p) ==
  /\ Running(p) /\ pool = "scan"
  /\ \E s \in Reads : ~s.on
  /\ thread' = [thread EXCEPT ![p] = "entering"]
  /\ UNCHANGED <<switch, releases, books, findings, gate, pool>>
EntrySubmits(p) ==
  /\ thread[p] = "entering"
  /\ thread' = [thread EXCEPT ![p] = "idle"]
  /\ UNCHANGED <<switch, releases, books, findings, gate, pool>>

\* update_fills records the fill the books were missing.
RecordFill(p) ==
  /\ Running(p) /\ books = "unrecorded"
  /\ books' = "clean"
  /\ UNCHANGED <<switch, releases, findings, gate, pool, thread>>

-----------------------------------------------------------------------------
(* The operator and the world.                                              *)

OperatorFree == OperatorMidGate \/ pool # "gate"
OperatorHalts ==
  /\ OperatorFree
  /\ switch' = Activated("manual", "user")
  /\ UNCHANGED <<releases, books, findings, gate, pool, thread>>
OperatorClears ==
  /\ OperatorFree
  /\ switch' = Deactivated("user")
  /\ releases' = ReleasesAfter("user")
  /\ UNCHANGED <<books, findings, gate, pool, thread>>

\* A stop fills and is not recorded yet; the broker and the journal part; the
\* operator repairs the books.
BooksChange ==
  /\ \/ books = "clean" /\ books' \in {"unrecorded", "drifted"}
     \/ books = "unrecorded" /\ books' = "drifted"
     \/ books = "drifted" /\ books' = "clean"
  /\ UNCHANGED <<switch, releases, findings, gate, pool, thread>>

\* The oldest release leaves the trailing hour.
ReleaseAges ==
  /\ releases > 0
  /\ releases' = releases - 1
  /\ UNCHANGED <<switch, books, findings, gate, pool, thread>>

-----------------------------------------------------------------------------

Gate == BeginGate \/ GateReads \/ GateHalts \/ GateLeaves \/ GateLifts \/ EndScan
Thread(p) ==
  \/ FloorReads(p) \/ FloorActs(p) \/ StopCoverageKills(p)
  \/ EntryPasses(p) \/ EntrySubmits(p) \/ RecordFill(p)
World == OperatorHalts \/ OperatorClears \/ BooksChange \/ ReleaseAges

Next == Gate \/ World \/ \E p \in Profiles : Thread(p)

\* The loop keeps turning: a pool's tasks are finite, so it is joined.
Fairness ==
  /\ SF_vars(BeginGate) /\ SF_vars(EndScan)
  /\ WF_vars(GateReads \/ GateHalts \/ GateLeaves \/ GateLifts)
  /\ \A p \in Profiles : WF_vars(FloorActs(p) \/ EntrySubmits(p))
Spec == Init /\ [][Next]_vars /\ Fairness

-----------------------------------------------------------------------------

TypeOK ==
  /\ switch \in [on : BOOLEAN, reason : Reason, by : Setter]
  /\ ~switch.on <=> switch.reason = "none"
  /\ releases \in 0..LatchReleases
  /\ books \in Books
  /\ findings \in BOOLEAN
  /\ gate \in GateState
  /\ pool \in {"exits", "gate", "scan"}
  /\ thread \in [Profiles -> {"idle", "floor", "entering"}]

\* What the gate decided still fits the switch when it acts, because no thread
\* runs beside it; and after a dirty verdict the switch is on until the
\* operator clears it.
DecisionStillFits ==
  /\ gate # "idle" <=> pool = "gate"
  /\ pool = "gate" => ThreadsIdle
  /\ gate = "halt" => ~switch.on \/ Ours(switch)
  /\ gate = "leave" => switch.on
  /\ gate = "lift" => Ours(switch) /\ ~findings
  /\ findings => switch.on \/ switch.by = "user"

\* A halt the gate did not set (manual, loss floor, stop coverage, or latched)
\* ends, or turns into one the gate may lift, only by the operator's hand.
HumanHaltSticks ==
  [][switch.on /\ ~Ours(switch) =>
       \/ switch'.on /\ ~Ours(switch)'
       \/ switch'.by = "user"]_vars

\* No entry passes the switch in a cycle whose gate found the books dirty,
\* unless the operator cleared the halt.
EntriesBlockedWhileDirty ==
  [][\A p \in Profiles :
       thread[p] = "idle" /\ thread'[p] = "entering" /\ findings =>
         switch.by = "user"]_vars

\* The gate decides to lift its halt only off books that are in order.
LiftedOnlyOffCleanBooks ==
  [][gate = "collect" /\ gate' = "lift" => books' = "clean"]_vars

\* Books that stay clean do not leave the gate's own halt up: it is released
\* or latched for the operator.
CleanBooksEndOurHalt ==
  <>[](books = "clean") => []<>~Ours(switch)
==============================================================================

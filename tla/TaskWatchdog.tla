---------------------------- MODULE TaskWatchdog ----------------------------
(***************************************************************************)
(* The rows of task_runs and the watchdog over them (task_watchdog.py, the *)
(* tracker of multi_scheduler.run_task, _task_run_watchdog and the orphan  *)
(* sweep at the start of main_loop).                                       *)
(*                                                                         *)
(* A profile's cycle runs its tasks one after the other on one thread, the *)
(* watchdog last, and the loop starts no cycle before the threads of the   *)
(* last one have ended.  The model keeps one task before the watchdog, and *)
(* leaves out the row of the watchdog's own run.                           *)
(***************************************************************************)
EXTENDS Integers, Sequences, FiniteSets, TLC

CONSTANTS Profiles,
          MaxRuns,      \* rows of a profile
          MaxLocked,    \* updates that fail on a locked database
          MaxCrashes, MaxUnsent

WatchdogAssumption ==
    /\ IsFiniteSet(Profiles) /\ Profiles # {}
    /\ {MaxRuns, MaxLocked, MaxCrashes, MaxUnsent} \subseteq Nat

VARIABLES
    rows,       \* profile -> its task_runs rows, oldest first
    thread,     \* profile -> where its cycle stands
    alerting,   \* profile -> the stalled rows whose alert is to be sent
    up,         \* the process: up, starting or down
    unswept,    \* the databases the start has not swept yet
    used        \* locked updates, crashes and lost alerts so far

vars == <<rows, thread, alerting, up, unswept, used>>

-----------------------------------------------------------------------------
(* A row: its status, whether it is older than the stall threshold; and,     *)
(* which the code cannot see, what became of the task, whether an update of  *)
(* the row was lost, how often it was alerted, and how many passes of the    *)
(* watchdog listed it but failed to mark it.                                 *)
NewRow == [status |-> "running", old |-> FALSE,
           fate |-> "live", lost |-> FALSE, alerts |-> 0, again |-> 0]

Ids(p) == DOMAIN rows[p]

\* The row of the task that is running; an insert that failed leaves none.
Current(p) == {i \in Ids(p) : rows[p][i].fate = "live"}

\* Stalled that looks at the newest row alone.
StalledNewest(p) ==
    {i \in Ids(p) : i = Len(rows[p]) /\ rows[p][i].old /\ rows[p][i].status = "running"}

\* check_stalled_runs: still running, and older than the threshold.
Stalled(p) == {i \in Ids(p) : rows[p][i].old /\ rows[p][i].status = "running"}

Ok == UNCHANGED used
Locked == used.locked < MaxLocked /\ used' = [used EXCEPT !.locked = @ + 1]

Init ==
    /\ rows = [p \in Profiles |-> <<>>]
    /\ thread = [p \in Profiles |-> "idle"]
    /\ alerting = [p \in Profiles |-> {}]
    /\ up = "up" /\ unswept = {}
    /\ used = [locked |-> 0, crashes |-> 0, unsent |-> 0]

-----------------------------------------------------------------------------
\* track_run inserts its row; when that fails the task runs without one.
StartTask(p) ==
    /\ up = "up" /\ thread[p] = "idle"
    /\ thread' = [thread EXCEPT ![p] = "task"]
    /\ \/ /\ Len(rows[p]) < MaxRuns
          /\ rows' = [rows EXCEPT ![p] = Append(@, NewRow)]
          /\ Ok
       \/ Locked /\ UNCHANGED rows
    /\ UNCHANGED <<alerting, up, unswept>>

\* The task returns or raises; its row is marked, or the update is lost.
TaskEnds(p) ==
    /\ thread[p] = "task"
    /\ thread' = [thread EXCEPT ![p] = "watchdog"]
    /\ \E fate \in {"done", "raised"} :
       \/ /\ rows' = [rows EXCEPT ![p] = [i \in Ids(p) |->
                IF i \in Current(p) THEN [rows[p][i] EXCEPT !.fate = fate,
                         !.status = IF fate = "done" THEN "completed" ELSE "failed"]
                ELSE rows[p][i]]]
          /\ Ok
       \/ /\ rows' = [rows EXCEPT ![p] = [i \in Ids(p) |->
                IF i \in Current(p) THEN [rows[p][i] EXCEPT !.fate = fate, !.lost = TRUE]
                ELSE rows[p][i]]]
          /\ Locked
    /\ UNCHANGED <<alerting, up, unswept>>

\* Half an hour has passed since the row was written.
GrowsOld(p, i) ==
    /\ ~rows[p][i].old
    /\ rows' = [rows EXCEPT ![p][i].old = TRUE]
    /\ UNCHANGED <<thread, alerting, up, unswept, used>>

(* The watchdog marks what is stalled, and will alert on each.  A row is      *)
(* listed before its update: when an update or the commit fails no row is    *)
(* marked, and those up to the failing one are alerted all the same.         *)
Watch(p) ==
    /\ thread[p] = "watchdog"
    /\ thread' = [thread EXCEPT ![p] = "alerts"]
    /\ \/ /\ alerting' = [alerting EXCEPT ![p] = Stalled(p)]
          /\ rows' = [rows EXCEPT ![p] = [i \in Ids(p) |->
                IF i \in Stalled(p) THEN [rows[p][i] EXCEPT !.status = "stalled"]
                ELSE rows[p][i]]]
          /\ Ok
       \/ \E n \in 0..Len(rows[p]) :
          /\ alerting' = [alerting EXCEPT ![p] = {i \in Stalled(p) : i <= n}]
          /\ rows' = [rows EXCEPT ![p] = [i \in Ids(p) |->
                IF i \in Stalled(p) /\ i <= n THEN [rows[p][i] EXCEPT !.again = @ + 1]
                ELSE rows[p][i]]]
          /\ Locked
    /\ UNCHANGED <<up, unswept>>

\* The mail of one stalled row goes out, or is lost: nothing sends it again.
Alert(p, i) ==
    /\ thread[p] = "alerts" /\ i \in alerting[p]
    /\ alerting' = [alerting EXCEPT ![p] = @ \ {i}]
    /\ \/ rows' = [rows EXCEPT ![p][i].alerts = @ + 1] /\ Ok
       \/ /\ used.unsent < MaxUnsent
          /\ used' = [used EXCEPT !.unsent = @ + 1]
          /\ UNCHANGED rows
    /\ UNCHANGED <<thread, up, unswept>>

CycleEnds(p) ==
    /\ thread[p] = "alerts" /\ alerting[p] = {}
    /\ thread' = [thread EXCEPT ![p] = "done"]
    /\ UNCHANGED <<rows, alerting, up, unswept, used>>

(* The pool has been waited for: the loop runs the profiles again.  When the *)
(* bound on rows is reached only the watchdog is left of a cycle.            *)
NextCycle ==
    /\ up = "up"
    /\ \A p \in Profiles : thread[p] = "done"
    /\ thread' = [p \in Profiles |-> IF Len(rows[p]) < MaxRuns THEN "idle" ELSE "watchdog"]
    /\ UNCHANGED <<rows, alerting, up, unswept, used>>

-----------------------------------------------------------------------------
Crash ==
    /\ up # "down" /\ used.crashes < MaxCrashes
    /\ up' = "down"
    /\ rows' = [p \in Profiles |-> [i \in Ids(p) |->
          IF i \in Current(p) THEN [rows[p][i] EXCEPT !.fate = "killed"] ELSE rows[p][i]]]
    /\ thread' = [p \in Profiles |-> "done"]
    /\ alerting' = [p \in Profiles |-> {}]
    /\ used' = [used EXCEPT !.crashes = @ + 1]
    /\ UNCHANGED unswept

Restart ==
    /\ up = "down"
    /\ up' = "starting"
    /\ unswept' = Profiles
    /\ UNCHANGED <<rows, thread, alerting, used>>

\* MarkOrphaned that sweeps nothing.
SweepNothing(p) ==
    /\ up = "starting" /\ p \in unswept
    /\ unswept' = unswept \ {p}
    /\ UNCHANGED <<rows, thread, alerting, up, used>>

\* mark_orphaned_at_startup on one database; a locked one is passed over.
MarkOrphaned(p) ==
    /\ up = "starting" /\ p \in unswept
    /\ unswept' = unswept \ {p}
    /\ \/ /\ rows' = [rows EXCEPT ![p] = [i \in Ids(p) |->
                IF rows[p][i].status = "running"
                THEN [rows[p][i] EXCEPT !.status = "orphaned_restart"] ELSE rows[p][i]]]
          /\ Ok
       \/ /\ rows' = [rows EXCEPT ![p] = [i \in Ids(p) |->
                IF rows[p][i].status = "running"
                THEN [rows[p][i] EXCEPT !.lost = TRUE] ELSE rows[p][i]]]
          /\ Locked
    /\ UNCHANGED <<thread, alerting, up>>

Started ==
    /\ up = "starting" /\ unswept = {}
    /\ up' = "up"
    /\ UNCHANGED <<rows, thread, alerting, unswept, used>>

-----------------------------------------------------------------------------
Next ==
    \/ \E p \in Profiles :
         \/ StartTask(p) \/ TaskEnds(p) \/ Watch(p) \/ CycleEnds(p)
         \/ MarkOrphaned(p)
         \/ \E i \in Ids(p) : GrowsOld(p, i) \/ Alert(p, i)
    \/ NextCycle \/ Crash \/ Restart \/ Started

Proceed(p) == StartTask(p) \/ Watch(p) \/ CycleEnds(p) \/ MarkOrphaned(p)
              \/ \E i \in Ids(p) : Alert(p, i)

\* Everything goes on, and every task ends.
Fairness ==
    /\ \A p \in Profiles : WF_vars(Proceed(p)) /\ WF_vars(TaskEnds(p))
    /\ \A p \in Profiles : \A i \in 1..MaxRuns : WF_vars(i \in Ids(p) /\ GrowsOld(p, i))
    /\ WF_vars(NextCycle) /\ WF_vars(Restart) /\ WF_vars(Started)

Spec == Init /\ [][Next]_vars
FairSpec == Spec /\ Fairness

-----------------------------------------------------------------------------
(* A profile has at most one task under way, in a process that is up, and    *)
(* only rows marked stalled, or still to be marked, wait for an alert.       *)
TypeOK ==
    /\ up \in {"up", "starting", "down"} /\ unswept \subseteq Profiles
    /\ \A p \in Profiles :
         /\ thread[p] \in {"idle", "task", "watchdog", "alerts", "done"}
         /\ Cardinality(Current(p)) <= 1
         /\ Current(p) # {} => thread[p] = "task" /\ up = "up"
         /\ \A i \in alerting[p] : rows[p][i].status \in {"stalled", "running"}
         /\ \A i \in Ids(p) : rows[p][i].status \in
              {"running", "completed", "failed", "stalled", "orphaned_restart"}

(* A final status tells what became of the task (_mark_completed,            *)
(* _mark_failed, mark_orphaned_at_startup): a row that says so ended that    *)
(* way, one that says orphaned is not running.                               *)
StatusIsTrue ==
    \A p \in Profiles : \A i \in Ids(p) : LET r == rows[p][i] IN
        /\ r.status = "completed" => r.fate = "done"
        /\ r.status = "failed" => r.fate = "raised"
        /\ r.status = "orphaned_restart" => r.fate # "live"

(* The watchdog marks a row, or lists it, only when an update of it was      *)
(* lost: never a task that is still running, and never one a restart killed  *)
(* if the sweep at the start reached it (check_stalled_runs,                 *)
(* mark_orphaned_at_startup).                                                *)
StalledWasLost ==
    \A p \in Profiles : \A i \in Ids(p) :
        rows[p][i].status = "stalled" \/ i \in alerting[p]
            => rows[p][i].fate # "live" /\ rows[p][i].lost

(* A row is alerted once for the pass that marks it, and once more at most   *)
(* for each pass that listed it and failed to mark it; one that was never    *)
(* marked has only those (check_stalled_runs marks "so we don't re-alert").  *)
AlertedOnce ==
    \A p \in Profiles : \A i \in Ids(p) : LET r == rows[p][i] IN
        r.alerts <= r.again + (IF r.status = "stalled" THEN 1 ELSE 0)

(* When every task ends, no row of one that is over says running for ever:   *)
(* its own mark, the watchdog or the sweep closes it.                        *)
NoZombieRow ==
    \A p \in Profiles : \A i \in 1..MaxRuns :
        (i \in Ids(p) /\ rows[p][i].fate # "live")
            ~> (i \in Ids(p) /\ rows[p][i].status # "running")
=============================================================================

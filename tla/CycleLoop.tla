----------------------------- MODULE CycleLoop ------------------------------
(***************************************************************************)
(* The scheduler's main loop (multi_scheduler.main_loop, profile mode) and *)
(* the order of the tasks of one profile's cycle (run_segment_cycle).      *)
(*                                                                         *)
(* An iteration collects the profiles that are due, runs those that owe no *)
(* scan in a first pool and the others in a second, waits for each pool,   *)
(* and then writes the date of the daily bundle.  Of the bundle the model  *)
(* keeps the snapshot and the profile's summary mail.  A day has three     *)
(* phases: open, late (from 15:55) and closed (from 16:00).                *)
(***************************************************************************)
EXTENDS Integers, Sequences, FiniteSets, TLC

CONSTANTS Profiles,
          AlwaysOn,     \* schedule 24_7: the others keep market hours
          Workers,      \* _CYCLE_MAX_WORKERS
          MaxDay,
          MaxFaults     \* crashes, stops, and cycles, tasks, contexts, mails and
                        \* marker files that fail

LoopAssumption ==
    /\ IsFiniteSet(Profiles) /\ Profiles # {} /\ AlwaysOn \subseteq Profiles
    /\ {Workers, MaxDay} \subseteq Nat \ {0} /\ MaxFaults \in Nat

VARIABLES
    now,        \* the day and its phase
    loop,       \* where the loop is, and what it saw at the iteration's top
    shutdown,   \* _shutdown
    last,       \* last_run["daily_snapshot"]
    marker,     \* .daily_snapshot_done.marker
    clock,      \* profile -> the kinds of work whose interval has elapsed
    item,       \* profile -> the work of this iteration, {} when it has none
    queued, running,    \* the pool's
    work,       \* profile -> the tasks left of its cycle
    mail,       \* profile -> its summary mail: the date in its marker file, its step
    owed,       \* profile -> the work that fell due and was not done since
    snapped,    \* profile -> the day of its last snapshot
    dropped,    \* profile -> the work a failure or a stop took from it, until its
                \* interval elapses again; the snapshot until the next day
    used        \* the faults so far

vars == <<now, loop, shutdown, last, marker, clock, item, queued, running,
          work, mail, owed, snapped, dropped, used>>
pool == <<item, queued, running, work>>
day == <<last, marker>>

-----------------------------------------------------------------------------
Timers == {"scan", "exits"}
Kinds == Timers \cup {"snapshot"}

\* run_segment_cycle: the tasks of a cycle, in the order it runs them.
Tasks(kinds) ==
    (IF "exits" \in kinds THEN <<"exits">> ELSE <<>>)
      \o (IF "scan" \in kinds THEN <<"scan">> ELSE <<>>)
      \o (IF "snapshot" \in kinds THEN <<"snapshot", "summary">> ELSE <<>>)

MarketOpen(phase) == phase \in {"open", "late"}

\* is_within_schedule.
InSchedule(p) == p \in AlwaysOn \/ MarketOpen(now.phase)

\* The work of p in an iteration; snap is do_snapshot.
Due(p, snap) ==
    IF InSchedule(p) THEN clock[p] \cup (IF snap THEN {"snapshot"} ELSE {})
                     ELSE {}

(* The summary mail: the date in its marker file, whether its task has found *)
(* it unsent or has sent it and not yet written the marker; and, which only  *)
(* the properties read, how often it went out today and how often a marker   *)
(* was lost.                                                                 *)
NoMail == [date |-> 0, step |-> "none", sent |-> 0, lost |-> 0]
NoWork == [p \in Profiles |-> <<>>]
NoItem == [p \in Profiles |-> {}]

At(where, d, phase, snap) == [at |-> where, day |-> d, phase |-> phase, snap |-> snap]

Init ==
    /\ now = [day |-> 1, phase |-> "open"]
    /\ loop = At("top", 0, "none", FALSE)
    /\ shutdown = FALSE
    /\ last = 0 /\ marker = 0
    /\ clock = [p \in Profiles |-> Timers]
    /\ item = NoItem /\ queued = {} /\ running = {} /\ work = NoWork
    /\ mail = [p \in Profiles |-> NoMail]
    /\ owed = [p \in Profiles |-> Timers]
    /\ snapped = [p \in Profiles |-> 0]
    /\ dropped = [p \in Profiles |-> {}]
    /\ used = 0

Fault(n) == used + n <= MaxFaults /\ used' = used + n

-----------------------------------------------------------------------------
(* The clock. *)

\* An interval elapses; the exit interval is the shorter one.
Elapse(p, kinds) ==
    /\ MarketOpen(now.phase)
    /\ ~ kinds \subseteq clock[p]
    /\ clock' = [clock EXCEPT ![p] = @ \cup kinds]
    /\ owed' = [owed EXCEPT ![p] = @ \cup kinds]
    /\ dropped' = [dropped EXCEPT ![p] = @ \ kinds]
    /\ UNCHANGED <<now, loop, shutdown, day, pool, mail, snapped, used>>

\* The parked loop looks every minute: it does not sleep through a session.
Later ==
    /\ ~ (now.phase = "open" /\ loop.at = "parked")
    /\ now' = IF now.phase = "open" THEN [now EXCEPT !.phase = "late"]
                                    ELSE [now EXCEPT !.phase = "closed"]
    /\ now.phase # "closed"
    /\ UNCHANGED <<loop, shutdown, day, clock, pool, mail, owed, snapped, dropped, used>>

\* The night is longer than an iteration: the loop has seen the close.
NewDay ==
    /\ now.day < MaxDay
    /\ now.phase = "closed"
    /\ loop.at \in {"top", "parked"} /\ loop.day = now.day /\ loop.phase = "closed"
    /\ now' = [day |-> now.day + 1, phase |-> "open"]
    /\ mail' = [p \in Profiles |-> [mail[p] EXCEPT !.sent = 0, !.lost = 0]]
    /\ dropped' = [p \in Profiles |-> dropped[p] \ {"snapshot"}]
    /\ UNCHANGED <<loop, shutdown, day, clock, pool, owed, snapped, used>>

-----------------------------------------------------------------------------
(* The loop. *)

\* _split_due_for_fast_exits: the pool that runs a profile with such work.
InPass(pass, kinds) ==
    kinds # {} /\ pass = (IF "scan" \in kinds THEN "scans" ELSE "exits")

\* Profiles whose context cannot be built are passed over, their snapshot with them.
PassOver(broken, kinds) ==
    /\ Fault(Cardinality(broken))
    /\ dropped' = [p \in Profiles |->
          IF p \in broken THEN dropped[p] \cup (kinds[p] \cap {"snapshot"}) ELSE dropped[p]]

\* The top of an iteration: do_snapshot, the due profiles, the first pool.
Iterate ==
    /\ loop.at = "top" /\ ~shutdown
    /\ LET snap == now.phase # "open" /\ last # now.day IN
       \E broken \in SUBSET {p \in Profiles : Due(p, snap) # {}} :
          /\ PassOver(broken, [p \in Profiles |-> Due(p, snap)])
          /\ item' = [p \in Profiles |-> IF p \in broken THEN {} ELSE Due(p, snap)]
          /\ queued' = {p \in Profiles : InPass("exits", item'[p])}
          /\ loop' = At("exits", now.day, now.phase, snap)
    /\ UNCHANGED <<now, shutdown, day, clock, running, work, mail, owed, snapped>>

PoolDone == queued = {} /\ running = {}

\* The second pool, behind the barrier of the first.
ScanPass ==
    /\ loop.at = "exits" /\ PoolDone
    /\ loop' = [loop EXCEPT !.at = "scans"]
    /\ queued' = {p \in Profiles : InPass("scans", item[p])}
    /\ UNCHANGED <<now, shutdown, day, clock, item, running, work, mail, owed, snapped, dropped, used>>

\* A worker takes a profile: the run clocks are stamped at the start.
Start(p) ==
    /\ p \in queued
    /\ Cardinality(running) < (IF loop.at = "missed" THEN 1 ELSE Workers)
    /\ queued' = queued \ {p}
    /\ running' = running \cup {p}
    /\ clock' = [clock EXCEPT ![p] = @ \ item[p]]
    /\ work' = [work EXCEPT ![p] = Tasks(item[p])]
    /\ UNCHANGED <<now, loop, shutdown, day, item, mail, owed, snapped, dropped, used>>

\* The task at the head is not done, and its interval has not elapsed again.
Drop(p) ==
    dropped' = [dropped EXCEPT ![p] = @ \cup (({Head(work[p])} \cap Kinds) \ clock[p])]

\* run_task: once _shutdown is set no task starts.
Skip(p) ==
    /\ shutdown /\ p \in running /\ work[p] # <<>> /\ mail[p].step = "none"
    /\ work' = [work EXCEPT ![p] = Tail(@)]
    /\ Drop(p)
    /\ UNCHANGED <<now, loop, shutdown, day, clock, item, queued, running, mail, owed, snapped, used>>

\* A task other than the mail.
Perform(p) ==
    /\ ~shutdown /\ p \in running /\ work[p] # <<>>
    /\ Head(work[p]) \in Kinds
    /\ owed' = [owed EXCEPT ![p] = @ \ {Head(work[p])}]
    /\ dropped' = [dropped EXCEPT ![p] = @ \ {Head(work[p])}]
    /\ snapped' = IF Head(work[p]) = "snapshot" THEN [snapped EXCEPT ![p] = now.day]
                                                ELSE snapped
    /\ work' = [work EXCEPT ![p] = Tail(@)]
    /\ UNCHANGED <<now, loop, shutdown, day, clock, item, queued, running, mail, used>>

(* A task raises: run_task swallows it, the cycle goes on, the clocks stay   *)
(* stamped.  Of the mail task what comes before the mail may raise.          *)
Raise(p) ==
    /\ p \in running /\ work[p] # <<>>
    /\ mail[p].step # "sending"
    /\ shutdown => mail[p].step = "unsent"
    /\ mail' = [mail EXCEPT ![p].step = "none"]
    /\ work' = [work EXCEPT ![p] = Tail(@)]
    /\ Drop(p)
    /\ Fault(1)
    /\ UNCHANGED <<now, loop, shutdown, day, clock, item, queued, running, owed, snapped>>

\* The mail task reads its marker file; today's date there ends it.
CheckMail(p) ==
    /\ ~shutdown /\ p \in running /\ work[p] # <<>>
    /\ Head(work[p]) = "summary" /\ mail[p].step = "none"
    /\ IF mail[p].date = now.day
       THEN work' = [work EXCEPT ![p] = Tail(@)] /\ UNCHANGED mail
       ELSE mail' = [mail EXCEPT ![p].step = "unsent"] /\ UNCHANGED work
    /\ UNCHANGED <<now, loop, shutdown, day, clock, item, queued, running, owed, snapped, dropped, used>>

\* The mail goes out, or the service refuses it: the marker is written all the same.
SendMail(p) ==
    /\ mail[p].step = "unsent"
    /\ \/ /\ mail' = [mail EXCEPT ![p].step = "sending", ![p].sent = @ + 1]
          /\ UNCHANGED used
       \/ /\ mail' = [mail EXCEPT ![p].step = "sending"]
          /\ Fault(1)
    /\ UNCHANGED <<now, loop, shutdown, day, clock, pool, owed, snapped, dropped>>

\* The marker file is written after the mail went out, or cannot be.
MarkMail(p) ==
    /\ mail[p].step = "sending"
    /\ \/ /\ mail' = [mail EXCEPT ![p].step = "none", ![p].date = now.day]
          /\ UNCHANGED used
       \/ /\ mail' = [mail EXCEPT ![p].step = "none", ![p].lost = @ + 1]
          /\ Fault(1)
    /\ work' = [work EXCEPT ![p] = Tail(@)]
    /\ UNCHANGED <<now, loop, shutdown, day, clock, item, queued, running, owed, snapped, dropped>>

Finish(p) ==
    /\ p \in running /\ work[p] = <<>>
    /\ running' = running \ {p}
    /\ UNCHANGED <<now, loop, shutdown, day, clock, item, queued, work, mail, owed, snapped, dropped, used>>

\* What a failed cycle leaves dropped: the clocks bring back the rest of it.
Untaken(p) == (dropped[p] \ (item[p] \cap Timers))
              \cup (IF \E i \in DOMAIN work[p] : work[p][i] = "snapshot" THEN {"snapshot"} ELSE {})

\* Fail that leaves the clocks stamped.
FailStamped(p) ==
    /\ loop.at # "missed" /\ p \in running
    /\ mail[p].step = "none"
    /\ running' = running \ {p}
    /\ work' = [work EXCEPT ![p] = <<>>]
    /\ dropped' = [dropped EXCEPT ![p] = Untaken(p)]
    /\ Fault(1)
    /\ UNCHANGED <<now, loop, shutdown, day, clock, item, queued, mail, owed, snapped>>

\* run_segment_cycle raises: the worker puts the clocks back.
Fail(p) ==
    /\ loop.at # "missed" /\ p \in running
    /\ mail[p].step = "none"
    /\ running' = running \ {p}
    /\ work' = [work EXCEPT ![p] = <<>>]
    /\ clock' = [clock EXCEPT ![p] = @ \cup (item[p] \cap Timers)]
    /\ dropped' = [dropped EXCEPT ![p] = Untaken(p)]
    /\ Fault(1)
    /\ UNCHANGED <<now, loop, shutdown, day, item, queued, mail, owed, snapped>>

\* ran_something and do_snapshot: the bundle of the day counts as done.
BundleRan == loop.snap /\ (loop.at = "missed" \/ \E p \in Profiles : item[p] # {})

Stamp ==
    /\ loop.at \in {"scans", "missed"} /\ PoolDone
    /\ BundleRan /\ last # loop.day
    /\ last' = loop.day
    /\ UNCHANGED <<now, loop, shutdown, marker, clock, pool, mail, owed, snapped, dropped, used>>

Stamped == BundleRan => last = loop.day

\* _persist_snapshot_marker: with the stamp, or the file cannot be written.
WriteMarker ==
    \/ marker' = (IF BundleRan THEN last ELSE marker) /\ UNCHANGED used
    \/ BundleRan /\ Fault(1) /\ UNCHANGED marker

\* Persist that goes to sleep at the close, bundle or no bundle.
PersistAndPark ==
    /\ loop.at \in {"scans", "missed"} /\ PoolDone /\ Stamped
    /\ WriteMarker
    /\ item' = NoItem
    /\ loop' = [loop EXCEPT !.at = IF MarketOpen(loop.phase) \/ AlwaysOn # {} THEN "top"
                                   ELSE "parked"]
    /\ UNCHANGED <<now, shutdown, last, clock, queued, running, work, mail, owed, snapped, dropped>>

\* The marker, and the end of the iteration or of the late bundle.
Persist ==
    /\ loop.at \in {"scans", "missed"} /\ PoolDone /\ Stamped
    /\ WriteMarker
    /\ item' = NoItem
    /\ loop' = [loop EXCEPT !.at = IF MarketOpen(loop.phase) \/ AlwaysOn # {} THEN "top"
                                   ELSE IF last # loop.day THEN "closed" ELSE "parked"]
    /\ UNCHANGED <<now, shutdown, last, clock, queued, running, work, mail, owed, snapped, dropped>>

\* The market closed with no bundle today: one for every profile, in turn.
MissedSnapshot ==
    /\ loop.at = "closed"
    /\ \E broken \in SUBSET Profiles :
          /\ PassOver(broken, [p \in Profiles |-> {"snapshot"}])
          /\ item' = [p \in Profiles |-> IF p \in broken THEN {} ELSE {"snapshot"}]
          /\ queued' = Profiles \ broken
    /\ loop' = [loop EXCEPT !.at = "missed", !.snap = TRUE]
    /\ UNCHANGED <<now, shutdown, day, clock, running, work, mail, owed, snapped>>

\* The late bundle leaves its loop at a shutdown.
BreakMissed ==
    /\ loop.at = "missed" /\ shutdown /\ queued # {}
    /\ queued' = {}
    /\ dropped' = [p \in Profiles |-> IF p \in queued THEN dropped[p] \cup {"snapshot"}
                                                      ELSE dropped[p]]
    /\ UNCHANGED <<now, loop, shutdown, day, clock, item, running, work, mail, owed, snapped, used>>

Wake ==
    /\ loop.at = "parked" /\ ~shutdown /\ MarketOpen(now.phase)
    /\ loop' = [loop EXCEPT !.at = "top"]
    /\ UNCHANGED <<now, shutdown, day, clock, pool, mail, owed, snapped, dropped, used>>

-----------------------------------------------------------------------------
(* Signals, crashes and restarts. *)

Signal ==
    /\ loop.at # "down" /\ ~shutdown
    /\ shutdown' = TRUE
    /\ Fault(1)
    /\ UNCHANGED <<now, loop, day, clock, pool, mail, owed, snapped, dropped>>

Stop ==
    /\ shutdown /\ loop.at \in {"top", "parked"}
    /\ loop' = At("down", 0, "none", FALSE)
    /\ UNCHANGED <<now, shutdown, day, clock, pool, mail, owed, snapped, dropped, used>>

Crash ==
    /\ loop.at # "down"
    /\ loop' = At("down", 0, "none", FALSE)
    /\ item' = NoItem /\ queued' = {} /\ running' = {} /\ work' = NoWork
    /\ mail' = [p \in Profiles |-> [mail[p] EXCEPT !.step = "none",
                     !.lost = IF mail[p].step = "sending" THEN @ + 1 ELSE @]]
    /\ Fault(1)
    /\ UNCHANGED <<now, shutdown, day, clock, owed, snapped, dropped>>

\* A new process: the date comes from the marker, every clock starts at 0.
Restart ==
    /\ loop.at = "down"
    /\ loop' = At("top", 0, "none", FALSE)
    /\ shutdown' = FALSE
    /\ last' = marker
    /\ clock' = [p \in Profiles |-> Timers]
    /\ dropped' = [p \in Profiles |-> dropped[p] \ Timers]
    /\ UNCHANGED <<now, marker, pool, mail, owed, snapped, used>>

-----------------------------------------------------------------------------
Thread(p) ==
    \/ Start(p) \/ Skip(p) \/ Perform(p) \/ CheckMail(p) \/ Finish(p)
    \/ SendMail(p) \/ MarkMail(p)

Loop == Iterate \/ ScanPass \/ Stamp \/ Persist \/ MissedSnapshot \/ BreakMissed
        \/ Wake \/ Stop \/ Restart

Next ==
    \/ \E p \in Profiles :
         \/ \E kinds \in {Timers, {"exits"}} : Elapse(p, kinds)
         \/ Start(p) \/ Skip(p) \/ Perform(p) \/ CheckMail(p) \/ Finish(p)
         \/ SendMail(p) \/ MarkMail(p)
         \/ Raise(p) \/ Fail(p)
    \/ Later \/ NewDay
    \/ Iterate \/ ScanPass \/ Stamp \/ Persist \/ MissedSnapshot \/ BreakMissed
    \/ Wake
    \/ Signal \/ Stop \/ Crash \/ Restart

\* Time goes on, the loop iterates, the workers work; a killed process is restarted.
Fairness ==
    /\ WF_vars(Later) /\ WF_vars(NewDay)
    /\ WF_vars(Loop)
    /\ \A p \in Profiles : WF_vars(Thread(p))

Spec == Init /\ [][Next]_vars
FairSpec == Spec /\ Fairness

-----------------------------------------------------------------------------
(* At most Workers profiles run at once, a profile is in one place, and what *)
(* runs has work of this iteration.                                          *)
TypeOK ==
    /\ now \in [day : 1..MaxDay, phase : {"open", "late", "closed"}]
    /\ loop.at \in {"top", "exits", "scans", "closed", "missed", "parked", "down"}
    /\ {last, marker} \subseteq 0..MaxDay
    /\ Cardinality(running) <= Workers
    /\ queued \cap running = {}
    /\ \A p \in Profiles :
         /\ clock[p] \subseteq Timers /\ owed[p] \subseteq Timers /\ dropped[p] \subseteq Kinds
         /\ p \in queued \cup running => item[p] # {}
         /\ work[p] # <<>> => p \in running
         /\ snapped[p] <= now.day

(* No entry scan runs while a profile that only owes exits has not finished  *)
(* its cycle (_split_due_for_fast_exits, the barrier of the first pool).     *)
ExitsBeforeScans ==
    \A p \in running : "scan" \in item[p] =>
        \A q \in queued \cup running : "scan" \in item[q]

(* Work whose interval has elapsed is not forgotten: while the process       *)
(* lives, what is owed is due at the next iteration, is being done, or was   *)
(* dropped because its task raised or a shutdown passed it over, and then    *)
(* only until its interval elapses again (_run_one_profile: stamped at the   *)
(* start, put back on a failure; run_task swallows a task that raises).      *)
NothingForgotten ==
    loop.at # "down" =>
        \A p \in Profiles :
            /\ owed[p] \subseteq clock[p] \cup dropped[p] \cup
                                 (IF p \in running THEN item[p] ELSE {})
            /\ dropped[p] \cap clock[p] = {}

(* A profile's summary mail goes out once a day, again only when its marker  *)
(* was lost, because the process died between the mail and the marker or the *)
(* file could not be written (_task_daily_summary_email).                    *)
SummaryOnce == \A p \in Profiles : mail[p].sent <= 1 + mail[p].lost

(* On every day each profile has its daily snapshot, whatever crashes, or it *)
(* was dropped that day: its task raised, its cycle failed, its context was  *)
(* not built, or a shutdown passed it over (main_loop, the marker and the    *)
(* late bundle).                                                             *)
EveryDaySnapshot ==
    \A d \in 1..MaxDay : now.day = d ~>
        \A p \in Profiles : snapped[p] = d \/ (now.day = d /\ "snapshot" \in dropped[p])
=============================================================================

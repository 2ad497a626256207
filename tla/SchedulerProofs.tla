---------------------------- MODULE SchedulerProofs ----------------------------
(* What the machinery of a cycle promises, for every value of the constants:  *)
(* the rows of the task watchdog tell the truth, whatever updates are lost    *)
(* and whenever the process dies; the main loop runs exits before scans,      *)
(* forgets no work and mails no summary twice; and the event bus handles      *)
(* events in order and calls a handler a bounded number of times.             *)
EXTENDS ServicesProofs, SequenceTheorems

LEMMA WatchMoves == ASSUME [Next]_vars PROVE [Watchdog!Next]_Watchdog!vars
BY DEF Next, vars, watch, Watchdog!vars, RiskStep, HaltsStep, ProvidersStep, CostsStep,
       StatusesStep, CycleStep, WatchStep, BusStep, ExpiryStep, EventsStep, ProtectStep

-----------------------------------------------------------------------------
(* Task watchdog.  A row of a live task is its thread's, and says running; a  *)
(* row that says running of a task that is over lost an update, or waits for  *)
(* the sweep at the next start.                                               *)

Row == [status : {"running", "completed", "failed", "stalled", "orphaned_restart"},
        old : BOOLEAN, fate : {"live", "done", "raised", "killed"},
        lost : BOOLEAN, alerts : Nat, again : Nat]

RowFits(r, step, waits) ==
    /\ r.fate = "live" => step = "task" /\ r.status = "running"
    /\ r.status = "completed" => r.fate = "done"
    /\ r.status = "failed" => r.fate = "raised"
    /\ r.status = "orphaned_restart" => r.fate # "live"
    /\ r.status = "stalled" => r.fate # "live" /\ r.lost = TRUE
    /\ r.status = "running" /\ r.fate # "live" => r.lost = TRUE \/ waits
    /\ r.status # "stalled" => r.alerts <= r.again
    /\ r.alerts <= r.again + 1

AwaitsSweep(p) == process = "down" \/ (process = "starting" /\ p \in unswept)

RowsFit == \A p \in Watched : \A i \in DOMAIN rows[p] :
              RowFits(rows[p][i], thread[p], AwaitsSweep(p))

\* A row that waits for its alert has this one to come, marked or not.
Listed(r) ==
    \/ r.status = "stalled" /\ r.alerts <= r.again
    \/ r.status = "running" /\ r.fate # "live" /\ r.lost = TRUE /\ r.alerts < r.again

AlertsFit ==
    \A p \in Watched :
        /\ alerting[p] # {} => thread[p] = "alerts"
        /\ \A i \in alerting[p] : i \in DOMAIN rows[p] /\ Listed(rows[p][i])

WatchTyped ==
    /\ rows \in [Watched -> Seq(Row)]
    /\ thread \in [Watched -> {"idle", "task", "watchdog", "alerts", "done"}]
    /\ alerting \in [Watched -> SUBSET Nat]
    /\ process \in {"up", "starting", "down"}
    /\ process # "up" => \A p \in Watched : thread[p] = "done"

WatchInv == WatchTyped /\ RowsFit /\ AlertsFit

LEMMA RowOf ==
    ASSUME WatchTyped, NEW p \in Watched, NEW i \in DOMAIN rows[p]
    PROVE  rows[p][i] \in Row
BY ElementOfSeq, LenProperties DEF WatchTyped

\* A profile's rows written anew, one for one.
LEMMA Rewritten ==
    ASSUME NEW s \in Seq(Row), NEW f, DOMAIN f = DOMAIN s, f = [i \in DOMAIN s |-> f[i]],
           \A i \in DOMAIN s : f[i] \in Row
    PROVE  f \in Seq(Row)
<1>1. DOMAIN s = 1..Len(s) /\ Len(s) \in Nat
  BY LenProperties
<1>2. f \in [1..Len(s) -> Row]
  BY <1>1
<1> QED BY <1>1, <1>2, SeqDef

LEMMA WatchInit == Init => WatchInv
<1> SUFFICES ASSUME Init PROVE WatchInv
  OBVIOUS
<1>1. /\ rows = [p \in Watched |-> <<>>] /\ thread = [p \in Watched |-> "idle"]
      /\ alerting = [p \in Watched |-> {}] /\ process = "up"
  BY DEF Init, Watchdog!Init
<1>2. <<>> \in Seq(Row) /\ DOMAIN <<>> = {}
  BY EmptySeq
<1> QED BY <1>1, <1>2 DEF WatchInv, WatchTyped, RowsFit, AlertsFit

\* A step that leaves each row at its place and in its shape.
LEMMA RowsKept ==
    ASSUME WatchTyped, NEW p \in Watched,
           NEW f, f = [i \in DOMAIN rows[p] |-> f[i]], \A i \in DOMAIN rows[p] : f[i] \in Row,
           rows' = [rows EXCEPT ![p] = f]
    PROVE  /\ rows' \in [Watched -> Seq(Row)] /\ rows'[p] = f /\ DOMAIN rows'[p] = DOMAIN rows[p]
           /\ \A q \in Watched \ {p} : rows'[q] = rows[q]
<1>1. rows \in [Watched -> Seq(Row)] /\ rows[p] \in Seq(Row)
  BY DEF WatchTyped
<1>2. DOMAIN f = DOMAIN rows[p]
  OBVIOUS
<1>3. f \in Seq(Row)
  BY <1>1, <1>2, Rewritten
<1> QED BY <1>1, <1>2, <1>3

\* What an action does to one profile's rows, the others' as they were.
LEMMA OneProfileSteps ==
    ASSUME WatchInv, NEW p \in Watched,
           rows' \in [Watched -> Seq(Row)],
           \A q \in Watched \ {p} : rows'[q] = rows[q],
           thread' \in [Watched -> {"idle", "task", "watchdog", "alerts", "done"}],
           \A q \in Watched \ {p} : thread'[q] = thread[q],
           alerting' \in [Watched -> SUBSET Nat],
           \A q \in Watched \ {p} : alerting'[q] = alerting[q],
           process' = process,
           \A q \in Watched \ {p} : q \in unswept' <=> q \in unswept,
           process # "up" => thread'[p] = "done",
           \A i \in DOMAIN rows'[p] : RowFits(rows'[p][i], thread'[p], AwaitsSweep(p)'),
           alerting'[p] # {} => thread'[p] = "alerts",
           \A i \in alerting'[p] : i \in DOMAIN rows'[p] /\ Listed(rows'[p][i])
    PROVE  WatchInv'
<1>1. WatchTyped'
  BY DEF WatchInv, WatchTyped
<1>2. RowsFit'
  <2> SUFFICES ASSUME NEW q \in Watched, NEW i \in DOMAIN rows'[q]
               PROVE  RowFits(rows'[q][i], thread'[q], AwaitsSweep(q)')
    BY DEF RowsFit
  <2>1. CASE q = p
    BY <2>1
  <2>2. CASE q # p
    <3>1. rows'[q] = rows[q] /\ thread'[q] = thread[q]
      BY <2>2
    <3>2. AwaitsSweep(q)' <=> AwaitsSweep(q)
      BY <2>2 DEF AwaitsSweep
    <3>3. RowFits(rows[q][i], thread[q], AwaitsSweep(q))
      BY <3>1 DEF WatchInv, RowsFit
    <3> QED BY <3>1, <3>2, <3>3 DEF RowFits
  <2> QED BY <2>1, <2>2
<1>3. AlertsFit'
  <2> SUFFICES ASSUME NEW q \in Watched
               PROVE  /\ alerting'[q] # {} => thread'[q] = "alerts"
                      /\ \A i \in alerting'[q] : i \in DOMAIN rows'[q] /\ Listed(rows'[q][i])
    BY DEF AlertsFit
  <2>1. CASE q = p
    BY <2>1
  <2>2. CASE q # p
    <3>1. rows'[q] = rows[q] /\ thread'[q] = thread[q] /\ alerting'[q] = alerting[q]
      BY <2>2
    <3> QED BY <3>1 DEF WatchInv, AlertsFit
  <2> QED BY <2>1, <2>2
<1> QED BY <1>1, <1>2, <1>3 DEF WatchInv

LEMMA StartTaskFits == ASSUME WatchInv, NEW p \in Watched, Watchdog!StartTask(p) PROVE WatchInv'
<1>1. /\ process = "up" /\ process' = process /\ unswept' = unswept /\ alerting' = alerting
      /\ thread[p] = "idle" /\ thread' = [thread EXCEPT ![p] = "task"]
  BY DEF Watchdog!StartTask
<1>2. WatchTyped /\ alerting[p] = {} /\ rows[p] \in Seq(Row)
  BY <1>1 DEF WatchInv, WatchTyped, AlertsFit
<1>3. /\ thread' \in [Watched -> {"idle", "task", "watchdog", "alerts", "done"}]
      /\ thread'[p] = "task"
      /\ \A q \in Watched \ {p} : thread'[q] = thread[q]
  BY <1>1, <1>2 DEF WatchTyped
<1>4. \A i \in DOMAIN rows[p] : RowFits(rows[p][i], "task", FALSE)
  BY <1>1 DEF WatchInv, RowsFit, RowFits, AwaitsSweep
<1>5. ~AwaitsSweep(p)'
  BY <1>1 DEF AwaitsSweep
<1>6. CASE rows' = rows
  <2>1. \A i \in DOMAIN rows'[p] : RowFits(rows'[p][i], thread'[p], AwaitsSweep(p)')
    BY <1>3, <1>4, <1>5, <1>6 DEF RowFits
  <2> QED BY <1>1, <1>2, <1>3, <1>6, <2>1, OneProfileSteps DEF WatchTyped
<1>7. CASE rows' = [rows EXCEPT ![p] = Append(@, Watchdog!NewRow)]
  <2>1. Watchdog!NewRow \in Row /\ RowFits(Watchdog!NewRow, "task", FALSE)
    BY DEF Watchdog!NewRow, Row, RowFits
  <2>2. rows'[p] = Append(rows[p], Watchdog!NewRow) /\ rows' \in [Watched -> Seq(Row)]
        /\ \A q \in Watched \ {p} : rows'[q] = rows[q]
    BY <1>2, <1>7, <2>1, AppendProperties DEF WatchTyped
  <2>3. ASSUME NEW i \in DOMAIN rows'[p] PROVE RowFits(rows'[p][i], thread'[p], AwaitsSweep(p)')
    <3>1. i \in 1 .. Len(rows[p]) + 1 /\ DOMAIN rows[p] = 1 .. Len(rows[p]) /\ Len(rows[p]) \in Nat
      <4>1. rows'[p] \in Seq(Row) /\ Len(rows'[p]) = Len(rows[p]) + 1
        BY <1>2, <2>1, <2>2, AppendProperties
      <4> QED BY <1>2, <4>1, LenProperties
    <3>2. RowFits(rows'[p][i], "task", FALSE)
      <4>1. CASE i = Len(rows[p]) + 1
        <5>1. Append(rows[p], Watchdog!NewRow)[Len(rows[p]) + 1] = Watchdog!NewRow
          BY <1>2, <2>1, AppendProperties
        <5> QED BY <2>1, <2>2, <4>1, <5>1
      <4>2. CASE i # Len(rows[p]) + 1
        <5>1. i \in 1 .. Len(rows[p])
          BY <3>1, <4>2
        <5>2. rows'[p][i] = rows[p][i]
          BY <1>2, <2>1, <2>2, <5>1, AppendProperties
        <5> QED BY <1>4, <3>1, <5>1, <5>2
      <4> QED BY <4>1, <4>2
    <3> QED BY <1>3, <1>5, <3>2 DEF RowFits
  <2> QED BY <1>1, <1>2, <1>3, <2>2, <2>3, OneProfileSteps DEF WatchTyped
<1> QED BY <1>6, <1>7 DEF Watchdog!StartTask

LEMMA TaskEndsFits == ASSUME WatchInv, NEW p \in Watched, Watchdog!TaskEnds(p) PROVE WatchInv'
<1> DEFINE Marked(i, fate) == IF i \in Watchdog!Current(p)
                              THEN [rows[p][i] EXCEPT !.fate = fate,
                                       !.status = IF fate = "done" THEN "completed" ELSE "failed"]
                              ELSE rows[p][i]
           Missed(i, fate) == IF i \in Watchdog!Current(p)
                              THEN [rows[p][i] EXCEPT !.fate = fate, !.lost = TRUE] ELSE rows[p][i]
<1>1. /\ process' = process /\ unswept' = unswept /\ alerting' = alerting
      /\ thread[p] = "task" /\ thread' = [thread EXCEPT ![p] = "watchdog"]
  BY DEF Watchdog!TaskEnds
<1>2. WatchTyped /\ alerting[p] = {} /\ process = "up"
  BY <1>1 DEF WatchInv, WatchTyped, AlertsFit
<1>3. /\ thread' \in [Watched -> {"idle", "task", "watchdog", "alerts", "done"}]
      /\ thread'[p] = "watchdog"
      /\ \A q \in Watched \ {p} : thread'[q] = thread[q]
  BY <1>1, <1>2 DEF WatchTyped
<1>4. PICK fate \in {"done", "raised"} :
         \/ rows' = [rows EXCEPT ![p] = [i \in DOMAIN rows[p] |-> Marked(i, fate)]]
         \/ rows' = [rows EXCEPT ![p] = [i \in DOMAIN rows[p] |-> Missed(i, fate)]]
  BY DEF Watchdog!TaskEnds, Watchdog!Ids
<1>5. ASSUME NEW i \in DOMAIN rows[p]
      PROVE  /\ Marked(i, fate) \in Row /\ RowFits(Marked(i, fate), "watchdog", FALSE)
             /\ Missed(i, fate) \in Row /\ RowFits(Missed(i, fate), "watchdog", FALSE)
  <2>1. rows[p][i] \in Row /\ RowFits(rows[p][i], "task", FALSE)
    BY <1>1, <1>2, RowOf DEF WatchInv, RowsFit, RowFits, AwaitsSweep
  <2>2. i \in Watchdog!Current(p) <=> rows[p][i].fate = "live"
    BY DEF Watchdog!Current, Watchdog!Ids
  <2>3. PICK r \in Row : r = rows[p][i]
    BY <2>1
  <2>4. CASE r.fate = "live"
    <3>0. r.status = "running" /\ r.alerts <= r.again
      BY <2>1, <2>3, <2>4 DEF RowFits, Row
    <3>1. PICK m \in Row : /\ m = Marked(i, fate) /\ m.fate = fate
                           /\ m.alerts = r.alerts /\ m.again = r.again
                           /\ m.status = IF fate = "done" THEN "completed" ELSE "failed"
      <4>1. Marked(i, fate) = [r EXCEPT !.fate = fate,
                                  !.status = IF fate = "done" THEN "completed" ELSE "failed"]
        BY <2>2, <2>3, <2>4
      <4> HIDE DEF Marked
      <4> QED BY <3>0, <4>1 DEF Row
    <3>2. PICK n \in Row : /\ n = Missed(i, fate) /\ n.fate = fate
                           /\ n.alerts = r.alerts /\ n.again = r.again
                           /\ n.status = "running" /\ n.lost = TRUE
      <4>1. Missed(i, fate) = [r EXCEPT !.fate = fate, !.lost = TRUE]
        BY <2>2, <2>3, <2>4
      <4> HIDE DEF Missed
      <4> QED BY <3>0, <4>1 DEF Row
    <3> HIDE DEF Marked, Missed
    <3>3. RowFits(m, "watchdog", FALSE)
      BY <3>0, <3>1 DEF RowFits, Row
    <3>4. RowFits(n, "watchdog", FALSE)
      BY <3>0, <3>2 DEF RowFits, Row
    <3> QED BY <3>1, <3>2, <3>3, <3>4
  <2>5. CASE r.fate # "live"
    <3>1. Marked(i, fate) = r /\ Missed(i, fate) = r /\ RowFits(r, "task", FALSE)
      BY <2>1, <2>2, <2>3, <2>5
    <3> QED BY <2>5, <3>1 DEF RowFits
  <2> QED BY <2>4, <2>5
<1>6. ~AwaitsSweep(p)'
  BY <1>1, <1>2 DEF AwaitsSweep
<1>7. ASSUME NEW f, f = [i \in DOMAIN rows[p] |-> f[i]], rows' = [rows EXCEPT ![p] = f],
             \A i \in DOMAIN rows[p] : f[i] \in Row /\ RowFits(f[i], "watchdog", FALSE)
      PROVE  WatchInv'
  <2>1. /\ rows' \in [Watched -> Seq(Row)] /\ rows'[p] = f /\ DOMAIN rows'[p] = DOMAIN rows[p]
        /\ \A q \in Watched \ {p} : rows'[q] = rows[q]
    BY <1>2, <1>7, RowsKept
  <2>2. \A i \in DOMAIN rows'[p] : RowFits(rows'[p][i], thread'[p], AwaitsSweep(p)')
    BY <1>3, <1>6, <1>7, <2>1 DEF RowFits
  <2> QED BY <1>1, <1>2, <1>3, <2>1, <2>2, OneProfileSteps DEF WatchTyped
<1>8. CASE rows' = [rows EXCEPT ![p] = [i \in DOMAIN rows[p] |-> Marked(i, fate)]]
  <2> DEFINE f == [i \in DOMAIN rows[p] |-> Marked(i, fate)]
  <2>1. \A i \in DOMAIN rows[p] : f[i] \in Row /\ RowFits(f[i], "watchdog", FALSE)
    BY <1>5
  <2>2. f = [i \in DOMAIN rows[p] |-> f[i]]
    OBVIOUS
  <2>3. rows' = [rows EXCEPT ![p] = f]
    BY <1>8
  <2> HIDE DEF f
  <2> QED BY <1>7, <2>1, <2>2, <2>3
<1>9. CASE rows' = [rows EXCEPT ![p] = [i \in DOMAIN rows[p] |-> Missed(i, fate)]]
  <2> DEFINE f == [i \in DOMAIN rows[p] |-> Missed(i, fate)]
  <2>1. \A i \in DOMAIN rows[p] : f[i] \in Row /\ RowFits(f[i], "watchdog", FALSE)
    BY <1>5
  <2>2. f = [i \in DOMAIN rows[p] |-> f[i]]
    OBVIOUS
  <2>3. rows' = [rows EXCEPT ![p] = f]
    BY <1>9
  <2> HIDE DEF f
  <2> QED BY <1>7, <2>1, <2>2, <2>3
<1> QED BY <1>4, <1>8, <1>9

LEMMA GrowsOldFits ==
    ASSUME WatchInv, NEW p \in Watched, NEW i \in DOMAIN rows[p], Watchdog!GrowsOld(p, i)
    PROVE  WatchInv'
<1>1. /\ process' = process /\ unswept' = unswept /\ alerting' = alerting /\ thread' = thread
      /\ rows' = [rows EXCEPT ![p][i].old = TRUE]
  BY DEF Watchdog!GrowsOld
<1>2. WatchTyped /\ rows[p] \in Seq(Row)
  BY DEF WatchInv, WatchTyped
<1> DEFINE f == [rows[p] EXCEPT ![i].old = TRUE]
<1>3. rows' = [rows EXCEPT ![p] = f]
  BY <1>1
<1>4. f = [j \in DOMAIN rows[p] |-> f[j]]
  BY <1>2, LenProperties
<1>5. ASSUME NEW j \in DOMAIN rows[p]
      PROVE  /\ f[j] \in Row /\ RowFits(f[j], thread[p], AwaitsSweep(p))
             /\ Listed(rows[p][j]) => Listed(f[j])
  <2>1. PICK r \in Row : r = rows[p][j]
    BY <1>2, RowOf
  <2>2. RowFits(r, thread[p], AwaitsSweep(p))
    BY <2>1 DEF WatchInv, RowsFit
  <2>3. CASE j = i
    <3>1. f[j] = [r EXCEPT !.old = TRUE]
      BY <1>2, <2>1, <2>3
    <3> HIDE DEF f
    <3>2. /\ f[j] \in Row /\ f[j].status = r.status /\ f[j].alerts = r.alerts
          /\ f[j].fate = r.fate /\ f[j].lost = r.lost /\ f[j].again = r.again
      BY <3>1 DEF Row
    <3> QED BY <2>1, <2>2, <3>2 DEF RowFits, Listed
  <2>4. CASE j # i
    <3>1. f[j] = r
      BY <1>2, <2>1, <2>4
    <3> HIDE DEF f
    <3> QED BY <2>1, <2>2, <3>1
  <2> QED BY <2>3, <2>4
<1> HIDE DEF f
<1>6. /\ rows' \in [Watched -> Seq(Row)] /\ rows'[p] = f /\ DOMAIN rows'[p] = DOMAIN rows[p]
      /\ \A q \in Watched \ {p} : rows'[q] = rows[q]
  BY <1>2, <1>3, <1>4, <1>5, RowsKept
<1>7. AwaitsSweep(p)' <=> AwaitsSweep(p)
  BY <1>1 DEF AwaitsSweep
<1>8. \A j \in DOMAIN rows'[p] : RowFits(rows'[p][j], thread'[p], AwaitsSweep(p)')
  BY <1>1, <1>5, <1>6, <1>7 DEF RowFits
<1>9. /\ alerting'[p] # {} => thread'[p] = "alerts"
      /\ \A j \in alerting'[p] : j \in DOMAIN rows'[p] /\ Listed(rows'[p][j])
  BY <1>1, <1>5, <1>6 DEF WatchInv, AlertsFit
<1> QED BY <1>1, <1>2, <1>6, <1>8, <1>9, OneProfileSteps DEF WatchTyped

\* The watchdog's pass, whatever it does to the rows it lists.
LEMMA PassFits ==
    ASSUME WatchInv, NEW p \in Watched, thread[p] = "watchdog",
           process' = process, unswept' = unswept,
           thread' = [thread EXCEPT ![p] = "alerts"],
           NEW L \in SUBSET (DOMAIN rows[p]), alerting' = [alerting EXCEPT ![p] = L],
           NEW f, f = [i \in DOMAIN rows[p] |-> f[i]], rows' = [rows EXCEPT ![p] = f],
           \A i \in DOMAIN rows[p] : /\ f[i] \in Row /\ RowFits(f[i], "alerts", FALSE)
                                     /\ i \in L => Listed(f[i])
    PROVE  WatchInv'
<1>1. WatchTyped /\ rows[p] \in Seq(Row) /\ process = "up" /\ ~AwaitsSweep(p)'
  BY DEF WatchInv, WatchTyped, AwaitsSweep
<1>2. /\ rows' \in [Watched -> Seq(Row)] /\ rows'[p] = f /\ DOMAIN rows'[p] = DOMAIN rows[p]
      /\ \A q \in Watched \ {p} : rows'[q] = rows[q]
  BY <1>1, RowsKept
<1>3. /\ thread' \in [Watched -> {"idle", "task", "watchdog", "alerts", "done"}]
      /\ thread'[p] = "alerts" /\ \A q \in Watched \ {p} : thread'[q] = thread[q]
  BY <1>1 DEF WatchTyped
<1>4. /\ alerting' \in [Watched -> SUBSET Nat] /\ alerting'[p] = L
      /\ \A q \in Watched \ {p} : alerting'[q] = alerting[q]
  <2>1. L \in SUBSET Nat
    BY <1>1, LenProperties
  <2> QED BY <1>1, <2>1 DEF WatchTyped
<1>5. \A i \in DOMAIN rows'[p] : RowFits(rows'[p][i], thread'[p], AwaitsSweep(p)')
  BY <1>1, <1>2, <1>3 DEF RowFits
<1>6. \A i \in alerting'[p] : i \in DOMAIN rows'[p] /\ Listed(rows'[p][i])
  BY <1>2, <1>4
<1> QED BY <1>1, <1>2, <1>3, <1>4, <1>5, <1>6, OneProfileSteps

LEMMA WatchFits == ASSUME WatchInv, NEW p \in Watched, Watchdog!Watch(p) PROVE WatchInv'
<1> DEFINE Missed(n) == {i \in Watchdog!Stalled(p) : i <= n}
           Marked == [i \in DOMAIN rows[p] |-> IF i \in Watchdog!Stalled(p)
                         THEN [rows[p][i] EXCEPT !.status = "stalled"] ELSE rows[p][i]]
           Again(n) == [i \in DOMAIN rows[p] |-> IF i \in Watchdog!Stalled(p) /\ i <= n
                           THEN [rows[p][i] EXCEPT !.again = @ + 1] ELSE rows[p][i]]
<1>1. /\ process' = process /\ unswept' = unswept /\ thread[p] = "watchdog"
      /\ thread' = [thread EXCEPT ![p] = "alerts"]
  BY DEF Watchdog!Watch
<1>2. WatchTyped /\ rows[p] \in Seq(Row) /\ ~AwaitsSweep(p)
  BY <1>1 DEF WatchInv, WatchTyped, AwaitsSweep
<1>3. \A i : i \in Watchdog!Stalled(p) => i \in DOMAIN rows[p] /\ rows[p][i].status = "running"
  BY DEF Watchdog!Stalled, Watchdog!Ids
<1>4. ASSUME NEW i \in DOMAIN rows[p]
      PROVE  /\ rows[p][i] \in Row /\ RowFits(rows[p][i], "alerts", FALSE)
             /\ i \in Watchdog!Stalled(p) => /\ rows[p][i].status = "running"
                                             /\ rows[p][i].fate # "live"
                                             /\ rows[p][i].lost = TRUE
                                             /\ rows[p][i].alerts <= rows[p][i].again
  <2>1. PICK r \in Row : r = rows[p][i]
    BY <1>2, RowOf
  <2>2. RowFits(r, "watchdog", FALSE)
    BY <1>1, <1>2, <2>1 DEF WatchInv, RowsFit, RowFits
  <2> QED BY <1>3, <2>1, <2>2 DEF RowFits
<1>5. CASE /\ alerting' = [alerting EXCEPT ![p] = Watchdog!Stalled(p)]
           /\ rows' = [rows EXCEPT ![p] = Marked]
  <2>1. ASSUME NEW i \in DOMAIN rows[p]
        PROVE  /\ Marked[i] \in Row /\ RowFits(Marked[i], "alerts", FALSE)
               /\ i \in Watchdog!Stalled(p) => Listed(Marked[i])
    <3>1. PICK r \in Row : r = rows[p][i]
      BY <1>4
    <3>2. CASE i \in Watchdog!Stalled(p)
      <4>1. Marked[i] = [r EXCEPT !.status = "stalled"]
        BY <3>1, <3>2
      <4> HIDE DEF Marked
      <4>2. PICK m \in Row : /\ m = Marked[i] /\ m.status = "stalled" /\ m.alerts = r.alerts
                             /\ m.again = r.again /\ m.fate = r.fate /\ m.lost = r.lost
        BY <4>1 DEF Row
      <4>3. r.fate # "live" /\ r.lost = TRUE /\ r.alerts <= r.again
        BY <1>4, <3>1, <3>2
      <4>4. r.alerts \in Nat /\ r.again \in Nat
        BY DEF Row
      <4>5. RowFits(m, "alerts", FALSE) /\ Listed(m)
        BY <4>2, <4>3, <4>4 DEF RowFits, Listed
      <4> QED BY <4>2, <4>5
    <3>3. CASE i \notin Watchdog!Stalled(p)
      <4>1. Marked[i] = r
        BY <3>1, <3>3
      <4> HIDE DEF Marked
      <4> QED BY <1>4, <3>1, <3>3, <4>1
    <3> QED BY <3>2, <3>3
  <2>2. Marked = [i \in DOMAIN rows[p] |-> Marked[i]]
    OBVIOUS
  <2>3. Watchdog!Stalled(p) \in SUBSET (DOMAIN rows[p])
    BY <1>3
  <2> HIDE DEF Marked
  <2> QED BY <1>1, <1>5, <2>1, <2>2, <2>3, PassFits
<1>6. ASSUME NEW n \in Nat,
             alerting' = [alerting EXCEPT ![p] = Missed(n)], rows' = [rows EXCEPT ![p] = Again(n)]
      PROVE  WatchInv'
  <2> DEFINE f == Again(n)
             L == Missed(n)
  <2>1. ASSUME NEW i \in DOMAIN rows[p]
        PROVE  f[i] \in Row /\ RowFits(f[i], "alerts", FALSE) /\ (i \in L => Listed(f[i]))
    <3>1. PICK r \in Row : r = rows[p][i]
      BY <1>4
    <3>2. CASE i \in Watchdog!Stalled(p) /\ i <= n
      <4>1. f[i] = [r EXCEPT !.again = @ + 1]
        BY <3>1, <3>2
      <4> HIDE DEF f
      <4>2. PICK m \in Row : /\ m = f[i] /\ m.status = r.status /\ m.alerts = r.alerts
                             /\ m.again = r.again + 1 /\ m.fate = r.fate /\ m.lost = r.lost
        BY <4>1 DEF Row
      <4>3. /\ r.status = "running" /\ r.fate # "live" /\ r.lost = TRUE
            /\ r.alerts <= r.again /\ RowFits(r, "alerts", FALSE)
        BY <1>4, <3>1, <3>2
      <4>4. r.alerts \in Nat /\ r.again \in Nat
        BY DEF Row
      <4>5. RowFits(m, "alerts", FALSE) /\ Listed(m)
        BY <4>2, <4>3, <4>4 DEF RowFits, Listed
      <4> QED BY <4>2, <4>5
    <3>3. CASE ~(i \in Watchdog!Stalled(p) /\ i <= n)
      <4>1. f[i] = r /\ i \notin L
        BY <3>1, <3>3
      <4> HIDE DEF f, L
      <4> QED BY <1>4, <3>1, <4>1
    <3> QED BY <3>2, <3>3
  <2>2. f = [i \in DOMAIN rows[p] |-> f[i]]
    OBVIOUS
  <2>3. L \in SUBSET (DOMAIN rows[p])
    BY <1>3
  <2>4. rows' = [rows EXCEPT ![p] = f] /\ alerting' = [alerting EXCEPT ![p] = L]
    BY <1>6
  <2> HIDE DEF f, L
  <2> QED BY <1>1, <2>1, <2>2, <2>3, <2>4, PassFits
<1>7. \/ /\ alerting' = [alerting EXCEPT ![p] = Watchdog!Stalled(p)]
         /\ rows' = [rows EXCEPT ![p] = Marked]
      \/ \E n \in 0..Len(rows[p]) : /\ alerting' = [alerting EXCEPT ![p] = Missed(n)]
                                     /\ rows' = [rows EXCEPT ![p] = Again(n)]
  BY DEF Watchdog!Watch, Watchdog!Ids
<1>8. \A n \in 0..Len(rows[p]) : n \in Nat
  BY <1>2, LenProperties
<1> HIDE DEF Missed, Marked, Again
<1> QED BY <1>5, <1>6, <1>7, <1>8

LEMMA AlertFits ==
    ASSUME WatchInv, NEW p \in Watched, NEW i \in DOMAIN rows[p], Watchdog!Alert(p, i)
    PROVE  WatchInv'
<1>1. /\ process' = process /\ unswept' = unswept /\ thread' = thread
      /\ thread[p] = "alerts" /\ i \in alerting[p]
      /\ alerting' = [alerting EXCEPT ![p] = @ \ {i}]
  BY DEF Watchdog!Alert
<1>2. WatchTyped /\ rows[p] \in Seq(Row)
  BY DEF WatchInv, WatchTyped
<1>3. /\ alerting' \in [Watched -> SUBSET Nat] /\ alerting'[p] = alerting[p] \ {i}
      /\ \A q \in Watched \ {p} : alerting'[q] = alerting[q]
  BY <1>1, <1>2 DEF WatchTyped
<1>4. AwaitsSweep(p)' <=> AwaitsSweep(p)
  BY <1>1 DEF AwaitsSweep
<1>5. CASE rows' = rows
  <2>1. \A j \in DOMAIN rows'[p] : RowFits(rows'[p][j], thread'[p], AwaitsSweep(p)')
    BY <1>1, <1>4, <1>5 DEF WatchInv, RowsFit, RowFits
  <2>2. \A j \in alerting'[p] : j \in DOMAIN rows'[p] /\ Listed(rows'[p][j])
    BY <1>3, <1>5 DEF WatchInv, AlertsFit
  <2> QED BY <1>1, <1>2, <1>3, <1>5, <2>1, <2>2, OneProfileSteps DEF WatchTyped
<1>6. CASE rows' = [rows EXCEPT ![p][i].alerts = @ + 1]
  <2> DEFINE f == [rows[p] EXCEPT ![i].alerts = @ + 1]
  <2>1. rows' = [rows EXCEPT ![p] = f]
    BY <1>6
  <2>2. f = [j \in DOMAIN rows[p] |-> f[j]]
    BY <1>2, LenProperties
  <2>3. ASSUME NEW j \in DOMAIN rows[p]
        PROVE  /\ f[j] \in Row /\ RowFits(f[j], thread[p], AwaitsSweep(p))
               /\ j # i => f[j] = rows[p][j]
    <3>1. PICK r \in Row : r = rows[p][j]
      BY <1>2, RowOf
    <3>2. RowFits(r, thread[p], AwaitsSweep(p))
      BY <3>1 DEF WatchInv, RowsFit
    <3>3. CASE j = i
      <4>1. Listed(r) /\ r.alerts \in Nat /\ r.again \in Nat
        BY <1>1, <3>1, <3>3 DEF WatchInv, AlertsFit, Row
      <4>2. f[j] = [r EXCEPT !.alerts = @ + 1]
        BY <1>2, <3>1, <3>3
      <4> HIDE DEF f
      <4>3. PICK n \in Row : /\ n = f[j] /\ n.status = r.status /\ n.alerts = r.alerts + 1
                             /\ n.fate = r.fate /\ n.lost = r.lost /\ n.again = r.again
        BY <4>1, <4>2 DEF Row
      <4>4. RowFits(n, thread[p], AwaitsSweep(p))
        BY <3>2, <4>1, <4>3 DEF RowFits, Listed
      <4> QED BY <3>3, <4>3, <4>4
    <3>4. CASE j # i
      <4>1. f[j] = r
        BY <1>2, <3>1, <3>4
      <4> HIDE DEF f
      <4> QED BY <3>1, <3>2, <4>1
    <3> QED BY <3>3, <3>4
  <2> HIDE DEF f
  <2>4. /\ rows' \in [Watched -> Seq(Row)] /\ rows'[p] = f /\ DOMAIN rows'[p] = DOMAIN rows[p]
        /\ \A q \in Watched \ {p} : rows'[q] = rows[q]
    BY <1>2, <2>1, <2>2, <2>3, RowsKept
  <2>5. \A j \in DOMAIN rows'[p] : RowFits(rows'[p][j], thread'[p], AwaitsSweep(p)')
    BY <1>1, <1>4, <2>3, <2>4 DEF RowFits
  <2>6. \A j \in alerting'[p] : j \in DOMAIN rows'[p] /\ Listed(rows'[p][j])
    BY <1>3, <2>3, <2>4 DEF WatchInv, AlertsFit
  <2> QED BY <1>1, <1>2, <1>3, <2>4, <2>5, <2>6, OneProfileSteps DEF WatchTyped
<1> QED BY <1>5, <1>6 DEF Watchdog!Alert

LEMMA CycleEndsFits == ASSUME WatchInv, NEW p \in Watched, Watchdog!CycleEnds(p) PROVE WatchInv'
<1>1. /\ process' = process /\ unswept' = unswept /\ alerting' = alerting /\ rows' = rows
      /\ thread[p] = "alerts" /\ alerting[p] = {} /\ thread' = [thread EXCEPT ![p] = "done"]
  BY DEF Watchdog!CycleEnds
<1>2. WatchTyped /\ (AwaitsSweep(p)' <=> AwaitsSweep(p))
  BY <1>1 DEF WatchInv, AwaitsSweep
<1>3. /\ thread' \in [Watched -> {"idle", "task", "watchdog", "alerts", "done"}]
      /\ thread'[p] = "done" /\ \A q \in Watched \ {p} : thread'[q] = thread[q]
  BY <1>1, <1>2 DEF WatchTyped
<1>4. \A i \in DOMAIN rows'[p] : RowFits(rows'[p][i], thread'[p], AwaitsSweep(p)')
  BY <1>1, <1>2, <1>3 DEF WatchInv, RowsFit, RowFits
<1> QED BY <1>1, <1>2, <1>3, <1>4, OneProfileSteps DEF WatchTyped

LEMMA MarkOrphanedFits ==
    ASSUME WatchInv, NEW p \in Watched, Watchdog!MarkOrphaned(p) PROVE WatchInv'
<1> DEFINE Swept(i) == IF rows[p][i].status = "running"
                       THEN [rows[p][i] EXCEPT !.status = "orphaned_restart"] ELSE rows[p][i]
           Missed(i) == IF rows[p][i].status = "running"
                        THEN [rows[p][i] EXCEPT !.lost = TRUE] ELSE rows[p][i]
<1>1. /\ process' = process /\ alerting' = alerting /\ thread' = thread
      /\ process = "starting" /\ p \in unswept /\ unswept' = unswept \ {p}
  BY DEF Watchdog!MarkOrphaned
<1>2. WatchTyped /\ thread[p] = "done" /\ alerting[p] = {} /\ ~AwaitsSweep(p)'
  BY <1>1 DEF WatchInv, WatchTyped, AlertsFit, AwaitsSweep
<1>3. \/ rows' = [rows EXCEPT ![p] = [i \in DOMAIN rows[p] |-> Swept(i)]]
      \/ rows' = [rows EXCEPT ![p] = [i \in DOMAIN rows[p] |-> Missed(i)]]
  BY DEF Watchdog!MarkOrphaned, Watchdog!Ids
<1>4. ASSUME NEW i \in DOMAIN rows[p]
      PROVE  /\ Swept(i) \in Row /\ RowFits(Swept(i), "done", FALSE)
             /\ Missed(i) \in Row /\ RowFits(Missed(i), "done", FALSE)
  <2>1. PICK r \in Row : r = rows[p][i]
    BY <1>2, RowOf
  <2>2. RowFits(r, "done", TRUE)
    BY <1>2, <2>1 DEF WatchInv, RowsFit, RowFits
  <2>3. CASE r.status = "running"
    <3>0. r.alerts <= r.again /\ r.fate # "live" /\ r.alerts \in Nat /\ r.again \in Nat
      BY <2>2, <2>3 DEF RowFits, Row
    <3>1. PICK m \in Row : /\ m = Swept(i) /\ m.fate = r.fate
                           /\ m.alerts = r.alerts /\ m.again = r.again
                           /\ m.status = "orphaned_restart"
      <4>1. Swept(i) = [r EXCEPT !.status = "orphaned_restart"]
        BY <2>1, <2>3
      <4> HIDE DEF Swept
      <4> QED BY <3>0, <4>1 DEF Row
    <3>2. PICK n \in Row : /\ n = Missed(i) /\ n.fate = r.fate
                           /\ n.alerts = r.alerts /\ n.again = r.again
                           /\ n.status = "running" /\ n.lost = TRUE
      <4>1. Missed(i) = [r EXCEPT !.lost = TRUE]
        BY <2>1, <2>3
      <4> HIDE DEF Missed
      <4> QED BY <2>3, <3>0, <4>1 DEF Row
    <3> HIDE DEF Swept, Missed
    <3>3. RowFits(m, "done", FALSE)
      BY <3>0, <3>1 DEF RowFits
    <3>4. RowFits(n, "done", FALSE)
      BY <3>0, <3>2 DEF RowFits
    <3> QED BY <3>1, <3>2, <3>3, <3>4
  <2>4. CASE r.status # "running"
    <3>1. Swept(i) = r /\ Missed(i) = r
      BY <2>1, <2>4
    <3>2. RowFits(r, "done", FALSE)
      BY <2>2, <2>4 DEF RowFits
    <3> HIDE DEF Swept, Missed
    <3> QED BY <3>1, <3>2
  <2> QED BY <2>3, <2>4
<1>5. ASSUME NEW f, f = [i \in DOMAIN rows[p] |-> f[i]], rows' = [rows EXCEPT ![p] = f],
             \A i \in DOMAIN rows[p] : f[i] \in Row /\ RowFits(f[i], "done", FALSE)
      PROVE  WatchInv'
  <2>1. /\ rows' \in [Watched -> Seq(Row)] /\ rows'[p] = f /\ DOMAIN rows'[p] = DOMAIN rows[p]
        /\ \A q \in Watched \ {p} : rows'[q] = rows[q]
    BY <1>2, <1>5, RowsKept
  <2>2. \A i \in DOMAIN rows'[p] : RowFits(rows'[p][i], thread'[p], AwaitsSweep(p)')
    BY <1>1, <1>2, <1>5, <2>1 DEF RowFits
  <2> QED BY <1>1, <1>2, <2>1, <2>2, OneProfileSteps DEF WatchTyped
<1>6. CASE rows' = [rows EXCEPT ![p] = [i \in DOMAIN rows[p] |-> Swept(i)]]
  <2> DEFINE f == [i \in DOMAIN rows[p] |-> Swept(i)]
  <2>1. \A i \in DOMAIN rows[p] : f[i] \in Row /\ RowFits(f[i], "done", FALSE)
    BY <1>4
  <2>2. f = [i \in DOMAIN rows[p] |-> f[i]] /\ rows' = [rows EXCEPT ![p] = f]
    BY <1>6
  <2> HIDE DEF f
  <2> QED BY <1>5, <2>1, <2>2
<1>7. CASE rows' = [rows EXCEPT ![p] = [i \in DOMAIN rows[p] |-> Missed(i)]]
  <2> DEFINE f == [i \in DOMAIN rows[p] |-> Missed(i)]
  <2>1. \A i \in DOMAIN rows[p] : f[i] \in Row /\ RowFits(f[i], "done", FALSE)
    BY <1>4
  <2>2. f = [i \in DOMAIN rows[p] |-> f[i]] /\ rows' = [rows EXCEPT ![p] = f]
    BY <1>7
  <2> HIDE DEF f
  <2> QED BY <1>5, <2>1, <2>2
<1> QED BY <1>3, <1>6, <1>7

LEMMA NextCycleFits == ASSUME WatchInv, Watchdog!NextCycle PROVE WatchInv'
<1>1. /\ process' = process /\ unswept' = unswept /\ alerting' = alerting /\ rows' = rows
      /\ process = "up" /\ \A p \in Watched : thread[p] = "done"
      /\ thread' = [p \in Watched |-> IF Len(rows[p]) < MaxRuns THEN "idle" ELSE "watchdog"]
  BY DEF Watchdog!NextCycle
<1>2. \A p \in Watched : alerting[p] = {}
  BY <1>1 DEF WatchInv, AlertsFit
<1>3. WatchTyped'
  BY <1>1 DEF WatchInv, WatchTyped
<1>4. RowsFit'
  BY <1>1 DEF WatchInv, RowsFit, RowFits, AwaitsSweep
<1>5. AlertsFit'
  BY <1>1, <1>2 DEF AlertsFit
<1> QED BY <1>3, <1>4, <1>5 DEF WatchInv

LEMMA CrashFits == ASSUME WatchInv, Watchdog!Crash PROVE WatchInv'
<1> DEFINE Killed(p) == [i \in DOMAIN rows[p] |-> IF i \in Watchdog!Current(p)
                            THEN [rows[p][i] EXCEPT !.fate = "killed"] ELSE rows[p][i]]
<1>1. /\ process' = "down" /\ rows' = [p \in Watched |-> Killed(p)]
      /\ thread' = [p \in Watched |-> "done"] /\ alerting' = [p \in Watched |-> {}]
  BY DEF Watchdog!Crash, Watchdog!Ids
<1>2. WatchTyped
  BY DEF WatchInv
<1>3. ASSUME NEW p \in Watched, NEW i \in DOMAIN rows[p]
      PROVE  Killed(p)[i] \in Row /\ RowFits(Killed(p)[i], "done", TRUE)
  <2>1. PICK r \in Row : r = rows[p][i]
    BY <1>2, RowOf
  <2>2. RowFits(r, thread[p], AwaitsSweep(p))
    BY <2>1 DEF WatchInv, RowsFit
  <2>3. i \in Watchdog!Current(p) <=> r.fate = "live"
    BY <2>1 DEF Watchdog!Current, Watchdog!Ids
  <2>4. CASE r.fate = "live"
    <3>1. Killed(p)[i] = [r EXCEPT !.fate = "killed"]
      BY <2>1, <2>3, <2>4
    <3> HIDE DEF Killed
    <3>2. PICK n \in Row : /\ n = Killed(p)[i] /\ n.fate = "killed" /\ n.status = "running"
                           /\ n.alerts = r.alerts /\ n.again = r.again
      BY <2>2, <2>4, <3>1 DEF Row, RowFits
    <3>3. RowFits(n, "done", TRUE)
      BY <2>2, <2>4, <3>2 DEF RowFits, Row
    <3> QED BY <3>2, <3>3
  <2>5. CASE r.fate # "live"
    <3>1. Killed(p)[i] = r
      BY <2>1, <2>3, <2>5
    <3>2. RowFits(r, "done", TRUE)
      BY <2>2, <2>5 DEF RowFits
    <3> HIDE DEF Killed
    <3> QED BY <3>1, <3>2
  <2> QED BY <2>4, <2>5
<1>4. ASSUME NEW p \in Watched
      PROVE  Killed(p) \in Seq(Row) /\ DOMAIN Killed(p) = DOMAIN rows[p]
  <2>1. rows[p] \in Seq(Row) /\ DOMAIN Killed(p) = DOMAIN rows[p]
    BY <1>2 DEF WatchTyped
  <2>2. Killed(p) = [i \in DOMAIN rows[p] |-> Killed(p)[i]]
    OBVIOUS
  <2>3. \A i \in DOMAIN rows[p] : Killed(p)[i] \in Row
    BY <1>3
  <2> HIDE DEF Killed
  <2> QED BY <2>1, <2>2, <2>3, Rewritten
<1> HIDE DEF Killed
<1>5. WatchTyped'
  BY <1>1, <1>4 DEF WatchTyped
<1>6. RowsFit'
  BY <1>1, <1>3, <1>4 DEF RowsFit, RowFits, AwaitsSweep
<1>7. AlertsFit'
  BY <1>1 DEF AlertsFit
<1> QED BY <1>5, <1>6, <1>7 DEF WatchInv

LEMMA RestartFits == ASSUME WatchInv, Watchdog!Restart PROVE WatchInv'
<1>1. /\ process = "down" /\ process' = "starting" /\ unswept' = Watched
      /\ rows' = rows /\ thread' = thread /\ alerting' = alerting
  BY DEF Watchdog!Restart
<1>2. WatchTyped'
  BY <1>1 DEF WatchInv, WatchTyped
<1>3. RowsFit'
  BY <1>1 DEF WatchInv, RowsFit, RowFits, AwaitsSweep
<1>4. AlertsFit'
  BY <1>1 DEF WatchInv, AlertsFit
<1> QED BY <1>2, <1>3, <1>4 DEF WatchInv

LEMMA StartedFits == ASSUME WatchInv, Watchdog!Started PROVE WatchInv'
<1>1. /\ process = "starting" /\ process' = "up" /\ unswept = {} /\ unswept' = unswept
      /\ rows' = rows /\ thread' = thread /\ alerting' = alerting
  BY DEF Watchdog!Started
<1>2. WatchTyped'
  BY <1>1 DEF WatchInv, WatchTyped
<1>3. RowsFit'
  BY <1>1 DEF WatchInv, RowsFit, RowFits, AwaitsSweep
<1>4. AlertsFit'
  BY <1>1 DEF WatchInv, AlertsFit
<1> QED BY <1>2, <1>3, <1>4 DEF WatchInv

LEMMA WatchdogStep == WatchInv /\ [Next]_vars => WatchInv'
<1> SUFFICES ASSUME WatchInv, [Next]_vars PROVE WatchInv'
  OBVIOUS
<1>1. [Watchdog!Next]_Watchdog!vars
  BY WatchMoves
<1>2. CASE UNCHANGED Watchdog!vars
  <2>1. /\ rows' = rows /\ thread' = thread /\ alerting' = alerting
        /\ process' = process /\ unswept' = unswept
    BY <1>2 DEF Watchdog!vars
  <2>2. \A p \in Watched : AwaitsSweep(p)' <=> AwaitsSweep(p)
    BY <2>1 DEF AwaitsSweep
  <2>3. WatchTyped'
    BY <2>1 DEF WatchInv, WatchTyped
  <2>4. RowsFit'
    BY <2>1, <2>2 DEF WatchInv, RowsFit, RowFits
  <2>5. AlertsFit'
    BY <2>1 DEF WatchInv, AlertsFit
  <2> QED BY <2>3, <2>4, <2>5 DEF WatchInv
<1>3. CASE Watchdog!Next
  <2>1. ASSUME NEW p \in Watched,
               \/ Watchdog!StartTask(p) \/ Watchdog!TaskEnds(p) \/ Watchdog!Watch(p)
               \/ Watchdog!CycleEnds(p) \/ Watchdog!MarkOrphaned(p)
        PROVE  WatchInv'
    BY <2>1, StartTaskFits, TaskEndsFits, WatchFits, CycleEndsFits, MarkOrphanedFits
  <2>2. ASSUME NEW p \in Watched, NEW i \in DOMAIN rows[p],
               Watchdog!GrowsOld(p, i) \/ Watchdog!Alert(p, i)
        PROVE  WatchInv'
    BY <2>2, GrowsOldFits, AlertFits
  <2>3. ASSUME Watchdog!NextCycle \/ Watchdog!Crash \/ Watchdog!Restart \/ Watchdog!Started
        PROVE  WatchInv'
    BY <2>3, NextCycleFits, CrashFits, RestartFits, StartedFits
  <2> QED BY <1>3, <2>1, <2>2, <2>3 DEF Watchdog!Next, Watchdog!Ids
<1> QED BY <1>1, <1>2, <1>3

LEMMA WatchTruth == WatchInv => RowsAreTrue
<1> SUFFICES ASSUME WatchInv PROVE RowsAreTrue
  OBVIOUS
<1>1. ASSUME NEW p \in Watched, NEW i \in DOMAIN rows[p]
      PROVE  /\ rows[p][i].lost \in BOOLEAN
             /\ RowFits(rows[p][i], thread[p], AwaitsSweep(p))
             /\ i \in alerting[p] => Listed(rows[p][i])
             /\ rows[p][i].alerts \in Nat /\ rows[p][i].again \in Nat
  BY RowOf DEF WatchInv, RowsFit, AlertsFit, Row
<1>2. Watchdog!StalledWasLost
  BY <1>1 DEF Watchdog!StalledWasLost, Watchdog!Ids, RowFits, Listed
<1>3. Watchdog!StatusIsTrue
  BY <1>1 DEF Watchdog!StatusIsTrue, Watchdog!Ids, RowFits
<1>4. Watchdog!AlertedOnce
  <2>1. ASSUME NEW p \in Watched, NEW i \in DOMAIN rows[p]
        PROVE  rows[p][i].alerts <= rows[p][i].again + (IF rows[p][i].status = "stalled" THEN 1 ELSE 0)
    <3>1. CASE rows[p][i].status = "stalled"
      BY <1>1, <3>1 DEF RowFits
    <3>2. CASE rows[p][i].status # "stalled"
      <4>1. PICK a \in Nat, n \in Nat : /\ a = rows[p][i].alerts /\ n = rows[p][i].again /\ a <= n
        BY <1>1, <3>2 DEF RowFits
      <4>2. a <= n + 0
        BY <4>1
      <4> QED BY <3>2, <4>1, <4>2
    <3> QED BY <3>1, <3>2
  <2> QED BY <2>1 DEF Watchdog!AlertedOnce, Watchdog!Ids
<1> QED BY <1>2, <1>3, <1>4 DEF RowsAreTrue

\* No row of task_runs is marked or reported stalled unless an update of it was lost; it is
\* alerted once, and once more at most for every pass of the watchdog that listed it and
\* failed to mark it; and no final status is untrue: whatever updates fail on a locked
\* database and whenever the process dies (check_stalled_runs, track_run,
\* mark_orphaned_at_startup).
THEOREM RowsTellTheTruth == Spec => []RowsAreTrue
<1>1. Spec => []WatchInv
  BY WatchInit, WatchdogStep, PTL DEF Spec
<1> QED BY <1>1, WatchTruth, PTL

\* A profile has one task under way.
OneTask ==
    /\ unswept \subseteq Watched
    /\ \A p \in Watched : \A i, j \in DOMAIN rows[p] :
          rows[p][i].fate = "live" /\ rows[p][j].fate = "live" => i = j

LEMMA NoneRevived ==
    ASSUME OneTask, unswept' \subseteq Watched,
           \A p \in Watched : \A i \in DOMAIN rows'[p] :
              i \in DOMAIN rows[p] /\ (rows'[p][i].fate = "live" => rows[p][i].fate = "live")
    PROVE  OneTask'
BY DEF OneTask

LEMMA OneTaskStarts ==
    ASSUME WatchInv, OneTask, NEW p \in Watched, Watchdog!StartTask(p)
    PROVE  OneTask'
<1>1. /\ process = "up" /\ unswept' = unswept /\ thread[p] = "idle"
      /\ rows \in [Watched -> Seq(Row)]
  BY DEF Watchdog!StartTask, WatchInv, WatchTyped
<1>2. CASE rows' = rows
  BY <1>1, <1>2, NoneRevived DEF OneTask
<1>3. CASE rows' = [rows EXCEPT ![p] = Append(@, Watchdog!NewRow)]
  <2>1. \A i \in DOMAIN rows[p] : rows[p][i].fate # "live"
    BY <1>1 DEF WatchInv, RowsFit, RowFits
  <2>2. rows'[p] = Append(rows[p], Watchdog!NewRow) /\ \A q \in Watched \ {p} : rows'[q] = rows[q]
    BY <1>1, <1>3
  <2>3. /\ Watchdog!NewRow \in Row /\ rows[p] \in Seq(Row)
    BY <1>1 DEF Watchdog!NewRow, Row
  <2>4. /\ Len(rows[p]) \in Nat /\ DOMAIN rows[p] = 1 .. Len(rows[p])
        /\ DOMAIN rows'[p] = 1 .. Len(rows[p]) + 1
        /\ \A i \in 1 .. Len(rows[p]) : rows'[p][i] = rows[p][i]
    BY <2>2, <2>3, AppendProperties, LenProperties
  <2>5. \A i \in DOMAIN rows'[p] : rows'[p][i].fate = "live" => i = Len(rows[p]) + 1
    BY <2>1, <2>4
  <2> QED BY <1>1, <2>2, <2>5 DEF OneTask
<1> QED BY <1>2, <1>3 DEF Watchdog!StartTask

\* No other step brings a task to life.
LEMMA OneTaskStays == WatchInv /\ OneTask /\ [Next]_vars => OneTask'
<1> SUFFICES ASSUME WatchInv, OneTask, [Next]_vars PROVE OneTask'
  OBVIOUS
<1>1. [Watchdog!Next]_Watchdog!vars
  BY WatchMoves
<1>2. rows \in [Watched -> Seq(Row)] /\ unswept \subseteq Watched
  BY DEF WatchInv, WatchTyped, OneTask
\* One profile's rows written anew.
<1>3. ASSUME NEW p \in Watched, NEW f, rows' = [rows EXCEPT ![p] = [i \in DOMAIN rows[p] |-> f[i]]],
             \A i \in DOMAIN rows[p] : f[i].fate = "live" => rows[p][i].fate = "live",
             unswept' \subseteq Watched
      PROVE  OneTask'
  <2>1. /\ rows'[p] = [i \in DOMAIN rows[p] |-> f[i]]
        /\ \A q \in Watched \ {p} : rows'[q] = rows[q]
    BY <1>2, <1>3
  <2> QED BY <1>3, <2>1, NoneRevived
<1>4. CASE UNCHANGED Watchdog!vars
  BY <1>2, <1>4, NoneRevived DEF Watchdog!vars
<1>5. ASSUME NEW p \in Watched, Watchdog!TaskEnds(p)
      PROVE  OneTask'
  <2>1. PICK fate \in {"done", "raised"} :
           \/ rows' = [rows EXCEPT ![p] = [i \in DOMAIN rows[p] |->
                 IF i \in Watchdog!Current(p)
                 THEN [rows[p][i] EXCEPT !.fate = fate,
                          !.status = IF fate = "done" THEN "completed" ELSE "failed"]
                 ELSE rows[p][i]]]
           \/ rows' = [rows EXCEPT ![p] = [i \in DOMAIN rows[p] |->
                 IF i \in Watchdog!Current(p)
                 THEN [rows[p][i] EXCEPT !.fate = fate, !.lost = TRUE] ELSE rows[p][i]]]
    BY <1>5 DEF Watchdog!TaskEnds, Watchdog!Ids
  <2>2. \A i \in DOMAIN rows[p] : i \notin Watchdog!Current(p) => rows[p][i].fate # "live"
    BY DEF Watchdog!Current, Watchdog!Ids
  <2>3. PICK f : /\ rows' = [rows EXCEPT ![p] = [i \in DOMAIN rows[p] |-> f[i]]]
                 /\ \A i \in DOMAIN rows[p] : \/ f[i] = rows[p][i] /\ rows[p][i].fate # "live"
                                              \/ f[i].fate # "live"
    <3> DEFINE marked == [i \in DOMAIN rows[p] |->
                 IF i \in Watchdog!Current(p)
                 THEN [rows[p][i] EXCEPT !.fate = fate,
                          !.status = IF fate = "done" THEN "completed" ELSE "failed"]
                 ELSE rows[p][i]]
               missed == [i \in DOMAIN rows[p] |->
                 IF i \in Watchdog!Current(p)
                 THEN [rows[p][i] EXCEPT !.fate = fate, !.lost = TRUE] ELSE rows[p][i]]
    <3>1. ASSUME NEW i \in DOMAIN rows[p], i \in Watchdog!Current(p)
          PROVE  marked[i].fate = fate /\ missed[i].fate = fate
      <4>1. PICK r \in Row : r = rows[p][i]
        BY RowOf DEF WatchInv
      <4>2. /\ marked[i] = [r EXCEPT !.fate = fate,
                               !.status = IF fate = "done" THEN "completed" ELSE "failed"]
            /\ missed[i] = [r EXCEPT !.fate = fate, !.lost = TRUE]
        BY <3>1, <4>1
      <4> HIDE DEF marked, missed
      <4> QED BY <4>2 DEF Row
    <3>2. ASSUME NEW i \in DOMAIN rows[p], i \notin Watchdog!Current(p)
          PROVE  marked[i] = rows[p][i] /\ missed[i] = rows[p][i]
      BY <3>2
    <3>3. /\ marked = [i \in DOMAIN rows[p] |-> marked[i]]
          /\ missed = [i \in DOMAIN rows[p] |-> missed[i]]
      OBVIOUS
    <3>4. rows' = [rows EXCEPT ![p] = marked] \/ rows' = [rows EXCEPT ![p] = missed]
      BY <2>1
    <3> HIDE DEF marked, missed
    <3>5. \A i \in DOMAIN rows[p] :
             /\ (marked[i] = rows[p][i] /\ rows[p][i].fate # "live") \/ marked[i].fate # "live"
             /\ (missed[i] = rows[p][i] /\ rows[p][i].fate # "live") \/ missed[i].fate # "live"
      BY <2>2, <3>1, <3>2
    <3>6. CASE rows' = [rows EXCEPT ![p] = marked]
      BY <3>3, <3>5, <3>6
    <3>7. CASE rows' = [rows EXCEPT ![p] = missed]
      BY <3>3, <3>5, <3>7
    <3> QED BY <3>4, <3>6, <3>7
  <2>4. unswept' = unswept
    BY <1>5 DEF Watchdog!TaskEnds
  <2> QED BY <1>2, <1>3, <2>3, <2>4
<1>6. ASSUME NEW p \in Watched, Watchdog!Watch(p)
      PROVE  OneTask'
  <2> DEFINE Marked == [i \in DOMAIN rows[p] |-> IF i \in Watchdog!Stalled(p)
                           THEN [rows[p][i] EXCEPT !.status = "stalled"] ELSE rows[p][i]]
             Again(n) == [i \in DOMAIN rows[p] |-> IF i \in Watchdog!Stalled(p) /\ i <= n
                             THEN [rows[p][i] EXCEPT !.again = @ + 1] ELSE rows[p][i]]
  <2>1. PICK n : /\ rows' = [rows EXCEPT ![p] = Marked] \/ rows' = [rows EXCEPT ![p] = Again(n)]
                 /\ unswept' = unswept
    BY <1>6 DEF Watchdog!Watch, Watchdog!Ids
  <2>2. Marked = [i \in DOMAIN rows[p] |-> Marked[i]]
        /\ Again(n) = [i \in DOMAIN rows[p] |-> Again(n)[i]]
    OBVIOUS
  <2>3. ASSUME NEW i \in DOMAIN rows[p]
        PROVE  Marked[i].fate = rows[p][i].fate /\ Again(n)[i].fate = rows[p][i].fate
    <3>1. PICK r \in Row : r = rows[p][i]
      BY RowOf DEF WatchInv
    <3>2. /\ Marked[i] = [r EXCEPT !.status = "stalled"] \/ Marked[i] = r
          /\ Again(n)[i] = [r EXCEPT !.again = r.again + 1] \/ Again(n)[i] = r
      BY <3>1
    <3> HIDE DEF Marked, Again
    <3> QED BY <3>1, <3>2 DEF Row
  <2> HIDE DEF Marked, Again
  <2>4. CASE rows' = [rows EXCEPT ![p] = Marked]
    <3>1. rows' = [rows EXCEPT ![p] = [i \in DOMAIN rows[p] |-> Marked[i]]]
      BY <2>2, <2>4
    <3>2. \A i \in DOMAIN rows[p] : Marked[i].fate = "live" => rows[p][i].fate = "live"
      BY <2>3
    <3>3. unswept' \subseteq Watched
      BY <1>2, <2>1
    <3> QED BY <1>3, <3>1, <3>2, <3>3
  <2>5. CASE rows' = [rows EXCEPT ![p] = Again(n)]
    <3>1. rows' = [rows EXCEPT ![p] = [i \in DOMAIN rows[p] |-> Again(n)[i]]]
      BY <2>2, <2>5
    <3>2. \A i \in DOMAIN rows[p] : Again(n)[i].fate = "live" => rows[p][i].fate = "live"
      BY <2>3
    <3>3. unswept' \subseteq Watched
      BY <1>2, <2>1
    <3> QED BY <1>3, <3>1, <3>2, <3>3
  <2> QED BY <2>1, <2>4, <2>5
<1>7. ASSUME NEW p \in Watched, Watchdog!MarkOrphaned(p)
      PROVE  OneTask'
  <2> DEFINE f == [i \in DOMAIN rows[p] |-> IF rows[p][i].status = "running"
                      THEN [rows[p][i] EXCEPT !.status = "orphaned_restart"] ELSE rows[p][i]]
             g == [i \in DOMAIN rows[p] |-> IF rows[p][i].status = "running"
                      THEN [rows[p][i] EXCEPT !.lost = TRUE] ELSE rows[p][i]]
  <2>1. (rows' = [rows EXCEPT ![p] = f] \/ rows' = [rows EXCEPT ![p] = g]) /\ unswept' \subseteq Watched
    BY <1>2, <1>7 DEF Watchdog!MarkOrphaned, Watchdog!Ids
  <2>2. f = [i \in DOMAIN rows[p] |-> f[i]] /\ g = [i \in DOMAIN rows[p] |-> g[i]]
    OBVIOUS
  <2>3. ASSUME NEW i \in DOMAIN rows[p]
        PROVE  f[i].fate = rows[p][i].fate /\ g[i].fate = rows[p][i].fate
    <3>1. PICK r \in Row : r = rows[p][i]
      BY RowOf DEF WatchInv
    <3>2. /\ f[i] = [r EXCEPT !.status = "orphaned_restart"] \/ f[i] = r
          /\ g[i] = [r EXCEPT !.lost = TRUE] \/ g[i] = r
      BY <3>1
    <3> HIDE DEF f, g
    <3> QED BY <3>1, <3>2 DEF Row
  <2> HIDE DEF f, g
  <2>4. CASE rows' = [rows EXCEPT ![p] = f]
    <3>1. rows' = [rows EXCEPT ![p] = [i \in DOMAIN rows[p] |-> f[i]]]
      BY <2>2, <2>4
    <3>2. \A i \in DOMAIN rows[p] : f[i].fate = "live" => rows[p][i].fate = "live"
      BY <2>3
    <3>3. unswept' \subseteq Watched
      BY <2>1
    <3> QED BY <1>3, <3>1, <3>2, <3>3
  <2>5. CASE rows' = [rows EXCEPT ![p] = g]
    <3>1. rows' = [rows EXCEPT ![p] = [i \in DOMAIN rows[p] |-> g[i]]]
      BY <2>2, <2>5
    <3>2. \A i \in DOMAIN rows[p] : g[i].fate = "live" => rows[p][i].fate = "live"
      BY <2>3
    <3>3. unswept' \subseteq Watched
      BY <2>1
    <3> QED BY <1>3, <3>1, <3>2, <3>3
  <2> QED BY <2>1, <2>4, <2>5
<1>8. ASSUME NEW p \in Watched, NEW i \in DOMAIN rows[p],
             Watchdog!GrowsOld(p, i) \/ Watchdog!Alert(p, i)
      PROVE  OneTask'
  <2>1. PICK r \in Row : r = rows[p][i]
    BY RowOf DEF WatchInv
  <2>2. /\ \/ rows' = [rows EXCEPT ![p][i].old = TRUE]
           \/ rows' = [rows EXCEPT ![p][i].alerts = @ + 1]
           \/ rows' = rows
        /\ unswept' = unswept
    BY <1>8 DEF Watchdog!GrowsOld, Watchdog!Alert
  <2>3. PICK f : rows' = [rows EXCEPT ![p] = f]
                 /\ (f = rows[p] \/ f = [rows[p] EXCEPT ![i].old = TRUE]
                     \/ f = [rows[p] EXCEPT ![i].alerts = rows[p][i].alerts + 1])
    BY <1>2, <2>2
  <2>4. f = [j \in DOMAIN rows[p] |-> f[j]]
    <3>1. rows[p] = [j \in DOMAIN rows[p] |-> rows[p][j]]
      BY <1>2, LenProperties
    <3> QED BY <2>3, <3>1
  <2>5. ASSUME NEW j \in DOMAIN rows[p] PROVE f[j].fate = rows[p][j].fate
    <3>1. CASE j # i
      BY <2>3, <3>1
    <3>2. CASE j = i
      <4>1. f[i] = r \/ f[i] = [r EXCEPT !.old = TRUE] \/ f[i] = [r EXCEPT !.alerts = r.alerts + 1]
        BY <2>1, <2>3
      <4> QED BY <2>1, <3>2, <4>1 DEF Row
    <3> QED BY <3>1, <3>2
  <2>6. rows' = [rows EXCEPT ![p] = [j \in DOMAIN rows[p] |-> f[j]]]
    BY <2>3, <2>4
  <2>7. \A j \in DOMAIN rows[p] : f[j].fate = "live" => rows[p][j].fate = "live"
    BY <2>5
  <2>8. unswept' \subseteq Watched
    BY <1>2, <2>2
  <2> QED BY <1>3, <2>6, <2>7, <2>8
<1>9. CASE Watchdog!Crash
  <2>1. /\ rows' = [p \in Watched |-> [i \in DOMAIN rows[p] |->
              IF i \in Watchdog!Current(p) THEN [rows[p][i] EXCEPT !.fate = "killed"]
              ELSE rows[p][i]]]
        /\ unswept' = unswept
    BY <1>9 DEF Watchdog!Crash, Watchdog!Ids
  <2>2. ASSUME NEW p \in Watched, NEW i \in DOMAIN rows'[p]
        PROVE  i \in DOMAIN rows[p] /\ (rows'[p][i].fate = "live" => rows[p][i].fate = "live")
    <3>1. i \in DOMAIN rows[p]
      BY <2>1
    <3>2. PICK r \in Row : r = rows[p][i]
      BY <3>1, RowOf DEF WatchInv
    <3>3. rows'[p][i] = [r EXCEPT !.fate = "killed"] \/ rows'[p][i] = r
      BY <2>1, <3>1, <3>2
    <3> QED BY <3>1, <3>2, <3>3 DEF Row
  <2> QED BY <1>2, <2>1, <2>2, NoneRevived
<1>10. CASE Watchdog!Restart \/ Watchdog!Started \/ Watchdog!NextCycle
            \/ \E p \in Watched : Watchdog!CycleEnds(p)
  <2>1. rows' = rows /\ unswept' \subseteq Watched
    BY <1>2, <1>10 DEF Watchdog!Restart, Watchdog!Started, Watchdog!NextCycle, Watchdog!CycleEnds
  <2> QED BY <2>1, NoneRevived
<1> QED BY <1>1, <1>4, <1>5, <1>6, <1>7, <1>8, <1>9, <1>10, OneTaskStarts
        DEF Watchdog!Next, Watchdog!Ids

LEMMA CurrentCount == ASSUME NEW S PROVE Watchdog!Cardinality(S) = Cardinality(S)
BY DEF Watchdog!Cardinality, Cardinality

LEMMA WatchTypes == WatchInv /\ OneTask => Watchdog!TypeOK
<1> SUFFICES ASSUME WatchInv, OneTask PROVE Watchdog!TypeOK
  OBVIOUS
<1>1. ASSUME NEW p \in Watched
      PROVE  /\ Watchdog!Cardinality(Watchdog!Current(p)) <= 1
             /\ Watchdog!Current(p) # {} => thread[p] = "task" /\ process = "up"
  <2>1. CASE Watchdog!Current(p) = {}
    BY <2>1, CurrentCount, FS_EmptySet
  <2>2. CASE Watchdog!Current(p) # {}
    <3>1. PICK i \in Watchdog!Current(p) : TRUE
      BY <2>2
    <3>2. Watchdog!Current(p) = {i}
      BY <3>1 DEF OneTask, Watchdog!Current, Watchdog!Ids
    <3>3. Watchdog!Cardinality(Watchdog!Current(p)) = 1
      BY <3>2, CurrentCount, FS_Singleton
    <3>4. thread[p] = "task"
      BY <3>1 DEF Watchdog!Current, Watchdog!Ids, WatchInv, RowsFit, RowFits
    <3>5. process = "up"
      BY <3>4 DEF WatchInv, WatchTyped
    <3> QED BY <3>3, <3>4, <3>5
  <2> QED BY <2>1, <2>2
<1>2. ASSUME NEW p \in Watched, NEW i \in DOMAIN rows[p]
      PROVE  rows[p][i].status \in {"running", "completed", "failed", "stalled", "orphaned_restart"}
  BY RowOf DEF WatchInv, Row
<1> QED BY <1>1, <1>2 DEF Watchdog!TypeOK, WatchInv, WatchTyped, OneTask, AlertsFit, Listed, Watchdog!Ids

(* The types of the watchdog: a profile has one task under way, in a process  *)
(* that is up, and alerts of its own rows.                                    *)
THEOREM WatchdogIsTyped == Spec => []Watchdog!TypeOK
<1>1. Init => OneTask
  BY DEF Init, Watchdog!Init, OneTask
<1> QED BY <1>1, WatchInit, WatchdogStep, OneTaskStays, WatchTypes, PTL DEF Spec

-----------------------------------------------------------------------------
(* Main loop.  The pool's work belongs to its pass; what a profile owes is in *)
(* its clocks, was dropped or is among the tasks left of its cycle; and a     *)
(* summary mail that went out is in its marker file, or its sender is about   *)
(* to write it, or that write was lost.                                       *)

LEMMA CycleMoves == ASSUME [Next]_vars PROVE [Cycle!Next]_Cycle!vars
BY DEF Next, vars, cycle, Cycle!vars, Cycle!pool, Cycle!day, RiskStep, HaltsStep,
       ProvidersStep, CostsStep, StatusesStep, CycleStep, WatchStep, BusStep, ExpiryStep,
       EventsStep, ProtectStep

TaskNames == Cycle!Kinds \cup {"summary"}
Places == {"top", "exits", "scans", "closed", "missed", "parked", "down"}

Mail == [date : Nat, step : {"none", "unsent", "sending"}, sent : Nat, lost : Nat]

CycleTyped ==
    /\ now \in [day : Nat, phase : {"open", "late", "closed"}]
    /\ loop \in [at : Places, day : Nat, phase : {"none", "open", "late", "closed"},
                 snap : BOOLEAN]
    /\ shutdown \in BOOLEAN
    /\ clock \in [Fleet -> SUBSET Cycle!Timers]
    /\ owed \in [Fleet -> SUBSET Cycle!Timers]
    /\ dropped \in [Fleet -> SUBSET Cycle!Kinds]
    /\ item \in [Fleet -> SUBSET Cycle!Kinds]
    /\ queued \subseteq Fleet /\ running \subseteq Fleet /\ queued \cap running = {}
    /\ work \in [Fleet -> Seq(TaskNames)]
    /\ mail \in [Fleet -> Mail]

\* Which profiles a pass works on.
OfPass(place, kinds) == \/ place = "exits" /\ "scan" \notin kinds
                        \/ place = "scans" /\ "scan" \in kinds
                        \/ place = "missed" /\ "scan" \notin kinds
PoolOrder == \A p \in Fleet : p \in queued \/ p \in running => OfPass(loop.at, item[p])

\* The tasks left of p's cycle.
Left(p) == Range(work[p])
WorkFits == \A p \in Fleet : p \in running => Left(p) \cap Cycle!Timers \subseteq item[p]

\* What falls due, or is known not to have been done.
Noted(p) == clock[p] \cup dropped[p]
OwedFits == loop.at # "down" =>
               \A p \in Fleet : \A k \in owed[p] :
                  k \in Noted(p) \/ (p \in running /\ k \in Left(p))
DroppedFits == \A p \in Fleet : dropped[p] \cap clock[p] = {}

\* Who is at the summary mail has its task in hand.
AtHand(p) == p \in running /\ work[p] # <<>> /\ Head(work[p]) = "summary"
MailsAtHand == \A p \in Fleet : mail[p].step # "none" => AtHand(p)

Out(m) == IF m.date = now.day \/ m.step = "sending" THEN 1 ELSE 0
MailFits(m) == /\ m.date <= now.day
               /\ m.step # "none" => m.date # now.day
               /\ m.sent <= m.lost + Out(m)
SummariesFit == \A p \in Fleet : MailFits(mail[p])

CycleInv ==
    CycleTyped /\ PoolOrder /\ WorkFits /\ OwedFits /\ DroppedFits /\ MailsAtHand /\ SummariesFit

LEMMA CycleAssumed ==
    /\ IsFiniteSet(Fleet)
    /\ \A S \in SUBSET Fleet : IsFiniteSet(S) /\ Cardinality(S) \in Nat
    /\ Cardinality({}) = 0
    /\ \A S : Cycle!Cardinality(S) = Cardinality(S)
<1>1. IsFiniteSet(Fleet)
  BY ServicesAssumption DEF Cycle!LoopAssumption, Cycle!IsFiniteSet, IsFiniteSet
<1>2. \A S \in SUBSET Fleet : IsFiniteSet(S) /\ Cardinality(S) \in Nat
  BY <1>1, FS_Subset, FS_CardinalityType
<1>3. \A S : Cycle!Cardinality(S) = Cardinality(S)
  BY DEF Cycle!Cardinality, Cardinality, Cycle!IsFiniteSet, IsFiniteSet
<1> QED BY <1>1, <1>2, <1>3, FS_EmptySet

\* What run_segment_cycle is called for is among its tasks.
LEMMA TasksOfKinds ==
    ASSUME NEW kinds \in SUBSET Cycle!Kinds
    PROVE  Cycle!Tasks(kinds) \in Seq(TaskNames)
           /\ Range(Cycle!Tasks(kinds)) \cap Cycle!Timers = kinds \cap Cycle!Timers
<1> DEFINE a == IF "exits" \in kinds THEN <<"exits">> ELSE <<>>
           b == IF "scan" \in kinds THEN <<"scan">> ELSE <<>>
           c == IF "snapshot" \in kinds THEN <<"snapshot", "summary">> ELSE <<>>
<1>1. a \in Seq(TaskNames) /\ b \in Seq(TaskNames) /\ c \in Seq(TaskNames)
  <2>1. <<>> \in Seq(TaskNames)
    BY EmptySeq
  <2>2. <<"exits">> \in Seq(TaskNames) /\ <<"scan">> \in Seq(TaskNames)
    BY DEF TaskNames, Cycle!Kinds, Cycle!Timers
  <2>3. <<"snapshot", "summary">> \in Seq(TaskNames)
    BY DEF TaskNames, Cycle!Kinds
  <2> QED BY <2>1, <2>2, <2>3
<1>2. Range(a) = kinds \cap {"exits"}
  BY DEF Range
<1>3. Range(b) = kinds \cap {"scan"}
  BY DEF Range
<1>4. Range(c) \cap Cycle!Timers = {}
  BY DEF Range, Cycle!Timers
<1>5. Cycle!Tasks(kinds) = (a \o b) \o c
  BY DEF Cycle!Tasks
<1> HIDE DEF a, b, c
<1>6. \A s, t \in Seq(TaskNames) : s \o t \in Seq(TaskNames)
                                  /\ Range(s \o t) = Range(s) \cup Range(t)
  BY ConcatProperties, RangeConcatenation
<1>7. /\ a \o b \in Seq(TaskNames) /\ Range(a \o b) = Range(a) \cup Range(b)
      /\ (a \o b) \o c \in Seq(TaskNames)
      /\ Range((a \o b) \o c) = Range(a \o b) \cup Range(c)
  BY <1>1, <1>6
<1> QED BY <1>2, <1>3, <1>4, <1>5, <1>7 DEF Cycle!Timers

LEMMA HeadAndTail ==
    ASSUME NEW s \in Seq(TaskNames), s # <<>>
    PROVE  /\ Head(s) \in TaskNames /\ Tail(s) \in Seq(TaskNames)
           /\ Range(Tail(s)) \subseteq Range(s)
           /\ \A k \in Range(s) : k = Head(s) \/ k \in Range(Tail(s))
<1>1. /\ Head(s) \in TaskNames /\ Tail(s) \in Seq(TaskNames)
      /\ Len(Tail(s)) = Len(s) - 1 /\ \A i \in 1 .. Len(Tail(s)) : Tail(s)[i] = s[i + 1]
  BY HeadTailProperties
<1>2. /\ Range(s) = {s[i] : i \in 1 .. Len(s)}
      /\ Range(Tail(s)) = {Tail(s)[i] : i \in 1 .. Len(Tail(s))}
      /\ Len(s) \in Nat /\ Head(s) = s[1]
  <2>1. \A t \in Seq(TaskNames) : Range(t) = {t[i] : i \in 1 .. Len(t)}
    BY RangeEquality
  <2>2. Len(s) \in Nat
    BY LenProperties
  <2>3. Head(s) = s[1]
    OBVIOUS
  <2> QED BY <1>1, <2>1, <2>2, <2>3
<1>3. ASSUME NEW k \in Range(Tail(s)) PROVE k \in Range(s)
  <2>1. PICK i \in 1 .. Len(Tail(s)) : k = Tail(s)[i]
    BY <1>2
  <2>2. k = s[i + 1] /\ i + 1 \in 1 .. Len(s)
    BY <1>1, <1>2, <2>1
  <2> QED BY <1>2, <2>2
<1>4. ASSUME NEW k \in Range(s), k # Head(s) PROVE k \in Range(Tail(s))
  <2>1. PICK i \in 1 .. Len(s) : k = s[i]
    BY <1>2
  <2>2. i # 1 /\ i - 1 \in 1 .. Len(Tail(s)) /\ (i - 1) + 1 = i
    BY <1>1, <1>2, <1>4, <2>1
  <2>3. k = Tail(s)[i - 1]
    BY <1>1, <2>1, <2>2
  <2> QED BY <1>2, <2>2, <2>3
<1> QED BY <1>1, <1>3, <1>4

LEMMA CycleInit == Init => CycleInv
<1> SUFFICES ASSUME Init PROVE CycleInv
  OBVIOUS
<1>1. /\ now = [day |-> 1, phase |-> "open"] /\ loop = Cycle!At("top", 0, "none", FALSE)
      /\ shutdown = FALSE /\ clock = [p \in Fleet |-> Cycle!Timers]
      /\ item = [p \in Fleet |-> {}] /\ queued = {} /\ running = {}
      /\ work = [p \in Fleet |-> <<>>]
      /\ mail = [p \in Fleet |-> Cycle!NoMail]
      /\ owed = [p \in Fleet |-> Cycle!Timers] /\ dropped = [p \in Fleet |-> {}]
  BY DEF Init, Cycle!Init, Cycle!NoItem, Cycle!NoWork
<1>2. CycleTyped
  <2>1. Cycle!NoMail \in Mail /\ <<>> \in Seq(TaskNames)
    BY EmptySeq DEF Cycle!NoMail, Mail
  <2>2. loop \in [at : Places, day : Nat, phase : {"none", "open", "late", "closed"},
                  snap : BOOLEAN]
    BY <1>1 DEF Cycle!At, Places
  <2> QED BY <1>1, <2>1, <2>2 DEF CycleTyped
<1>3. PoolOrder /\ WorkFits
  BY <1>1 DEF PoolOrder, WorkFits
<1>4. OwedFits /\ DroppedFits
  BY <1>1 DEF OwedFits, DroppedFits, Noted
<1>5. MailsAtHand
  BY <1>1 DEF MailsAtHand, Cycle!NoMail
<1>6. SummariesFit
  BY <1>1 DEF SummariesFit, MailFits, Out, Cycle!NoMail
<1> QED BY <1>2, <1>3, <1>4, <1>5, <1>6 DEF CycleInv

-----------------------------------------------------------------------------
(* What leaves a part of the invariant alone.                                *)

LEMMA PoolKept ==
    ASSUME CycleInv, loop'.at = loop.at, item' = item,
           \A p \in Fleet : p \in queued' \/ p \in running' => p \in queued \/ p \in running
    PROVE  PoolOrder'
BY DEF CycleInv, PoolOrder

LEMMA WorkKept ==
    ASSUME CycleInv, item' = item, \A p \in Fleet : p \in running' => p \in running,
           \A p \in Fleet : p \in running' => Left(p)' \subseteq Left(p)
    PROVE  WorkFits'
BY DEF CycleInv, WorkFits

LEMMA OwedKept ==
    ASSUME CycleInv, loop'.at # "down" => loop.at # "down",
           \A p \in Fleet : /\ owed'[p] \subseteq owed[p] /\ Noted(p) \subseteq Noted(p)'
                            /\ p \in running => p \in running'
                            /\ \A k \in owed'[p] : k \in Left(p) => k \in Left(p)'
    PROVE  OwedFits'
<1> SUFFICES ASSUME loop'.at # "down", NEW p \in Fleet, NEW k \in owed'[p]
             PROVE  k \in Noted(p)' \/ (p \in running' /\ k \in Left(p)')
  BY DEF OwedFits
<1>1. k \in Noted(p) \/ (p \in running /\ k \in Left(p))
  BY DEF CycleInv, OwedFits
<1> QED BY <1>1

\* The snapshot is in no clock: dropping it disturbs nothing.
LEMMA SnapshotsDropped ==
    ASSUME CycleInv, clock' = clock,
           \A p \in Fleet : /\ dropped[p] \subseteq dropped'[p]
                            /\ dropped'[p] \subseteq dropped[p] \cup {"snapshot"}
    PROVE  DroppedFits' /\ \A p \in Fleet : Noted(p) \subseteq Noted(p)'
<1>1. \A p \in Fleet : clock[p] \subseteq Cycle!Timers /\ dropped[p] \cap clock[p] = {}
  BY DEF CycleInv, CycleTyped, DroppedFits
<1>2. "snapshot" \notin Cycle!Timers
  BY DEF Cycle!Timers
<1> QED BY <1>1, <1>2 DEF DroppedFits, Noted

LEMMA MailsKept ==
    ASSUME CycleInv, mail' = mail,
           \A p \in Fleet : \/ p \in running /\ p \in running' /\ work'[p] = work[p]
                            \/ mail[p].step = "none"
    PROVE  MailsAtHand'
BY DEF CycleInv, MailsAtHand, AtHand

LEMMA SummariesKept ==
    ASSUME CycleInv, now'.day = now.day, mail' = mail PROVE SummariesFit'
BY DEF CycleInv, SummariesFit, MailFits, Out

\* Whoever is at a mail is running, and no pool is while the loop is elsewhere.
LEMMA PoolIdle ==
    ASSUME CycleInv, loop.at \notin {"exits", "scans", "missed"}
    PROVE  queued = {} /\ running = {} /\ \A p \in Fleet : mail[p].step = "none"
<1>1. queued = {} /\ running = {}
  BY DEF CycleInv, CycleTyped, PoolOrder, OfPass
<1> QED BY <1>1 DEF CycleInv, MailsAtHand, AtHand

\* Time or a signal: nothing of the pool, the clocks and the mails moves.
LEMMA NothingDone ==
    ASSUME CycleInv, CycleTyped', now'.day = now.day, loop' = loop,
           UNCHANGED <<clock, owed, dropped, item, queued, running, work, mail>>
    PROVE  CycleInv'
<1>1. PoolOrder' /\ WorkFits'
  BY PoolKept, WorkKept DEF Left
<1>2. OwedFits' /\ DroppedFits'
  BY DEF CycleInv, OwedFits, DroppedFits, Noted, Left
<1>3. MailsAtHand' /\ SummariesFit'
  BY SummariesKept DEF CycleInv, MailsAtHand, AtHand
<1> QED BY <1>1, <1>2, <1>3 DEF CycleInv

\* The mail of p, and what it becomes.
LEMMA MailOf ==
    ASSUME CycleInv, NEW p \in Fleet
    PROVE  /\ mail \in [Fleet -> Mail] /\ mail[p] \in Mail /\ MailFits(mail[p]) /\ now.day \in Nat
           /\ mail[p].step # "none" =>
                 p \in running /\ work[p] # <<>> /\ Head(work[p]) = "summary"
BY DEF CycleInv, CycleTyped, SummariesFit, MailsAtHand, AtHand

LEMMA MailNumbers ==
    ASSUME NEW n \in Mail PROVE n.date \in Nat /\ n.sent \in Nat /\ n.lost \in Nat
BY DEF Mail

-----------------------------------------------------------------------------
(* The clock, the loop and the signals.                                      *)

LEMMA ElapseFits ==
    ASSUME CycleInv, NEW p \in Fleet, NEW kinds \in SUBSET Cycle!Timers, Cycle!Elapse(p, kinds)
    PROVE  CycleInv'
<1>1. /\ clock' = [clock EXCEPT ![p] = @ \cup kinds] /\ owed' = [owed EXCEPT ![p] = @ \cup kinds]
      /\ dropped' = [dropped EXCEPT ![p] = @ \ kinds]
      /\ now' = now /\ loop' = loop /\ shutdown' = shutdown /\ item' = item
      /\ queued' = queued /\ running' = running /\ work' = work /\ mail' = mail
  BY DEF Cycle!Elapse, Cycle!pool
<1>2. CycleTyped
  BY DEF CycleInv
<1>3. /\ clock'[p] = clock[p] \cup kinds /\ owed'[p] = owed[p] \cup kinds
      /\ dropped'[p] = dropped[p] \ kinds
      /\ \A q \in Fleet \ {p} : clock'[q] = clock[q] /\ owed'[q] = owed[q] /\ dropped'[q] = dropped[q]
  BY <1>1, <1>2 DEF CycleTyped
<1>4. CycleTyped'
  BY <1>1, <1>2 DEF CycleTyped
<1>5. PoolOrder' /\ WorkFits'
  BY <1>1, PoolKept, WorkKept DEF Left
<1>6. OwedFits'
  <2> SUFFICES ASSUME loop'.at # "down", NEW q \in Fleet, NEW k \in owed'[q]
               PROVE  k \in Noted(q)' \/ (q \in running' /\ k \in Left(q)')
    BY DEF OwedFits
  <2>1. (k \in kinds /\ q = p) \/ k \in owed[q]
    BY <1>3
  <2>2. k \in owed[q] => k \in Noted(q) \/ (q \in running /\ k \in Left(q))
    BY <1>1 DEF CycleInv, OwedFits
  <2>3. Noted(q) \subseteq Noted(q)' /\ kinds \subseteq Noted(p)' /\ Left(q)' = Left(q)
    BY <1>1, <1>3 DEF Left, Noted
  <2> QED BY <1>1, <2>1, <2>2, <2>3
<1>7. DroppedFits'
  BY <1>3 DEF CycleInv, DroppedFits
<1>8. MailsAtHand' /\ SummariesFit'
  BY <1>1, SummariesKept DEF CycleInv, MailsAtHand, AtHand
<1> QED BY <1>4, <1>5, <1>6, <1>7, <1>8 DEF CycleInv

LEMMA LaterFits == ASSUME CycleInv, Cycle!Later PROVE CycleInv'
<1>1. /\ loop' = loop /\ shutdown' = shutdown
      /\ UNCHANGED <<clock, owed, dropped, item, queued, running, work, mail>>
      /\ now' = IF now.phase = "open" THEN [now EXCEPT !.phase = "late"]
                                      ELSE [now EXCEPT !.phase = "closed"]
  BY DEF Cycle!Later, Cycle!pool
<1>2. CycleTyped' /\ now'.day = now.day
  BY <1>1 DEF CycleInv, CycleTyped
<1> QED BY <1>1, <1>2, NothingDone

LEMMA SignalFits == ASSUME CycleInv, Cycle!Signal PROVE CycleInv'
<1>1. /\ shutdown' = TRUE /\ now' = now /\ loop' = loop
      /\ UNCHANGED <<clock, owed, dropped, item, queued, running, work, mail>>
  BY DEF Cycle!Signal, Cycle!pool
<1>2. CycleTyped'
  BY <1>1 DEF CycleInv, CycleTyped
<1> QED BY <1>1, <1>2, NothingDone

LEMMA NewDayFits == ASSUME CycleInv, Cycle!NewDay PROVE CycleInv'
<1>1. /\ clock' = clock /\ owed' = owed /\ loop' = loop /\ shutdown' = shutdown /\ item' = item
      /\ queued' = queued /\ running' = running /\ work' = work
      /\ now' = [day |-> now.day + 1, phase |-> "open"] /\ loop.at \in {"top", "parked"}
      /\ mail' = [p \in Fleet |-> [mail[p] EXCEPT !.sent = 0, !.lost = 0]]
      /\ dropped' = [p \in Fleet |-> dropped[p] \ {"snapshot"}]
  BY DEF Cycle!NewDay, Cycle!pool
<1>2. CycleTyped
  BY DEF CycleInv
<1>3. ASSUME NEW p \in Fleet
      PROVE  /\ mail'[p] \in Mail /\ mail'[p].date = mail[p].date
             /\ mail'[p].step = "none" /\ mail'[p].sent = 0 /\ mail'[p].lost = 0
  <2>1. mail[p] \in Mail /\ mail[p].step = "none"
    BY <1>1, <1>2, PoolIdle DEF CycleTyped
  <2>2. PICK n \in Mail : n = mail[p]
    BY <2>1
  <2>3. mail'[p] = [n EXCEPT !.sent = 0, !.lost = 0]
    BY <1>1, <2>2
  <2>4. PICK m : m = [n EXCEPT !.sent = 0, !.lost = 0]
    OBVIOUS
  <2>5. m \in Mail /\ m.date = n.date /\ m.step = n.step /\ m.sent = 0 /\ m.lost = 0
    BY <2>4 DEF Mail
  <2> QED BY <2>1, <2>2, <2>3, <2>4, <2>5
<1>4. CycleTyped'
  <2>1. mail' \in [Fleet -> Mail]
    BY <1>1, <1>3
  <2>2. now' \in [day : Nat, phase : {"open", "late", "closed"}]
    <3>1. now.day \in Nat
      BY <1>2 DEF CycleTyped
    <3>2. now.day + 1 \in Nat
      BY <3>1
    <3> QED BY <1>1, <3>2
  <2>3. dropped' \in [Fleet -> SUBSET Cycle!Kinds]
    BY <1>1, <1>2 DEF CycleTyped
  <2> QED BY <1>1, <1>2, <2>1, <2>2, <2>3 DEF CycleTyped
<1>5. PoolOrder' /\ WorkFits'
  BY <1>1, PoolKept, WorkKept DEF Left
<1>6. OwedFits' /\ DroppedFits'
  <2>1. \A p \in Fleet : dropped'[p] = dropped[p] \ {"snapshot"} /\ clock'[p] = clock[p]
    BY <1>1
  <2>2. \A p \in Fleet : \A k \in owed[p] : k \in Noted(p) => k \in Noted(p)'
    BY <1>2, <2>1 DEF CycleTyped, Cycle!Timers, Noted
  <2>3. DroppedFits'
    BY <2>1 DEF CycleInv, DroppedFits
  <2>4. OwedFits'
    BY <1>1, <2>2 DEF CycleInv, OwedFits, Left
  <2> QED BY <2>3, <2>4
<1>7. MailsAtHand'
  BY <1>3 DEF MailsAtHand
<1>8. SummariesFit'
  <2> SUFFICES ASSUME NEW p \in Fleet PROVE MailFits(mail[p])'
    BY DEF SummariesFit
  <2>1. mail[p].date <= now.day /\ mail[p].date \in Nat /\ now.day \in Nat
    BY <1>2 DEF CycleInv, SummariesFit, MailFits, CycleTyped, Mail
  <2>2. now'.day = now.day + 1
    BY <1>1
  <2> QED BY <1>3, <2>1, <2>2 DEF MailFits, Out
<1> QED BY <1>4, <1>5, <1>6, <1>7, <1>8 DEF CycleInv

\* The loop stands where no pool runs, and what it finds becomes the next pass.
LEMMA PassBegins ==
    ASSUME CycleInv, CycleTyped', running = {}, running' = {}, work' = work, mail' = mail,
           now' = now, clock' = clock, owed' = owed,
           \A p \in Fleet : /\ dropped[p] \subseteq dropped'[p]
                            /\ dropped'[p] \subseteq dropped[p] \cup {"snapshot"},
           loop'.at # "down", loop.at # "down",
           \A p \in queued' : OfPass(loop'.at, item'[p])
    PROVE  CycleInv'
<1>1. PoolOrder' /\ WorkFits'
  BY DEF PoolOrder, WorkFits
<1>2. OwedFits' /\ DroppedFits'
  BY SnapshotsDropped, OwedKept DEF Left
<1>3. MailsAtHand' /\ SummariesFit'
  BY SummariesKept DEF CycleInv, MailsAtHand, AtHand
<1> QED BY <1>1, <1>2, <1>3 DEF CycleInv

LEMMA LoopTyped ==
    ASSUME CycleTyped, NEW place \in Places, loop' = [loop EXCEPT !.at = place]
    PROVE  /\ loop' \in [at : Places, day : Nat, phase : {"none", "open", "late", "closed"},
                         snap : BOOLEAN]
           /\ loop'.at = place
BY DEF CycleTyped

LEMMA PassedOver ==
    ASSUME CycleInv, NEW broken, NEW kinds, Cycle!PassOver(broken, kinds)
    PROVE  /\ dropped' \in [Fleet -> SUBSET Cycle!Kinds]
           /\ \A p \in Fleet : /\ dropped[p] \subseteq dropped'[p]
                               /\ dropped'[p] \subseteq dropped[p] \cup {"snapshot"}
<1>1. dropped' = [p \in Fleet |->
         IF p \in broken THEN dropped[p] \cup (kinds[p] \cap {"snapshot"}) ELSE dropped[p]]
  BY DEF Cycle!PassOver
<1>2. dropped \in [Fleet -> SUBSET Cycle!Kinds] /\ "snapshot" \in Cycle!Kinds
  BY DEF CycleInv, CycleTyped, Cycle!Kinds
<1> QED BY <1>1, <1>2

LEMMA IterateFits == ASSUME CycleInv, Cycle!Iterate PROVE CycleInv'
<1> DEFINE snap == now.phase # "open" /\ last # now.day
           due == [p \in Fleet |-> Cycle!Due(p, snap)]
<1>1. PICK broken : Cycle!PassOver(broken, due)
                    /\ item' = [p \in Fleet |-> IF p \in broken THEN {} ELSE Cycle!Due(p, snap)]
  BY DEF Cycle!Iterate
<1>2. /\ loop.at = "top"
      /\ loop' = Cycle!At("exits", now.day, now.phase, snap)
      /\ queued' = {p \in Fleet : Cycle!InPass("exits", item'[p])}
      /\ now' = now /\ shutdown' = shutdown /\ clock' = clock /\ owed' = owed
      /\ running' = running /\ work' = work /\ mail' = mail
  BY DEF Cycle!Iterate
<1>3. CycleTyped /\ queued = {} /\ running = {}
  BY <1>2, PoolIdle DEF CycleInv
<1>4. item' \in [Fleet -> SUBSET Cycle!Kinds]
  <2>1. ASSUME NEW p \in Fleet PROVE Cycle!Due(p, snap) \in SUBSET Cycle!Kinds
    BY <1>3 DEF CycleTyped, Cycle!Due, Cycle!Timers, Cycle!Kinds
  <2> QED BY <1>1, <2>1
<1>5. loop'.at = "exits"
      /\ loop' \in [at : Places, day : Nat, phase : {"none", "open", "late", "closed"},
                    snap : BOOLEAN]
  <2>1. now.day \in Nat /\ now.phase \in {"open", "late", "closed"} /\ snap \in BOOLEAN
    BY <1>3 DEF CycleTyped
  <2> HIDE DEF snap
  <2> QED BY <1>2, <2>1 DEF Cycle!At, Places
<1>6. \A p \in queued' : p \in Fleet /\ "scan" \notin item'[p]
  BY <1>2 DEF Cycle!InPass
<1>7. /\ dropped' \in [Fleet -> SUBSET Cycle!Kinds]
      /\ \A p \in Fleet : /\ dropped[p] \subseteq dropped'[p]
                          /\ dropped'[p] \subseteq dropped[p] \cup {"snapshot"}
  BY <1>1, PassedOver
<1> HIDE DEF snap, due
<1>8. CycleTyped'
  <2>1. queued' \subseteq Fleet /\ queued' \cap running' = {} /\ running' \subseteq Fleet
    BY <1>2, <1>3, <1>6
  <2> QED BY <1>2, <1>3, <1>4, <1>5, <1>7, <2>1 DEF CycleTyped
<1> QED BY <1>2, <1>3, <1>5, <1>6, <1>7, <1>8, PassBegins DEF OfPass

LEMMA ScanPassFits == ASSUME CycleInv, Cycle!ScanPass PROVE CycleInv'
<1>1. /\ loop.at = "exits" /\ queued = {} /\ running = {} /\ item' = item
      /\ loop' = [loop EXCEPT !.at = "scans"]
      /\ queued' = {p \in Fleet : Cycle!InPass("scans", item[p])}
      /\ now' = now /\ shutdown' = shutdown /\ clock' = clock /\ owed' = owed
      /\ running' = running /\ work' = work /\ mail' = mail /\ dropped' = dropped
  BY DEF Cycle!ScanPass, Cycle!PoolDone
<1>2. CycleTyped
  BY DEF CycleInv
<1>3. \A p \in queued' : p \in Fleet /\ "scan" \in item[p]
  BY <1>1 DEF Cycle!InPass
<1>4. loop'.at = "scans"
      /\ loop' \in [at : Places, day : Nat, phase : {"none", "open", "late", "closed"},
                    snap : BOOLEAN]
  BY <1>1, <1>2, LoopTyped DEF Places
<1>5. CycleTyped'
  <2>1. queued' \subseteq Fleet /\ queued' \cap running' = {} /\ running' \subseteq Fleet
    BY <1>1, <1>3
  <2> QED BY <1>1, <1>2, <1>4, <2>1 DEF CycleTyped
<1> QED BY <1>1, <1>3, <1>4, <1>5, PassBegins DEF OfPass

LEMMA PersistFits == ASSUME CycleInv, Cycle!Persist PROVE CycleInv'
<1>1. /\ queued = {} /\ running = {} /\ loop.at \in {"scans", "missed"}
      /\ item' = [p \in Fleet |-> {}]
      /\ \E place \in {"top", "closed", "parked"} : loop' = [loop EXCEPT !.at = place]
      /\ now' = now /\ shutdown' = shutdown /\ clock' = clock /\ owed' = owed
      /\ queued' = queued /\ running' = running /\ work' = work /\ mail' = mail
      /\ dropped' = dropped
  BY DEF Cycle!Persist, Cycle!PoolDone, Cycle!NoItem
<1>2. CycleTyped
  BY DEF CycleInv
<1>3. loop'.at \in {"top", "closed", "parked"}
      /\ loop' \in [at : Places, day : Nat, phase : {"none", "open", "late", "closed"},
                    snap : BOOLEAN]
  BY <1>1, <1>2, LoopTyped DEF Places
<1>4. CycleTyped'
  BY <1>1, <1>2, <1>3 DEF CycleTyped
<1> QED BY <1>1, <1>3, <1>4, PassBegins

LEMMA MissedSnapshotFits == ASSUME CycleInv, Cycle!MissedSnapshot PROVE CycleInv'
<1>1. PICK broken :
         /\ Cycle!PassOver(broken, [p \in Fleet |-> {"snapshot"}])
         /\ item' = [p \in Fleet |-> IF p \in broken THEN {} ELSE {"snapshot"}]
         /\ queued' = Fleet \ broken
  BY DEF Cycle!MissedSnapshot
<1>2. /\ loop.at = "closed" /\ loop' = [loop EXCEPT !.at = "missed", !.snap = TRUE]
      /\ now' = now /\ shutdown' = shutdown /\ clock' = clock /\ owed' = owed
      /\ running' = running /\ work' = work /\ mail' = mail
  BY DEF Cycle!MissedSnapshot, Cycle!day
<1>3. CycleTyped /\ queued = {} /\ running = {}
  BY <1>2, PoolIdle DEF CycleInv
<1>4. loop'.at = "missed"
      /\ loop' \in [at : Places, day : Nat, phase : {"none", "open", "late", "closed"},
                    snap : BOOLEAN]
  BY <1>2, <1>3 DEF CycleTyped, Places
<1>5. /\ dropped' \in [Fleet -> SUBSET Cycle!Kinds]
      /\ \A p \in Fleet : /\ dropped[p] \subseteq dropped'[p]
                          /\ dropped'[p] \subseteq dropped[p] \cup {"snapshot"}
  BY <1>1, PassedOver
<1>6. CycleTyped'
  <2>1. item' \in [Fleet -> SUBSET Cycle!Kinds] /\ queued' \subseteq Fleet
    BY <1>1 DEF Cycle!Kinds
  <2> QED BY <1>2, <1>3, <1>4, <1>5, <2>1 DEF CycleTyped
<1>7. \A p \in queued' : OfPass(loop'.at, item'[p])
  BY <1>1, <1>4 DEF OfPass
<1> QED BY <1>2, <1>3, <1>4, <1>5, <1>6, <1>7, PassBegins

\* A step of the loop between its passes.
LEMMA LoopMoves ==
    ASSUME CycleInv, Cycle!Stamp \/ Cycle!BreakMissed \/ Cycle!Wake PROVE CycleInv'
<1>1. /\ now' = now /\ shutdown' = shutdown /\ clock' = clock /\ owed' = owed /\ item' = item
      /\ running' = running /\ work' = work /\ mail' = mail
  BY DEF Cycle!Stamp, Cycle!BreakMissed, Cycle!Wake, Cycle!pool
<1>2. \/ queued' = queued /\ loop' = loop /\ dropped' = dropped
      \/ /\ queued' = {} /\ loop' = loop
         /\ dropped' = [p \in Fleet |-> IF p \in queued THEN dropped[p] \cup {"snapshot"}
                                                        ELSE dropped[p]]
      \/ /\ loop.at = "parked" /\ queued' = queued /\ loop' = [loop EXCEPT !.at = "top"]
         /\ dropped' = dropped
  BY DEF Cycle!Stamp, Cycle!BreakMissed, Cycle!Wake, Cycle!pool
<1>3. CycleTyped
  BY DEF CycleInv
<1>4. /\ dropped' \in [Fleet -> SUBSET Cycle!Kinds]
      /\ \A p \in Fleet : /\ dropped[p] \subseteq dropped'[p]
                          /\ dropped'[p] \subseteq dropped[p] \cup {"snapshot"}
  <2>1. dropped \in [Fleet -> SUBSET Cycle!Kinds] /\ "snapshot" \in Cycle!Kinds
    BY <1>3 DEF CycleTyped, Cycle!Kinds
  <2>2. CASE dropped' = dropped
    BY <2>1, <2>2
  <2>3. CASE dropped' = [p \in Fleet |-> IF p \in queued THEN dropped[p] \cup {"snapshot"}
                                                         ELSE dropped[p]]
    BY <2>1, <2>3
  <2> QED BY <1>2, <2>2, <2>3
<1>5. CASE loop' = loop
  <2>1. queued' \subseteq queued
    BY <1>2, <1>5
  <2>2. CycleTyped'
    BY <1>1, <1>3, <1>4, <1>5, <2>1 DEF CycleTyped
  <2>3. PoolOrder' /\ WorkFits'
    BY <1>1, <1>5, <2>1, PoolKept, WorkKept DEF Left
  <2>4. DroppedFits' /\ \A p \in Fleet : Noted(p) \subseteq Noted(p)'
    BY <1>1, <1>4, SnapshotsDropped
  <2>5. OwedFits'
    BY <1>1, <1>5, <2>4, OwedKept DEF Left
  <2>6. MailsAtHand' /\ SummariesFit'
    BY <1>1, SummariesKept DEF CycleInv, MailsAtHand, AtHand
  <2> QED BY <2>2, <2>3, <2>4, <2>5, <2>6 DEF CycleInv
<1>6. CASE loop.at = "parked" /\ queued' = queued /\ loop' = [loop EXCEPT !.at = "top"]
  <2>1. loop'.at = "top"
        /\ loop' \in [at : Places, day : Nat, phase : {"none", "open", "late", "closed"},
                      snap : BOOLEAN]
    BY <1>3, <1>6, LoopTyped DEF Places
  <2>2. queued = {} /\ running = {}
    BY <1>6, PoolIdle
  <2>3. CycleTyped'
    BY <1>1, <1>3, <1>4, <1>6, <2>1 DEF CycleTyped
  <2> QED BY <1>1, <1>4, <1>6, <2>1, <2>2, <2>3, PassBegins
<1> QED BY <1>2, <1>5, <1>6

LEMMA StopFits == ASSUME CycleInv, Cycle!Stop PROVE CycleInv'
<1>1. /\ loop.at \in {"top", "parked"} /\ loop' = Cycle!At("down", 0, "none", FALSE)
      /\ shutdown' = shutdown /\ now' = now /\ clock' = clock /\ owed' = owed
      /\ dropped' = dropped
      /\ item' = item /\ queued' = queued /\ running' = running /\ work' = work /\ mail' = mail
  BY DEF Cycle!Stop, Cycle!pool
<1>2. loop'.at = "down"
      /\ loop' \in [at : Places, day : Nat, phase : {"none", "open", "late", "closed"},
                    snap : BOOLEAN]
  BY <1>1 DEF Cycle!At, Places
<1>3. queued = {} /\ running = {}
  BY <1>1, PoolIdle
<1>4. CycleTyped'
  BY <1>1, <1>2 DEF CycleInv, CycleTyped
<1>5. PoolOrder' /\ WorkFits'
  BY <1>1, <1>3 DEF PoolOrder, WorkFits
<1>6. OwedFits' /\ DroppedFits'
  BY <1>1, <1>2 DEF CycleInv, OwedFits, DroppedFits
<1>7. MailsAtHand' /\ SummariesFit'
  BY <1>1, SummariesKept DEF CycleInv, MailsAtHand, AtHand
<1> QED BY <1>4, <1>5, <1>6, <1>7 DEF CycleInv

LEMMA RestartFitsLoop == ASSUME CycleInv, Cycle!Restart PROVE CycleInv'
<1>1. /\ loop.at = "down" /\ loop' = Cycle!At("top", 0, "none", FALSE) /\ shutdown' = FALSE
      /\ clock' = [p \in Fleet |-> Cycle!Timers] /\ now' = now /\ owed' = owed
      /\ dropped' = [p \in Fleet |-> dropped[p] \ Cycle!Timers]
      /\ item' = item /\ queued' = queued /\ running' = running /\ work' = work /\ mail' = mail
  BY DEF Cycle!Restart, Cycle!pool
<1>2. loop'.at = "top"
      /\ loop' \in [at : Places, day : Nat, phase : {"none", "open", "late", "closed"},
                    snap : BOOLEAN]
  BY <1>1 DEF Cycle!At, Places
<1>3. CycleTyped /\ queued = {} /\ running = {}
  BY <1>1, PoolIdle DEF CycleInv
<1>4. CycleTyped'
  <2>1. dropped' \in [Fleet -> SUBSET Cycle!Kinds]
    BY <1>1, <1>3 DEF CycleTyped
  <2> QED BY <1>1, <1>2, <1>3, <2>1 DEF CycleTyped
<1>5. PoolOrder' /\ WorkFits'
  BY <1>1, <1>3 DEF PoolOrder, WorkFits
<1>6. OwedFits' /\ DroppedFits'
  BY <1>1, <1>3 DEF OwedFits, DroppedFits, Noted, CycleTyped
<1>7. MailsAtHand' /\ SummariesFit'
  BY <1>1, SummariesKept DEF CycleInv, MailsAtHand, AtHand
<1> QED BY <1>4, <1>5, <1>6, <1>7 DEF CycleInv

-----------------------------------------------------------------------------
(* The threads.                                                              *)

\* A step of one profile's thread at its work.
LEMMA ThreadSteps ==
    ASSUME CycleInv, NEW p \in Fleet, loop' = loop, item' = item,
           \A q \in Fleet : q \in queued' \/ q \in running' => q \in queued \/ q \in running,
           \A q \in Fleet \ {p} : /\ q \in running' <=> q \in running
                                  /\ work'[q] = work[q] /\ owed'[q] \subseteq owed[q]
                                  /\ clock'[q] = clock[q] /\ dropped'[q] = dropped[q],
           p \in running' => Left(p)' \cap Cycle!Timers \subseteq item[p],
           dropped'[p] \cap clock'[p] = {},
           loop.at # "down" =>
              \A k \in owed'[p] : k \in Noted(p)' \/ (p \in running' /\ k \in Left(p)')
    PROVE  PoolOrder' /\ WorkFits' /\ OwedFits' /\ DroppedFits'
<1>1. PoolOrder'
  BY PoolKept
<1>2. \A q \in Fleet \ {p} : Left(q)' = Left(q) /\ Noted(q)' = Noted(q)
  BY DEF Left, Noted
<1>3. WorkFits'
  BY <1>2 DEF CycleInv, WorkFits
<1>4. OwedFits'
  <2> SUFFICES ASSUME loop.at # "down", NEW q \in Fleet, NEW k \in owed'[q]
               PROVE  k \in Noted(q)' \/ (q \in running' /\ k \in Left(q)')
    BY DEF OwedFits
  <2>1. CASE q = p
    BY <2>1
  <2>2. CASE q # p
    <3>1. k \in owed[q] /\ Noted(q)' = Noted(q) /\ (q \in running' <=> q \in running)
          /\ Left(q)' = Left(q)
      BY <1>2, <2>2
    <3>2. k \in Noted(q) \/ (q \in running /\ k \in Left(q))
      BY <3>1 DEF CycleInv, OwedFits
    <3> QED BY <3>1, <3>2
  <2> QED BY <2>1, <2>2
<1>5. DroppedFits'
  <2> SUFFICES ASSUME NEW q \in Fleet PROVE dropped'[q] \cap clock'[q] = {}
    BY DEF DroppedFits
  <2>1. CASE q # p
    BY <2>1 DEF CycleInv, DroppedFits
  <2> QED BY <2>1
<1> QED BY <1>1, <1>3, <1>4, <1>5

\* One summary mail moves on, by a step of its profile's thread.
LEMMA MailSteps ==
    ASSUME CycleInv, NEW p \in Fleet, NEW m \in Mail, mail' = [mail EXCEPT ![p] = m],
           now' = now,
           \A q \in Fleet \ {p} : (q \in running' <=> q \in running) /\ work'[q] = work[q],
           m.step # "none" => AtHand(p)', MailFits(m)
    PROVE  mail' \in [Fleet -> Mail] /\ MailsAtHand' /\ SummariesFit'
<1>1. mail \in [Fleet -> Mail]
  BY DEF CycleInv, CycleTyped
<1>2. /\ mail' \in [Fleet -> Mail] /\ mail'[p] = m
      /\ \A q \in Fleet \ {p} : mail'[q] = mail[q]
  BY <1>1
<1>3. ASSUME NEW q \in Fleet, mail'[q].step # "none" PROVE AtHand(q)'
  <2>1. CASE q = p
    BY <1>2, <1>3, <2>1
  <2>2. CASE q # p
    <3>1. AtHand(q)
      BY <1>2, <1>3, <2>2 DEF CycleInv, MailsAtHand
    <3> QED BY <2>2, <3>1 DEF AtHand
  <2> QED BY <2>1, <2>2
<1>4. ASSUME NEW q \in Fleet PROVE MailFits(mail[q])'
  <2>1. MailFits(mail'[q])
    <3>1. CASE q = p
      BY <1>2, <3>1
    <3>2. CASE q # p
      BY <1>2, <3>2 DEF CycleInv, SummariesFit
    <3> QED BY <3>1, <3>2
  <2> QED BY <2>1 DEF MailFits, Out
<1> QED BY <1>2, <1>3, <1>4 DEF MailsAtHand, SummariesFit

\* A step of a thread that is at no mail.
LEMMA NoMailSteps ==
    ASSUME CycleInv, NEW p \in Fleet, mail[p].step = "none", mail' = mail, now' = now,
           \A q \in Fleet \ {p} : (q \in running' <=> q \in running) /\ work'[q] = work[q]
    PROVE  mail' \in [Fleet -> Mail] /\ MailsAtHand' /\ SummariesFit'
<1>1. mail' \in [Fleet -> Mail]
  BY DEF CycleInv, CycleTyped
<1>2. MailsAtHand'
  BY DEF CycleInv, MailsAtHand, AtHand
<1> QED BY <1>1, <1>2, SummariesKept

LEMMA StartFits == ASSUME CycleInv, NEW p \in Fleet, Cycle!Start(p) PROVE CycleInv'
<1>1. /\ p \in queued /\ queued' = queued \ {p} /\ running' = running \cup {p}
      /\ clock' = [clock EXCEPT ![p] = @ \ item[p]]
      /\ work' = [work EXCEPT ![p] = Cycle!Tasks(item[p])]
      /\ now' = now /\ loop' = loop /\ shutdown' = shutdown /\ item' = item
      /\ mail' = mail /\ owed' = owed /\ dropped' = dropped
  BY DEF Cycle!Start
<1>2. CycleTyped /\ p \notin running
  BY <1>1 DEF CycleInv, CycleTyped
<1>3. /\ item[p] \in SUBSET Cycle!Kinds /\ clock[p] \subseteq Cycle!Timers
      /\ owed[p] \subseteq Cycle!Timers
  BY <1>2 DEF CycleTyped
<1>4. /\ Cycle!Tasks(item[p]) \in Seq(TaskNames)
      /\ Range(Cycle!Tasks(item[p])) \cap Cycle!Timers = item[p] \cap Cycle!Timers
  BY <1>3, TasksOfKinds
<1>5. /\ work'[p] = Cycle!Tasks(item[p]) /\ work' \in [Fleet -> Seq(TaskNames)]
      /\ \A q \in Fleet \ {p} : work'[q] = work[q]
  BY <1>1, <1>2, <1>4 DEF CycleTyped
<1>6. /\ clock'[p] = clock[p] \ item[p] /\ clock' \in [Fleet -> SUBSET Cycle!Timers]
      /\ \A q \in Fleet \ {p} : clock'[q] = clock[q]
  BY <1>1, <1>2, <1>3 DEF CycleTyped
<1>7. CycleTyped'
  <2>1. queued' \subseteq Fleet /\ running' \subseteq Fleet /\ queued' \cap running' = {}
    BY <1>1, <1>2 DEF CycleTyped
  <2> QED BY <1>1, <1>2, <1>5, <1>6, <2>1 DEF CycleTyped
<1>8. mail[p].step = "none"
  BY <1>2 DEF CycleInv, MailsAtHand, AtHand
<1>9. \A q \in Fleet \ {p} : q \in running' <=> q \in running
  BY <1>1
<1>10. MailsAtHand' /\ SummariesFit'
  BY <1>1, <1>5, <1>8, <1>9, NoMailSteps
<1>11. Left(p)' = Range(Cycle!Tasks(item[p]))
  BY <1>5 DEF Left
<1>12. loop.at # "down" =>
          \A k \in owed'[p] : k \in Noted(p)' \/ (p \in running' /\ k \in Left(p)')
  <2> SUFFICES ASSUME loop.at # "down", NEW k \in owed[p]
               PROVE  k \in Noted(p)' \/ (p \in running' /\ k \in Left(p)')
    BY <1>1
  <2>1. (k \in clock[p] \/ k \in dropped[p]) /\ k \in Cycle!Timers
    BY <1>2, <1>3 DEF CycleInv, OwedFits, Noted
  <2> QED BY <1>1, <1>4, <1>6, <1>11, <2>1 DEF Noted
<1>13. Left(p)' \cap Cycle!Timers \subseteq item[p]
  BY <1>4, <1>11
<1>14. dropped'[p] \cap clock'[p] = {}
  BY <1>1, <1>6 DEF CycleInv, DroppedFits
<1>15. \A q \in Fleet : q \in queued' \/ q \in running' => q \in queued \/ q \in running
  BY <1>1
<1>16. \A q \in Fleet \ {p} : /\ q \in running' <=> q \in running
                              /\ work'[q] = work[q] /\ owed'[q] \subseteq owed[q]
                              /\ clock'[q] = clock[q] /\ dropped'[q] = dropped[q]
  BY <1>1, <1>5, <1>6
<1>17. PoolOrder' /\ WorkFits' /\ OwedFits' /\ DroppedFits'
  BY <1>1, <1>12, <1>13, <1>14, <1>15, <1>16, ThreadSteps
<1> QED BY <1>7, <1>10, <1>17 DEF CycleInv

\* The first task of p is over: it is no longer owed, or known not to be done.
LEMMA TaskOver ==
    ASSUME CycleInv, NEW p \in Fleet, p \in running, work[p] # <<>>,
           work' = [work EXCEPT ![p] = Tail(@)],
           now' = now, loop' = loop, shutdown' = shutdown,
           UNCHANGED <<item, clock, queued, running>>,
           mail' \in [Fleet -> Mail], MailsAtHand', SummariesFit',
           owed' \in [Fleet -> SUBSET Cycle!Timers],
           dropped' \in [Fleet -> SUBSET Cycle!Kinds],
           \A q \in Fleet : owed'[q] \subseteq owed[q],
           \A q \in Fleet \ {p} : dropped'[q] = dropped[q],
           dropped'[p] \cap clock[p] = {},
           dropped[p] \subseteq dropped'[p] \cup {Head(work[p])},
           Head(work[p]) \in owed'[p] => Head(work[p]) \in Noted(p)'
    PROVE  CycleInv'
<1>1. CycleTyped /\ work[p] \in Seq(TaskNames)
  BY DEF CycleInv, CycleTyped
<1>2. /\ Tail(work[p]) \in Seq(TaskNames) /\ Range(Tail(work[p])) \subseteq Range(work[p])
      /\ \A k \in Range(work[p]) : k = Head(work[p]) \/ k \in Range(Tail(work[p]))
  BY <1>1, HeadAndTail
<1>3. /\ work'[p] = Tail(work[p]) /\ work' \in [Fleet -> Seq(TaskNames)]
      /\ \A q \in Fleet \ {p} : work'[q] = work[q]
  BY <1>1, <1>2 DEF CycleTyped
<1>4. CycleTyped'
  BY <1>1, <1>3 DEF CycleTyped
<1>5. Left(p)' = Range(Tail(work[p])) /\ Left(p) = Range(work[p])
  BY <1>3 DEF Left
<1>6. Left(p)' \cap Cycle!Timers \subseteq item[p]
  BY <1>2, <1>5 DEF CycleInv, WorkFits
<1>7. loop.at # "down" =>
         \A k \in owed'[p] : k \in Noted(p)' \/ (p \in running' /\ k \in Left(p)')
  <2> SUFFICES ASSUME loop.at # "down", NEW k \in owed'[p]
               PROVE  k \in Noted(p)' \/ k \in Left(p)'
    OBVIOUS
  <2>1. k \in Noted(p) \/ k \in Left(p)
    BY DEF CycleInv, OwedFits
  <2>2. CASE k = Head(work[p])
    BY <2>2
  <2>3. CASE k # Head(work[p]) /\ k \in Noted(p)
    BY <2>3 DEF Noted
  <2>4. CASE k # Head(work[p]) /\ k \in Left(p)
    BY <1>2, <1>5, <2>4
  <2> QED BY <2>1, <2>2, <2>3, <2>4
<1>8. \A q \in Fleet \ {p} : /\ q \in running' <=> q \in running
                             /\ work'[q] = work[q] /\ owed'[q] \subseteq owed[q]
                             /\ clock'[q] = clock[q] /\ dropped'[q] = dropped[q]
  BY <1>3
<1>9. PoolOrder' /\ WorkFits' /\ OwedFits' /\ DroppedFits'
  BY <1>6, <1>7, <1>8, ThreadSteps
<1> QED BY <1>4, <1>9 DEF CycleInv

\* A task that is not done is dropped, unless its interval has elapsed again.
LEMMA DropFits ==
    ASSUME CycleInv, NEW p \in Fleet, Cycle!Drop(p), owed' = owed, clock' = clock
    PROVE  /\ owed' \in [Fleet -> SUBSET Cycle!Timers]
           /\ dropped' \in [Fleet -> SUBSET Cycle!Kinds]
           /\ \A q \in Fleet \ {p} : dropped'[q] = dropped[q]
           /\ dropped'[p] \cap clock[p] = {}
           /\ dropped[p] \subseteq dropped'[p]
           /\ Head(work[p]) \in owed'[p] => Head(work[p]) \in Noted(p)'
<1>1. CycleTyped
  BY DEF CycleInv
<1>2. PICK h : h = Head(work[p])
  OBVIOUS
<1>3. /\ dropped'[p] = dropped[p] \cup (({h} \cap Cycle!Kinds) \ clock[p])
      /\ dropped' \in [Fleet -> SUBSET Cycle!Kinds]
      /\ \A q \in Fleet \ {p} : dropped'[q] = dropped[q]
  BY <1>1, <1>2 DEF CycleTyped, Cycle!Drop
<1>4. owed[p] \subseteq Cycle!Kinds /\ owed' \in [Fleet -> SUBSET Cycle!Timers]
  BY <1>1 DEF CycleTyped, Cycle!Kinds
<1>5. dropped'[p] \cap clock[p] = {}
  BY <1>3 DEF CycleInv, DroppedFits
<1>6. h \in owed[p] => h \in clock[p] \/ h \in dropped'[p]
  BY <1>3, <1>4
<1> QED BY <1>2, <1>3, <1>4, <1>5, <1>6 DEF Noted

LEMMA SkipFits == ASSUME CycleInv, NEW p \in Fleet, Cycle!Skip(p) PROVE CycleInv'
<1>1. /\ p \in running /\ work[p] # <<>> /\ work' = [work EXCEPT ![p] = Tail(@)]
      /\ mail[p].step = "none" /\ Cycle!Drop(p)
      /\ now' = now /\ loop' = loop /\ shutdown' = shutdown
      /\ UNCHANGED <<item, clock, queued, running>> /\ mail' = mail /\ owed' = owed
  BY DEF Cycle!Skip
<1>2. \A q \in Fleet \ {p} : (q \in running' <=> q \in running) /\ work'[q] = work[q]
  BY <1>1 DEF CycleInv, CycleTyped
<1>3. mail' \in [Fleet -> Mail] /\ MailsAtHand' /\ SummariesFit'
  BY <1>1, <1>2, NoMailSteps
<1>4. /\ owed' \in [Fleet -> SUBSET Cycle!Timers]
      /\ dropped' \in [Fleet -> SUBSET Cycle!Kinds]
      /\ \A q \in Fleet \ {p} : dropped'[q] = dropped[q]
      /\ dropped'[p] \cap clock[p] = {}
      /\ dropped[p] \subseteq dropped'[p]
      /\ Head(work[p]) \in owed'[p] => Head(work[p]) \in Noted(p)'
  BY <1>1, DropFits
<1> QED BY <1>1, <1>3, <1>4, TaskOver

LEMMA PerformFits == ASSUME CycleInv, NEW p \in Fleet, Cycle!Perform(p) PROVE CycleInv'
<1>1. /\ p \in running /\ work[p] # <<>> /\ work' = [work EXCEPT ![p] = Tail(@)]
      /\ Head(work[p]) \in Cycle!Kinds
      /\ owed' = [owed EXCEPT ![p] = @ \ {Head(work[p])}]
      /\ dropped' = [dropped EXCEPT ![p] = @ \ {Head(work[p])}]
      /\ now' = now /\ loop' = loop /\ shutdown' = shutdown
      /\ UNCHANGED <<item, clock, queued, running>> /\ mail' = mail
  BY DEF Cycle!Perform
<1>2. \A q \in Fleet \ {p} : (q \in running' <=> q \in running) /\ work'[q] = work[q]
  BY <1>1 DEF CycleInv, CycleTyped
<1>3. mail[p].step = "none"
  BY <1>1 DEF CycleInv, CycleTyped, Mail, MailsAtHand, AtHand, Cycle!Kinds, Cycle!Timers
<1>4. mail' \in [Fleet -> Mail] /\ MailsAtHand' /\ SummariesFit'
  BY <1>1, <1>2, <1>3, NoMailSteps
<1>5. PICK h : h = Head(work[p])
  OBVIOUS
<1>6. /\ owed' \in [Fleet -> SUBSET Cycle!Timers]
      /\ \A q \in Fleet : owed'[q] \subseteq owed[q] /\ h \notin owed'[p]
  BY <1>1, <1>5 DEF CycleInv, CycleTyped
<1>7. /\ dropped' \in [Fleet -> SUBSET Cycle!Kinds] /\ dropped'[p] = dropped[p] \ {h}
      /\ \A q \in Fleet \ {p} : dropped'[q] = dropped[q]
  BY <1>1, <1>5 DEF CycleInv, CycleTyped
<1>8. dropped'[p] \cap clock[p] = {} /\ dropped[p] \subseteq dropped'[p] \cup {h}
  BY <1>7 DEF CycleInv, DroppedFits
<1> QED BY <1>1, <1>4, <1>5, <1>6, <1>7, <1>8, TaskOver

LEMMA FinishFits == ASSUME CycleInv, NEW p \in Fleet, Cycle!Finish(p) PROVE CycleInv'
<1>1. /\ p \in running /\ work[p] = <<>> /\ running' = running \ {p}
      /\ now' = now /\ loop' = loop /\ shutdown' = shutdown /\ item' = item /\ clock' = clock
      /\ queued' = queued /\ work' = work /\ mail' = mail /\ owed' = owed /\ dropped' = dropped
  BY DEF Cycle!Finish
<1>2. CycleTyped' /\ p \notin running'
  BY <1>1 DEF CycleInv, CycleTyped
<1>3. mail[p].step = "none"
  BY <1>1 DEF CycleInv, MailsAtHand, AtHand
<1>4. \A q \in Fleet \ {p} : (q \in running' <=> q \in running) /\ work'[q] = work[q]
  BY <1>1
<1>5. MailsAtHand' /\ SummariesFit'
  BY <1>1, <1>3, <1>4, NoMailSteps
<1>6. Left(p) = {}
  BY <1>1 DEF Left, Range
<1>7. loop.at # "down" => \A k \in owed'[p] : k \in Noted(p)'
  BY <1>1, <1>6 DEF CycleInv, OwedFits, Noted
<1>8. dropped'[p] \cap clock'[p] = {}
  BY <1>1 DEF CycleInv, DroppedFits
<1>9. \A q \in Fleet \ {p} : /\ q \in running' <=> q \in running
                             /\ work'[q] = work[q] /\ owed'[q] \subseteq owed[q]
                             /\ clock'[q] = clock[q] /\ dropped'[q] = dropped[q]
  BY <1>1
<1>10. \A q \in Fleet : q \in queued' \/ q \in running' => q \in queued \/ q \in running
  BY <1>1
<1>11. PoolOrder' /\ WorkFits' /\ OwedFits' /\ DroppedFits'
  BY <1>1, <1>2, <1>7, <1>8, <1>9, <1>10, ThreadSteps
<1> QED BY <1>2, <1>5, <1>11 DEF CycleInv

LEMMA FailFits == ASSUME CycleInv, NEW p \in Fleet, Cycle!Fail(p) PROVE CycleInv'
<1>1. /\ p \in running /\ running' = running \ {p} /\ work' = [work EXCEPT ![p] = <<>>]
      /\ mail[p].step = "none"
      /\ clock' = [clock EXCEPT ![p] = @ \cup (item[p] \cap Cycle!Timers)]
      /\ dropped' = [dropped EXCEPT ![p] = Cycle!Untaken(p)]
      /\ now' = now /\ loop' = loop /\ shutdown' = shutdown /\ item' = item
      /\ queued' = queued /\ mail' = mail /\ owed' = owed
  BY DEF Cycle!Fail
<1>2. CycleTyped /\ <<>> \in Seq(TaskNames) /\ p \notin running'
  BY <1>1, EmptySeq DEF CycleInv
<1>3. /\ clock'[p] = clock[p] \cup (item[p] \cap Cycle!Timers)
      /\ clock' \in [Fleet -> SUBSET Cycle!Timers]
      /\ \A q \in Fleet \ {p} : clock'[q] = clock[q]
  BY <1>1, <1>2 DEF CycleTyped
<1>4. work' \in [Fleet -> Seq(TaskNames)] /\ \A q \in Fleet \ {p} : work'[q] = work[q]
  BY <1>1, <1>2 DEF CycleTyped
<1>5. /\ dropped[p] \ (item[p] \cap Cycle!Timers) \subseteq Cycle!Untaken(p)
      /\ Cycle!Untaken(p) \subseteq
            (dropped[p] \ (item[p] \cap Cycle!Timers)) \cup {"snapshot"}
  BY DEF Cycle!Untaken
<1>6. /\ dropped'[p] = Cycle!Untaken(p) /\ \A q \in Fleet \ {p} : dropped'[q] = dropped[q]
      /\ dropped' \in [Fleet -> SUBSET Cycle!Kinds]
  <2>1. Cycle!Untaken(p) \subseteq Cycle!Kinds
    BY <1>2, <1>5 DEF CycleTyped, Cycle!Kinds
  <2> QED BY <1>1, <1>2, <2>1 DEF CycleTyped
<1>7. CycleTyped'
  <2>1. running' \subseteq Fleet /\ queued' \cap running' = {}
    BY <1>1, <1>2 DEF CycleTyped
  <2> QED BY <1>1, <1>2, <1>3, <1>4, <1>6, <2>1 DEF CycleTyped
<1>8. \A q \in Fleet \ {p} : q \in running' <=> q \in running
  BY <1>1
<1>9. MailsAtHand' /\ SummariesFit'
  BY <1>1, <1>4, <1>8, NoMailSteps
<1>10. loop.at # "down" => \A k \in owed'[p] : k \in Noted(p)'
  <2> SUFFICES ASSUME loop.at # "down", NEW k \in owed[p] PROVE k \in Noted(p)'
    BY <1>1
  <2>1. k \in Cycle!Timers /\ (k \in clock[p] \/ k \in dropped[p] \/ k \in Left(p))
    BY <1>2 DEF CycleInv, CycleTyped, OwedFits, Noted
  <2>2. Left(p) \cap Cycle!Timers \subseteq item[p]
    BY <1>1 DEF CycleInv, WorkFits
  <2> QED BY <1>3, <1>5, <1>6, <2>1, <2>2 DEF Noted
<1>11. dropped'[p] \cap clock'[p] = {}
  <2>1. dropped[p] \cap clock[p] = {} /\ clock[p] \subseteq Cycle!Timers
    BY <1>2 DEF CycleInv, DroppedFits, CycleTyped
  <2>2. "snapshot" \notin Cycle!Timers
    BY DEF Cycle!Timers
  <2> QED BY <1>3, <1>5, <1>6, <2>1, <2>2
<1>12. \A q \in Fleet \ {p} : /\ q \in running' <=> q \in running
                              /\ work'[q] = work[q] /\ owed'[q] \subseteq owed[q]
                              /\ clock'[q] = clock[q] /\ dropped'[q] = dropped[q]
  BY <1>1, <1>3, <1>4, <1>6
<1>13. \A q \in Fleet : q \in queued' \/ q \in running' => q \in queued \/ q \in running
  BY <1>1
<1>14. PoolOrder' /\ WorkFits' /\ OwedFits' /\ DroppedFits'
  BY <1>1, <1>2, <1>10, <1>11, <1>12, <1>13, ThreadSteps
<1> QED BY <1>7, <1>9, <1>14 DEF CycleInv

-----------------------------------------------------------------------------
(* The mails.                                                                *)

LEMMA RaiseFits == ASSUME CycleInv, NEW p \in Fleet, Cycle!Raise(p) PROVE CycleInv'
<1>1. /\ p \in running /\ work[p] # <<>> /\ work' = [work EXCEPT ![p] = Tail(@)]
      /\ mail[p].step # "sending" /\ mail' = [mail EXCEPT ![p].step = "none"] /\ Cycle!Drop(p)
      /\ now' = now /\ loop' = loop /\ shutdown' = shutdown
      /\ UNCHANGED <<item, clock, queued, running>> /\ owed' = owed
  BY DEF Cycle!Raise
<1>2. \A q \in Fleet \ {p} : (q \in running' <=> q \in running) /\ work'[q] = work[q]
  BY <1>1 DEF CycleInv, CycleTyped
<1>3. PICK n \in Mail : n = mail[p] /\ MailFits(n)
  BY MailOf
<1>4. PICK m \in Mail : /\ m = [n EXCEPT !.step = "none"] /\ m.step = "none"
                        /\ m.date = n.date /\ m.sent = n.sent /\ m.lost = n.lost
  <2>1. PICK m : m = [n EXCEPT !.step = "none"]
    OBVIOUS
  <2>2. m \in Mail /\ m.step = "none" /\ m.date = n.date /\ m.sent = n.sent
     /\ m.lost = n.lost
    BY <2>1 DEF Mail
  <2> QED BY <2>1, <2>2
<1>5. mail' = [mail EXCEPT ![p] = m] /\ MailFits(m)
  <2>1. mail' = [mail EXCEPT ![p] = m]
    BY <1>1, <1>3, <1>4, MailOf
  <2>2. MailFits(m)
    BY <1>1, <1>3, <1>4 DEF MailFits, Out
  <2> QED BY <2>1, <2>2
<1>6. mail' \in [Fleet -> Mail] /\ MailsAtHand' /\ SummariesFit'
  BY <1>1, <1>2, <1>4, <1>5, MailSteps
<1>7. /\ owed' \in [Fleet -> SUBSET Cycle!Timers]
      /\ dropped' \in [Fleet -> SUBSET Cycle!Kinds]
      /\ \A q \in Fleet \ {p} : dropped'[q] = dropped[q]
      /\ dropped'[p] \cap clock[p] = {}
      /\ dropped[p] \subseteq dropped'[p]
      /\ Head(work[p]) \in owed'[p] => Head(work[p]) \in Noted(p)'
  BY <1>1, DropFits
<1> QED BY <1>1, <1>6, <1>7, TaskOver

\* The mail task is over: it is in no clock.
LEMMA SummaryOver ==
    ASSUME CycleInv, NEW p \in Fleet, p \in running, work[p] # <<>>, Head(work[p]) = "summary",
           work' = [work EXCEPT ![p] = Tail(@)],
           now' = now, loop' = loop, shutdown' = shutdown,
           UNCHANGED <<item, clock, queued, running>>,
           mail' \in [Fleet -> Mail], MailsAtHand', SummariesFit',
           owed' = owed, dropped' = dropped
    PROVE  CycleInv'
<1>1. /\ owed' \in [Fleet -> SUBSET Cycle!Timers] /\ dropped' \in [Fleet -> SUBSET Cycle!Kinds]
      /\ "summary" \notin owed'[p] /\ dropped'[p] \cap clock[p] = {}
  BY DEF CycleInv, CycleTyped, DroppedFits, Cycle!Timers
<1> QED BY <1>1, TaskOver

\* The mail moves on, and its task goes on.
LEMMA OnlyMails ==
    ASSUME CycleInv, now' = now, loop' = loop, shutdown' = shutdown,
           UNCHANGED <<clock, owed, dropped, item, queued, running, work>>,
           mail' \in [Fleet -> Mail], MailsAtHand', SummariesFit'
    PROVE  CycleInv'
<1>1. CycleTyped'
  BY DEF CycleInv, CycleTyped
<1>2. PoolOrder' /\ WorkFits'
  BY PoolKept, WorkKept DEF Left
<1>3. OwedFits' /\ DroppedFits'
  BY DEF CycleInv, OwedFits, DroppedFits, Noted, Left
<1> QED BY <1>1, <1>2, <1>3 DEF CycleInv

LEMMA CheckMailFits == ASSUME CycleInv, NEW p \in Fleet, Cycle!CheckMail(p) PROVE CycleInv'
<1>1. /\ p \in running /\ work[p] # <<>> /\ Head(work[p]) = "summary"
      /\ mail[p].step = "none"
      /\ now' = now /\ loop' = loop /\ shutdown' = shutdown
      /\ UNCHANGED <<item, clock, queued, running>> /\ owed' = owed /\ dropped' = dropped
  BY DEF Cycle!CheckMail
<1>2. \/ work' = [work EXCEPT ![p] = Tail(@)] /\ mail' = mail
      \/ /\ mail[p].date # now.day
         /\ mail' = [mail EXCEPT ![p].step = "unsent"] /\ work' = work
  BY DEF Cycle!CheckMail
<1>3. CASE work' = [work EXCEPT ![p] = Tail(@)] /\ mail' = mail
  <2>1. \A q \in Fleet \ {p} : (q \in running' <=> q \in running) /\ work'[q] = work[q]
    BY <1>1, <1>3 DEF CycleInv, CycleTyped
  <2>2. mail' \in [Fleet -> Mail] /\ MailsAtHand' /\ SummariesFit'
    BY <1>1, <1>3, <2>1, NoMailSteps
  <2> QED BY <1>1, <1>3, <2>2, SummaryOver
<1>4. CASE /\ mail[p].date # now.day
           /\ mail' = [mail EXCEPT ![p].step = "unsent"] /\ work' = work
  <2>0. PICK n \in Mail : n = mail[p] /\ MailFits(n)
    BY MailOf
  <2>1. PICK m \in Mail : /\ m = [n EXCEPT !.step = "unsent"] /\ m.step = "unsent"
                          /\ m.date = n.date /\ m.sent = n.sent /\ m.lost = n.lost
    <3>1. PICK m : m = [n EXCEPT !.step = "unsent"]
      OBVIOUS
    <3>2. m \in Mail /\ m.step = "unsent" /\ m.date = n.date /\ m.sent = n.sent
       /\ m.lost = n.lost
      BY <3>1 DEF Mail
    <3> QED BY <3>1, <3>2
  <2>2. mail' = [mail EXCEPT ![p] = m]
    BY <1>4, <2>0, <2>1, MailOf
  <2>3. MailFits(m)
    BY <1>1, <1>4, <2>0, <2>1 DEF MailFits, Out
  <2>4. AtHand(p)' /\ \A q \in Fleet \ {p} : (q \in running' <=> q \in running) /\ work'[q] = work[q]
    BY <1>1, <1>4 DEF AtHand
  <2>5. mail' \in [Fleet -> Mail] /\ MailsAtHand' /\ SummariesFit'
    BY <1>1, <2>2, <2>3, <2>4, MailSteps
  <2> QED BY <1>1, <1>4, <2>5, OnlyMails
<1> QED BY <1>2, <1>3, <1>4

LEMMA SendMailFits == ASSUME CycleInv, NEW p \in Fleet, Cycle!SendMail(p) PROVE CycleInv'
<1>1. /\ mail[p].step = "unsent"
      /\ now' = now /\ loop' = loop /\ shutdown' = shutdown
      /\ UNCHANGED <<clock, owed, dropped, item, queued, running, work>>
  BY DEF Cycle!SendMail, Cycle!pool
<1>2. PICK n \in Mail : n = mail[p] /\ MailFits(n)
  BY MailOf
<1>3. PICK m \in Mail : /\ mail' = [mail EXCEPT ![p] = m] /\ m.step = "sending"
                        /\ m.date = n.date /\ m.lost = n.lost
                        /\ m.sent = n.sent \/ m.sent = n.sent + 1
  <2>1. CASE mail' = [mail EXCEPT ![p].step = "sending", ![p].sent = @ + 1]
    <3>1. PICK k \in Nat : k = n.sent + 1
      BY MailNumbers
    <3>2. PICK m \in Mail : /\ m = [n EXCEPT !.step = "sending", !.sent = k]
                            /\ m.step = "sending" /\ m.date = n.date /\ m.lost = n.lost
                            /\ m.sent = k
      <4>1. PICK m : m = [n EXCEPT !.step = "sending", !.sent = k]
        OBVIOUS
      <4>2. m \in Mail /\ m.step = "sending" /\ m.date = n.date /\ m.sent = k
         /\ m.lost = n.lost
        BY <4>1 DEF Mail
      <4> QED BY <4>1, <4>2
    <3>3. mail' = [mail EXCEPT ![p] = m]
      BY <1>2, <2>1, <3>1, <3>2, MailOf
    <3> QED BY <3>1, <3>2, <3>3
  <2>2. CASE mail' = [mail EXCEPT ![p].step = "sending"]
    <3>1. PICK m \in Mail : /\ m = [n EXCEPT !.step = "sending"]
                            /\ m.step = "sending" /\ m.date = n.date /\ m.lost = n.lost
                            /\ m.sent = n.sent
      <4>1. PICK m : m = [n EXCEPT !.step = "sending"]
        OBVIOUS
      <4>2. m \in Mail /\ m.step = "sending" /\ m.date = n.date /\ m.sent = n.sent
         /\ m.lost = n.lost
        BY <4>1 DEF Mail
      <4> QED BY <4>1, <4>2
    <3>2. mail' = [mail EXCEPT ![p] = m]
      BY <1>2, <2>2, <3>1, MailOf
    <3> QED BY <3>1, <3>2
  <2> QED BY <2>1, <2>2 DEF Cycle!SendMail
<1>5. MailFits(m)
  <2>1. n.date # now.day /\ n.sent <= n.lost /\ n.sent \in Nat /\ n.lost \in Nat
    BY <1>1, <1>2, MailNumbers DEF MailFits, Out
  <2> QED BY <1>2, <1>3, <2>1 DEF MailFits, Out
<1>6. AtHand(p)'
  BY <1>1, MailOf DEF AtHand
<1>7. mail' \in [Fleet -> Mail] /\ MailsAtHand' /\ SummariesFit'
  BY <1>1, <1>3, <1>5, <1>6, MailSteps
<1> QED BY <1>1, <1>7, OnlyMails

LEMMA MarkMailFits == ASSUME CycleInv, NEW p \in Fleet, Cycle!MarkMail(p) PROVE CycleInv'
<1>1. /\ mail[p].step = "sending" /\ work' = [work EXCEPT ![p] = Tail(@)]
      /\ now' = now /\ loop' = loop /\ shutdown' = shutdown
      /\ UNCHANGED <<item, clock, queued, running>> /\ owed' = owed /\ dropped' = dropped
  BY DEF Cycle!MarkMail
<1>2. PICK n \in Mail : n = mail[p] /\ MailFits(n) /\ now.day \in Nat
  BY MailOf
<1>3. PICK m \in Mail : /\ mail' = [mail EXCEPT ![p] = m] /\ m.step = "none" /\ m.sent = n.sent
                        /\ \/ m.date = now.day /\ m.lost = n.lost
                           \/ m.date = n.date /\ m.lost = n.lost + 1
  <2>1. CASE mail' = [mail EXCEPT ![p].step = "none", ![p].date = now.day]
    <3>1. PICK d \in Nat : d = now.day
      BY <1>2
    <3>2. PICK m \in Mail : /\ m = [n EXCEPT !.step = "none", !.date = d]
                            /\ m.step = "none" /\ m.date = d /\ m.lost = n.lost
                            /\ m.sent = n.sent
      <4>1. PICK m : m = [n EXCEPT !.step = "none", !.date = d]
        OBVIOUS
      <4>2. m \in Mail /\ m.step = "none" /\ m.date = d /\ m.sent = n.sent
         /\ m.lost = n.lost
        BY <4>1 DEF Mail
      <4> QED BY <4>1, <4>2
    <3>3. mail' = [mail EXCEPT ![p] = m]
      BY <1>2, <2>1, <3>1, <3>2, MailOf
    <3> QED BY <3>1, <3>2, <3>3
  <2>2. CASE mail' = [mail EXCEPT ![p].step = "none", ![p].lost = @ + 1]
    <3>1. PICK k \in Nat : k = n.lost + 1
      BY MailNumbers
    <3>2. PICK m \in Mail : /\ m = [n EXCEPT !.step = "none", !.lost = k]
                            /\ m.step = "none" /\ m.date = n.date /\ m.lost = k
                            /\ m.sent = n.sent
      <4>1. PICK m : m = [n EXCEPT !.step = "none", !.lost = k]
        OBVIOUS
      <4>2. m \in Mail /\ m.step = "none" /\ m.date = n.date /\ m.sent = n.sent
         /\ m.lost = k
        BY <4>1 DEF Mail
      <4> QED BY <4>1, <4>2
    <3>3. mail' = [mail EXCEPT ![p] = m]
      BY <1>2, <2>2, <3>1, <3>2, MailOf
    <3> QED BY <3>1, <3>2, <3>3
  <2> QED BY <2>1, <2>2 DEF Cycle!MarkMail
<1>4. MailFits(m)
  <2>1. n.date <= now.day /\ n.sent <= n.lost + 1 /\ n.sent \in Nat /\ n.lost \in Nat
    BY <1>1, <1>2, MailNumbers DEF MailFits, Out
  <2> QED BY <1>2, <1>3, <2>1 DEF MailFits, Out
<1>5. p \in running /\ work[p] # <<>> /\ Head(work[p]) = "summary"
  BY <1>1, MailOf
<1>6. \A q \in Fleet \ {p} : (q \in running' <=> q \in running) /\ work'[q] = work[q]
  BY <1>1 DEF CycleInv, CycleTyped
<1>7. mail' \in [Fleet -> Mail] /\ MailsAtHand' /\ SummariesFit'
  BY <1>1, <1>3, <1>4, <1>6, MailSteps
<1> QED BY <1>1, <1>5, <1>7, SummaryOver

LEMMA CrashFitsLoop == ASSUME CycleInv, Cycle!Crash PROVE CycleInv'
<1>1. /\ loop' = Cycle!At("down", 0, "none", FALSE) /\ now' = now /\ shutdown' = shutdown
      /\ clock' = clock /\ owed' = owed /\ dropped' = dropped /\ item' = [p \in Fleet |-> {}]
      /\ queued' = {} /\ running' = {} /\ work' = [p \in Fleet |-> <<>>]
      /\ mail' = [p \in Fleet |->
                    [mail[p] EXCEPT !.step = "none",
                                    !.lost = IF mail[p].step = "sending" THEN @ + 1 ELSE @]]
  BY DEF Cycle!Crash, Cycle!NoItem, Cycle!NoWork, Cycle!day
<1>2. CycleTyped /\ <<>> \in Seq(TaskNames)
  BY EmptySeq DEF CycleInv
<1>3. ASSUME NEW p \in Fleet
      PROVE  mail'[p] \in Mail /\ mail'[p].step = "none" /\ MailFits(mail'[p])
  <2>1. PICK n \in Mail : n = mail[p] /\ MailFits(n)
    BY MailOf
  <2>2. PICK k \in Nat : k = IF n.step = "sending" THEN n.lost + 1 ELSE n.lost
    BY MailNumbers
  <2>3. mail'[p] = [n EXCEPT !.step = "none", !.lost = k]
    BY <1>1, <2>1, <2>2
  <2>4. PICK m \in Mail : /\ m = [n EXCEPT !.step = "none", !.lost = k] /\ m.step = "none"
                          /\ m.date = n.date /\ m.lost = k /\ m.sent = n.sent
    <3>1. PICK m : m = [n EXCEPT !.step = "none", !.lost = k]
      OBVIOUS
    <3>2. m \in Mail /\ m.step = "none" /\ m.date = n.date /\ m.sent = n.sent
       /\ m.lost = k
      BY <3>1 DEF Mail
    <3> QED BY <3>1, <3>2
  <2>5. MailFits(m)
    <3>1. n.date <= now.day /\ n.sent \in Nat /\ n.lost \in Nat
      BY <2>1, MailNumbers DEF MailFits
    <3> QED BY <2>1, <2>2, <2>4, <3>1 DEF MailFits, Out
  <2> QED BY <2>3, <2>4, <2>5
<1>4. loop'.at = "down"
      /\ loop' \in [at : Places, day : Nat, phase : {"none", "open", "late", "closed"},
                    snap : BOOLEAN]
  BY <1>1 DEF Cycle!At, Places
<1>5. CycleTyped'
  <2>1. mail' \in [Fleet -> Mail]
    BY <1>1, <1>3
  <2>2. work' \in [Fleet -> Seq(TaskNames)] /\ item' \in [Fleet -> SUBSET Cycle!Kinds]
    BY <1>1, <1>2
  <2> QED BY <1>1, <1>2, <1>4, <2>1, <2>2 DEF CycleTyped
<1>6. PoolOrder' /\ WorkFits'
  BY <1>1 DEF PoolOrder, WorkFits
<1>7. OwedFits' /\ DroppedFits'
  BY <1>1, <1>4 DEF CycleInv, OwedFits, DroppedFits
<1>8. MailsAtHand'
  BY <1>3 DEF MailsAtHand
<1>9. SummariesFit'
  BY <1>1, <1>3 DEF SummariesFit, MailFits, Out
<1> QED BY <1>5, <1>6, <1>7, <1>8, <1>9 DEF CycleInv

-----------------------------------------------------------------------------
LEMMA LoopStep == CycleInv /\ [Next]_vars => CycleInv'
<1> SUFFICES ASSUME CycleInv, [Next]_vars PROVE CycleInv'
  OBVIOUS
<1>1. [Cycle!Next]_Cycle!vars
  BY CycleMoves
<1>2. CASE UNCHANGED Cycle!vars
  <2>1. /\ now' = now /\ loop' = loop /\ shutdown' = shutdown
        /\ UNCHANGED <<clock, owed, dropped, item, queued, running, work, mail>>
    BY <1>2 DEF Cycle!vars, Cycle!pool, Cycle!day
  <2>2. CycleTyped'
    BY <2>1 DEF CycleInv, CycleTyped
  <2> QED BY <2>1, <2>2, NothingDone
<1>3. CASE Cycle!Next
  <2>1. ASSUME NEW p \in Fleet,
               \E kinds \in {Cycle!Timers, {"exits"}} : Cycle!Elapse(p, kinds)
        PROVE  CycleInv'
    <3>1. PICK kinds \in {Cycle!Timers, {"exits"}} : Cycle!Elapse(p, kinds)
      BY <2>1
    <3>2. kinds \in SUBSET Cycle!Timers
      BY DEF Cycle!Timers
    <3> QED BY <3>1, <3>2, ElapseFits
  <2>2. ASSUME NEW p \in Fleet,
               \/ Cycle!Start(p) \/ Cycle!Skip(p) \/ Cycle!Perform(p) \/ Cycle!CheckMail(p)
               \/ Cycle!Finish(p) \/ Cycle!SendMail(p) \/ Cycle!MarkMail(p)
               \/ Cycle!Raise(p) \/ Cycle!Fail(p)
        PROVE  CycleInv'
    BY <2>2, StartFits, SkipFits, PerformFits, CheckMailFits, FinishFits, SendMailFits,
       MarkMailFits, RaiseFits, FailFits
  <2>3. ASSUME \/ Cycle!Later \/ Cycle!NewDay \/ Cycle!Iterate \/ Cycle!ScanPass
               \/ Cycle!Persist \/ Cycle!MissedSnapshot
               \/ Cycle!Stamp \/ Cycle!BreakMissed \/ Cycle!Wake
        PROVE  CycleInv'
    BY <2>3, LaterFits, NewDayFits, IterateFits, ScanPassFits, PersistFits,
       MissedSnapshotFits, LoopMoves
  <2>4. ASSUME Cycle!Signal \/ Cycle!Stop \/ Cycle!Crash \/ Cycle!Restart PROVE CycleInv'
    BY <2>4, SignalFits, StopFits, CrashFitsLoop, RestartFitsLoop
  <2> QED BY <1>3, <2>1, <2>2, <2>3, <2>4 DEF Cycle!Next
<1> QED BY <1>1, <1>2, <1>3

LEMMA CycleTruth == CycleInv => CycleInOrder
<1> SUFFICES ASSUME CycleInv PROVE CycleInOrder
  OBVIOUS
<1>1. Cycle!ExitsBeforeScans
  <2> SUFFICES ASSUME NEW p \in running, "scan" \in item[p], NEW q \in queued \cup running
               PROVE  "scan" \in item[q]
    BY DEF Cycle!ExitsBeforeScans
  <2>1. p \in Fleet /\ q \in Fleet
    BY DEF CycleInv, CycleTyped
  <2>2. OfPass(loop.at, item[p]) /\ OfPass(loop.at, item[q])
    BY <2>1 DEF CycleInv, PoolOrder
  <2> QED BY <2>2 DEF OfPass
<1>2. Cycle!NothingForgotten
  <2> SUFFICES ASSUME loop.at # "down", NEW p \in Fleet
               PROVE  /\ owed[p] \subseteq clock[p] \cup dropped[p] \cup
                                           (IF p \in running THEN item[p] ELSE {})
                      /\ dropped[p] \cap clock[p] = {}
    BY DEF Cycle!NothingForgotten
  <2>1. ASSUME NEW k \in owed[p], k \notin clock[p] \cup dropped[p]
        PROVE  p \in running /\ k \in item[p]
    <3>1. p \in running /\ k \in Left(p) /\ k \in Cycle!Timers
      BY <2>1 DEF CycleInv, CycleTyped, OwedFits, Noted
    <3> QED BY <3>1 DEF CycleInv, WorkFits
  <2>2. dropped[p] \cap clock[p] = {}
    BY DEF CycleInv, DroppedFits
  <2> QED BY <2>1, <2>2
<1>3. Cycle!SummaryOnce
  <2> SUFFICES ASSUME NEW p \in Fleet PROVE mail[p].sent <= 1 + mail[p].lost
    BY DEF Cycle!SummaryOnce
  <2>1. PICK n \in Mail : n = mail[p] /\ MailFits(n)
    BY MailOf
  <2>2. n.sent \in Nat /\ n.lost \in Nat /\ Out(n) \in {0, 1}
    BY MailNumbers DEF Out
  <2> QED BY <2>1, <2>2 DEF MailFits
<1> QED BY <1>1, <1>2, <1>3 DEF CycleInOrder

\* However intervals elapse, tasks raise, cycles and mails fail and the process is stopped,
\* killed and started again: no scan runs beside a profile that owes only exits; work that
\* is due is in the clocks or in hand, or was dropped by a task that raised or a shutdown,
\* until its interval elapses again; and a summary goes out once a day and once more for
\* each marker that was lost (main_loop, _run_one_profile, run_task,
\* _task_daily_summary_email).
THEOREM CyclesRunInOrder == Spec => []CycleInOrder
<1>1. Spec => []CycleInv
  BY CycleInit, LoopStep, PTL DEF Spec
<1> QED BY <1>1, CycleTruth, PTL

\* The dates the loop writes are days that have come.
DatesFit ==
    /\ now.day \in 1..LoopDays /\ loop.day \in 0..LoopDays
    /\ {last, marker} \subseteq 0..LoopDays
    /\ snapped \in [Fleet -> Nat] /\ \A p \in Fleet : snapped[p] <= now.day

\* A profile in the pool has work, and one that is not running has no task left.
PoolFits ==
    /\ Cardinality(running) <= PoolSize
    /\ \A p \in Fleet : /\ p \in queued \cup running => item[p] # {}
                        /\ work[p] # <<>> => p \in running

LEMMA PoolInit == Init => DatesFit /\ PoolFits
<1> SUFFICES ASSUME Init PROVE DatesFit /\ PoolFits
  OBVIOUS
<1>1. /\ now = [day |-> 1, phase |-> "open"] /\ loop = Cycle!At("top", 0, "none", FALSE)
      /\ last = 0 /\ marker = 0 /\ snapped = [p \in Fleet |-> 0]
      /\ queued = {} /\ running = {} /\ work = [p \in Fleet |-> <<>>]
  BY DEF Init, Cycle!Init, Cycle!NoWork
<1>2. {LoopDays, PoolSize} \subseteq Nat \ {0}
  BY ServicesAssumption DEF Cycle!LoopAssumption
<1>3. DatesFit
  BY <1>1, <1>2 DEF DatesFit, Cycle!At
<1>4. PoolFits
  BY <1>1, <1>2, CycleAssumed DEF PoolFits
<1> QED BY <1>3, <1>4

LEMMA DatesStay == CycleInv /\ DatesFit /\ Cycle!Next => DatesFit'
<1> SUFFICES ASSUME CycleInv, DatesFit, Cycle!Next PROVE DatesFit'
  OBVIOUS
<1>1. /\ now \in [day : Nat, phase : {"open", "late", "closed"}]
      /\ loop \in [at : Places, day : Nat, phase : {"none", "open", "late", "closed"},
                   snap : BOOLEAN]
      /\ LoopDays \in Nat \ {0}
  BY ServicesAssumption DEF CycleInv, CycleTyped, Cycle!LoopAssumption
<1>2. ASSUME UNCHANGED <<now, loop, last, marker, snapped>> PROVE DatesFit'
  BY <1>2 DEF DatesFit
<1>3. ASSUME NEW p \in Fleet,
             \/ \E kinds \in {Cycle!Timers, {"exits"}} : Cycle!Elapse(p, kinds)
             \/ Cycle!Start(p) \/ Cycle!Skip(p) \/ Cycle!CheckMail(p) \/ Cycle!Finish(p)
             \/ Cycle!SendMail(p) \/ Cycle!MarkMail(p) \/ Cycle!Raise(p) \/ Cycle!Fail(p)
      PROVE  DatesFit'
  BY <1>2, <1>3 DEF Cycle!Elapse, Cycle!Start, Cycle!Skip, Cycle!CheckMail, Cycle!Finish,
     Cycle!SendMail, Cycle!MarkMail, Cycle!Raise, Cycle!Fail, Cycle!day
<1>4. ASSUME NEW p \in Fleet, Cycle!Perform(p) PROVE DatesFit'
  <2>1. /\ UNCHANGED <<now, loop, last, marker>>
        /\ snapped' = snapped \/ snapped' = [snapped EXCEPT ![p] = now.day]
    BY <1>4 DEF Cycle!Perform, Cycle!day
  <2>2. now.day \in Nat /\ now'.day = now.day
    BY <1>1, <2>1
  <2>3. snapped' \in [Fleet -> Nat] /\ \A q \in Fleet : snapped'[q] <= now.day
    BY <2>1, <2>2 DEF DatesFit
  <2> QED BY <2>1, <2>2, <2>3 DEF DatesFit
<1>5. CASE Cycle!Later
  <2>1. /\ UNCHANGED <<loop, last, marker, snapped>> /\ now'.day = now.day
    BY <1>1, <1>5 DEF Cycle!Later, Cycle!day
  <2> QED BY <2>1 DEF DatesFit
<1>6. CASE Cycle!NewDay
  <2>1. /\ UNCHANGED <<loop, last, marker, snapped>>
        /\ now' = [day |-> now.day + 1, phase |-> "open"] /\ now.day < LoopDays
    BY <1>6 DEF Cycle!NewDay, Cycle!day
  <2>2. now'.day = now.day + 1 /\ now.day \in Nat
    BY <1>1, <2>1
  <2>3. \A p \in Fleet : snapped[p] <= now.day + 1
    BY <2>2 DEF DatesFit
  <2> QED BY <1>1, <2>1, <2>2, <2>3 DEF DatesFit
<1>7. CASE Cycle!Iterate
  <2>1. UNCHANGED <<now, last, marker, snapped>> /\ loop'.day = now.day
    BY <1>7 DEF Cycle!Iterate, Cycle!At, Cycle!day
  <2> QED BY <1>1, <2>1 DEF DatesFit
<1>8. CASE Cycle!ScanPass \/ Cycle!BreakMissed \/ Cycle!MissedSnapshot \/ Cycle!Wake \/ Cycle!Signal
  <2>1. /\ UNCHANGED <<now, last, marker, snapped>>
        /\ \/ loop' = loop
           \/ loop' = [loop EXCEPT !.at = "scans"]
           \/ loop' = [loop EXCEPT !.at = "missed", !.snap = TRUE]
           \/ loop' = [loop EXCEPT !.at = "top"]
    BY <1>8 DEF Cycle!ScanPass, Cycle!BreakMissed, Cycle!MissedSnapshot, Cycle!Wake, Cycle!Signal,
       Cycle!day
  <2>2. loop'.day = loop.day
    BY <1>1, <2>1
  <2> QED BY <2>1, <2>2 DEF DatesFit
<1>9. CASE Cycle!Stamp
  <2>1. UNCHANGED <<now, loop, marker, snapped>> /\ last' = loop.day
    BY <1>9 DEF Cycle!Stamp
  <2> QED BY <2>1 DEF DatesFit
<1>10. CASE Cycle!Persist
  <2>1. /\ UNCHANGED <<now, last, snapped>> /\ marker' \in {last, marker}
        /\ \E place \in Places : loop' = [loop EXCEPT !.at = place]
    BY <1>10 DEF Cycle!Persist, Cycle!WriteMarker, Places
  <2>2. loop'.day = loop.day
    BY <1>1, <2>1
  <2> QED BY <2>1, <2>2 DEF DatesFit
<1>11. CASE Cycle!Stop \/ Cycle!Crash
  <2>1. UNCHANGED <<now, last, marker, snapped>> /\ loop' = Cycle!At("down", 0, "none", FALSE)
    <3>1. CASE Cycle!Stop
      BY <3>1 DEF Cycle!Stop, Cycle!day
    <3>2. CASE Cycle!Crash
      BY <3>2 DEF Cycle!Crash, Cycle!day
    <3> QED BY <1>11, <3>1, <3>2
  <2>2. loop'.day = 0
    BY <2>1 DEF Cycle!At
  <2>3. 0 \in 0..LoopDays
    BY <1>1
  <2>4. loop'.day \in 0..LoopDays
    BY <2>2, <2>3
  <2>5. /\ now' = now /\ last' = last /\ marker' = marker /\ snapped' = snapped
    BY <2>1
  <2> QED BY <2>4, <2>5 DEF DatesFit
<1>12. CASE Cycle!Restart
  <2>1. UNCHANGED <<now, marker, snapped>> /\ loop'.day = 0 /\ last' = marker
    BY <1>12 DEF Cycle!Restart, Cycle!At
  <2> QED BY <1>1, <2>1 DEF DatesFit
<1> QED BY <1>3, <1>4, <1>5, <1>6, <1>7, <1>8, <1>9, <1>10, <1>11, <1>12 DEF Cycle!Next

LEMMA PoolStays == CycleInv /\ PoolFits /\ Cycle!Next => PoolFits'
<1> SUFFICES ASSUME CycleInv, PoolFits, Cycle!Next PROVE PoolFits'
  OBVIOUS
<1>1. /\ queued \subseteq Fleet /\ running \subseteq Fleet
      /\ work \in [Fleet -> Seq(TaskNames)] /\ item \in [Fleet -> SUBSET Cycle!Kinds]
      /\ PoolSize \in Nat \ {0}
  BY ServicesAssumption DEF CycleInv, CycleTyped, Cycle!LoopAssumption
<1>2. ASSUME UNCHANGED <<item, running, work>>, queued' \subseteq queued PROVE PoolFits'
  BY <1>2 DEF PoolFits
<1>3. ASSUME NEW p \in Fleet,
             \/ \E kinds \in {Cycle!Timers, {"exits"}} : Cycle!Elapse(p, kinds)
             \/ Cycle!SendMail(p)
      PROVE  PoolFits'
  BY <1>2, <1>3 DEF Cycle!Elapse, Cycle!SendMail, Cycle!pool
\* A task of a running profile's cycle is over.
<1>4. ASSUME NEW p \in running, UNCHANGED <<item, queued, running>>,
             work' = work \/ work' = [work EXCEPT ![p] = Tail(@)]
      PROVE  PoolFits'
  BY <1>1, <1>4 DEF PoolFits
<1>5. ASSUME NEW p \in Fleet,
             \/ Cycle!Skip(p) \/ Cycle!Perform(p) \/ Cycle!CheckMail(p) \/ Cycle!Raise(p)
      PROVE  PoolFits'
  BY <1>4, <1>5 DEF Cycle!Skip, Cycle!Perform, Cycle!CheckMail, Cycle!Raise
<1>6. ASSUME NEW p \in Fleet, Cycle!MarkMail(p) PROVE PoolFits'
  <2>1. p \in running
    BY <1>6 DEF Cycle!MarkMail, CycleInv, MailsAtHand, AtHand
  <2>2. UNCHANGED <<item, queued, running>> /\ work' = [work EXCEPT ![p] = Tail(@)]
    BY <1>6 DEF Cycle!MarkMail
  <2> QED BY <1>4, <2>1, <2>2
<1>7. ASSUME NEW p \in Fleet, Cycle!Start(p) PROVE PoolFits'
  <2>1. /\ p \in queued /\ queued' = queued \ {p} /\ running' = running \cup {p} /\ item' = item
        /\ work' = [work EXCEPT ![p] = Cycle!Tasks(item[p])]
        /\ Cardinality(running) < (IF loop.at = "missed" THEN 1 ELSE PoolSize)
    BY <1>7, CycleAssumed DEF Cycle!Start
  <2>2. IsFiniteSet(running) /\ Cardinality(running) \in Nat
    BY <1>1, CycleAssumed
  <2>3. Cardinality(running') <= Cardinality(running) + 1
    <3>1. p \notin running
      BY <2>1 DEF CycleInv, CycleTyped
    <3>2. Cardinality(running \cup {p}) = Cardinality(running) + 1
      BY <2>2, <3>1, FS_AddElement
    <3> QED BY <2>1, <2>2, <3>2
  <2>4. Cardinality(running') \in Nat
    BY <1>1, <2>1, CycleAssumed
  <2>5. Cardinality(running') <= PoolSize
    BY <1>1, <2>1, <2>2, <2>3, <2>4
  <2> QED BY <1>1, <2>1, <2>5 DEF PoolFits
\* A cycle is over.
<1>8. ASSUME NEW p \in Fleet, Cycle!Finish(p) \/ Cycle!Fail(p) PROVE PoolFits'
  <2>1. /\ p \in running /\ running' = running \ {p} /\ UNCHANGED <<item, queued>>
        /\ \/ work' = work /\ work[p] = <<>>
           \/ work' = [work EXCEPT ![p] = <<>>]
    BY <1>8 DEF Cycle!Finish, Cycle!Fail
  <2>2. work'[p] = <<>> /\ \A q \in Fleet \ {p} : work'[q] = work[q]
    BY <1>1, <2>1
  <2>3. IsFiniteSet(running) /\ Cardinality(running) \in Nat /\ Cardinality(running') \in Nat
        /\ Cardinality(running') <= Cardinality(running)
    BY <1>1, <2>1, CycleAssumed, FS_Subset
  <2> QED BY <1>1, <2>1, <2>2, <2>3 DEF PoolFits
<1>9. CASE Cycle!Later \/ Cycle!NewDay \/ Cycle!Stamp \/ Cycle!BreakMissed \/ Cycle!Wake
           \/ Cycle!Signal \/ Cycle!Stop \/ Cycle!Restart
  BY <1>2, <1>9 DEF Cycle!Later, Cycle!NewDay, Cycle!Stamp, Cycle!BreakMissed, Cycle!Wake,
     Cycle!Signal, Cycle!Stop, Cycle!Restart, Cycle!pool
\* A pass begins with the profiles that have work of it, or none does.
<1>10. ASSUME running = {}, UNCHANGED <<running, work>>, queued' \subseteq Fleet,
              \A p \in queued' : item'[p] # {}
       PROVE  PoolFits'
  BY <1>10 DEF PoolFits
<1>11. CASE Cycle!Iterate
  <2>1. running = {}
    BY <1>11, PoolIdle DEF Cycle!Iterate
  <2>2. /\ UNCHANGED <<running, work>> /\ queued' \subseteq Fleet
        /\ \A p \in queued' : item'[p] # {}
    BY <1>11 DEF Cycle!Iterate, Cycle!InPass
  <2> QED BY <1>10, <2>1, <2>2
<1>12. CASE Cycle!ScanPass
  <2>1. /\ running = {} /\ UNCHANGED <<running, work>> /\ queued' \subseteq Fleet
        /\ \A p \in queued' : item'[p] # {}
    BY <1>12 DEF Cycle!ScanPass, Cycle!InPass, Cycle!PoolDone
  <2> QED BY <1>10, <2>1
<1>13. CASE Cycle!Persist
  <2>1. running = {} /\ UNCHANGED <<running, work>> /\ queued' = {}
    BY <1>13 DEF Cycle!Persist, Cycle!PoolDone
  <2> QED BY <1>10, <2>1
<1>14. CASE Cycle!MissedSnapshot
  <2>1. running = {}
    BY <1>14, PoolIdle DEF Cycle!MissedSnapshot
  <2>2. /\ UNCHANGED <<running, work>> /\ queued' \subseteq Fleet
        /\ \A p \in queued' : item'[p] # {}
    BY <1>14 DEF Cycle!MissedSnapshot
  <2> QED BY <1>10, <2>1, <2>2
<1>15. CASE Cycle!Crash
  <2>1. queued' = {} /\ running' = {} /\ work' = [p \in Fleet |-> <<>>]
    BY <1>15 DEF Cycle!Crash, Cycle!NoWork
  <2> QED BY <1>1, <2>1, CycleAssumed DEF PoolFits
<1> QED BY <1>3, <1>5, <1>6, <1>7, <1>8, <1>9, <1>11, <1>12, <1>13, <1>14, <1>15
        DEF Cycle!Next

LEMMA DatesAndPool == CycleInv /\ DatesFit /\ PoolFits /\ [Next]_vars => (DatesFit /\ PoolFits)'
<1> SUFFICES ASSUME CycleInv, DatesFit, PoolFits, [Next]_vars PROVE (DatesFit /\ PoolFits)'
  OBVIOUS
<1>1. CASE UNCHANGED Cycle!vars
  BY <1>1 DEF Cycle!vars, Cycle!pool, Cycle!day, DatesFit, PoolFits
<1>2. [Cycle!Next]_Cycle!vars
  BY CycleMoves
<1> QED BY <1>1, <1>2, DatesStay, PoolStays

LEMMA CycleTypes == CycleInv /\ DatesFit /\ PoolFits => Cycle!TypeOK
<1> SUFFICES ASSUME CycleInv, DatesFit, PoolFits PROVE Cycle!TypeOK
  OBVIOUS
<1>1. CycleTyped
  BY DEF CycleInv
<1>2. now \in [day : 1..LoopDays, phase : {"open", "late", "closed"}]
      /\ loop.at \in Places
  <2>1. now = [day |-> now.day, phase |-> now.phase] /\ now.phase \in {"open", "late", "closed"}
    BY <1>1 DEF CycleTyped
  <2> QED BY <1>1, <2>1 DEF CycleTyped, DatesFit
<1> QED BY <1>1, <1>2, CycleAssumed DEF Cycle!TypeOK, DatesFit, PoolFits, CycleTyped, Places

(* The types of the main loop: no more threads than the pool has, each with   *)
(* work of its pass, and dates that have come.                                *)
THEOREM LoopIsTyped == Spec => []Cycle!TypeOK
<1> QED BY CycleInit, PoolInit, LoopStep, DatesAndPool, CycleTypes, PTL DEF Spec

LEMMA BusMoves == ASSUME [Next]_vars PROVE [Bus!Next]_Bus!vars
BY DEF Next, vars, bus, Bus!vars, RiskStep, HaltsStep, ProvidersStep, CostsStep,
       StatusesStep, CycleStep, WatchStep, BusStep, ExpiryStep, EventsStep, ProtectStep

-----------------------------------------------------------------------------
(* Event bus.  The registry holds a handler once for every profile that has   *)
(* subscribed it since a profile last wiped it, or nobody is in a tick.       *)

LEMMA BusBounds ==
    /\ IsFiniteSet(Profiles) /\ Profiles # {}
    /\ LIMIT \in Nat \ {0} /\ BusFaults \in Nat
    /\ Cardinality(Profiles) \in Nat
<1>1. Bus!IsFiniteSet(Profiles)
  BY ServicesAssumption DEF Bus!BusAssumption
<1>2. IsFiniteSet(Profiles)
  BY <1>1 DEF Bus!IsFiniteSet, IsFiniteSet
<1> QED BY <1>2, ServicesAssumption, FS_CardinalityType DEF Bus!BusAssumption

LEMMA BusCount == ASSUME NEW S PROVE Bus!Cardinality(S) = Cardinality(S)
BY DEF Bus!Cardinality, Cardinality

\* How often a handler stands in a list.
Slots(s, h) == {i \in DOMAIN s : s[i] = h}
Times(s, h) == Cardinality(Slots(s, h))

LEMMA TimesCounts ==
    ASSUME NEW S, NEW s \in Seq(S), NEW h
    PROVE  Times(s, h) \in Nat /\ IsFiniteSet(Slots(s, h))
<1>1. Len(s) \in Nat /\ DOMAIN s = 1..Len(s)
  BY LenProperties
<1>2. IsFiniteSet(1..Len(s)) /\ Slots(s, h) \in SUBSET (1..Len(s))
  BY <1>1, FS_Interval DEF Slots
<1> QED BY <1>2, FS_Subset, FS_CardinalityType DEF Times

LEMMA TimesOfNone == ASSUME NEW h PROVE Times(<<>>, h) = 0
<1>1. Slots(<<>>, h) = {}
  BY EmptySeq DEF Slots
<1> QED BY <1>1, FS_EmptySet DEF Times

LEMMA TimesAppended ==
    ASSUME NEW S, NEW s \in Seq(S), NEW x \in S, NEW h
    PROVE  Times(Append(s, x), h) = IF x = h THEN Times(s, h) + 1 ELSE Times(s, h)
<1>1. /\ Append(s, x) \in Seq(S) /\ Len(Append(s, x)) = Len(s) + 1 /\ Len(s) \in Nat
      /\ \A i \in 1..Len(s) : Append(s, x)[i] = s[i]
      /\ Append(s, x)[Len(s) + 1] = x
      /\ DOMAIN s = 1..Len(s) /\ DOMAIN Append(s, x) = 1..(Len(s) + 1)
  BY AppendProperties, LenProperties
<1>2. Len(s) + 1 \notin Slots(s, h) /\ IsFiniteSet(Slots(s, h))
  <2>1. Slots(s, h) \subseteq 1..Len(s) /\ IsFiniteSet(Slots(s, h))
    BY <1>1, TimesCounts DEF Slots
  <2> QED BY <1>1, <2>1
<1>3. CASE x = h
  <2>1. Slots(Append(s, x), h) = Slots(s, h) \cup {Len(s) + 1}
    BY <1>1, <1>3 DEF Slots
  <2> QED BY <1>2, <1>3, <2>1, FS_AddElement DEF Times
<1>4. CASE x # h
  <2>1. Slots(Append(s, x), h) = Slots(s, h)
    BY <1>1, <1>4 DEF Slots
  <2> QED BY <1>4, <2>1 DEF Times
<1> QED BY <1>3, <1>4

LEMMA TimesLeft ==
    ASSUME NEW S, NEW s \in Seq(S), s # <<>>, NEW h
    PROVE  Times(s, h) = IF Head(s) = h THEN Times(Tail(s), h) + 1 ELSE Times(Tail(s), h)
<1>1. /\ Tail(s) \in Seq(S) /\ Len(s) \in Nat /\ Len(s) > 0 /\ Len(Tail(s)) = Len(s) - 1
      /\ \A i \in 1..(Len(s) - 1) : Tail(s)[i] = s[i + 1]
      /\ Head(s) = s[1]
      /\ DOMAIN s = 1..Len(s) /\ DOMAIN Tail(s) = 1..(Len(s) - 1)
  BY HeadTailProperties, LenProperties, EmptySeq
<1> DEFINE later == Slots(s, h) \ {1}
           back == [i \in later |-> i - 1]
<1>2. IsFiniteSet(Slots(s, h)) /\ IsFiniteSet(later)
  BY TimesCounts, FS_RemoveElement
<1>3. later = {i \in 2..Len(s) : s[i] = h}
  BY <1>1 DEF Slots
<1>4. back \in Bijection(later, Slots(Tail(s), h))
  <2>1. ASSUME NEW i \in later PROVE back[i] \in Slots(Tail(s), h)
    BY <1>1, <1>3 DEF Slots
  <2>2. ASSUME NEW i \in later, NEW j \in later, back[i] = back[j] PROVE i = j
    BY <1>3, <2>2
  <2>3. ASSUME NEW k \in Slots(Tail(s), h) PROVE \E i \in later : back[i] = k
    <3>1. k + 1 \in later /\ back[k + 1] = k
      BY <1>1, <1>3 DEF Slots
    <3> QED BY <3>1
  <2>4. back \in [later -> Slots(Tail(s), h)]
    BY <2>1
  <2> HIDE DEF back, later
  <2> QED BY <2>2, <2>3, <2>4 DEF Bijection, Injection, Surjection, IsInjective
<1>5. Cardinality(later) = Times(Tail(s), h)
  BY <1>2, <1>4, FS_Bijection DEF ExistsBijection, Times
<1>6. Cardinality(later) = IF 1 \in Slots(s, h) THEN Times(s, h) - 1 ELSE Times(s, h)
  BY <1>2, FS_RemoveElement DEF Times
<1>7. 1 \in Slots(s, h) <=> Head(s) = h
  BY <1>1 DEF Slots
<1>8. Times(s, h) \in Nat /\ Times(Tail(s), h) \in Nat
  BY <1>1, TimesCounts
<1> QED BY <1>5, <1>6, <1>7, <1>8

BusTick == [at : {"idle", "wire", "detect", "row", "handlers", "done"},
            n : 1..3, rows : SUBSET Nat, todo : Seq(Bus!Handlers)]

\* A tick that has begun in this cycle, and one with no such subscription left
\* to make.
UnderWay == \E p \in Profiles : tick[p].at \in {"wire", "detect", "row", "handlers"}
Wired(t, h, ty) ==
    \/ t.at \in {"detect", "row", "handlers", "done"}
    \/ t.at = "wire" /\ \A n \in 1..3 : n >= t.n => Bus!Wiring[n] # <<h, ty>>
WiredBy(h, ty) == {p \in Profiles : Wired(tick[p], h, ty)}

RegistryFits ==
    \A h \in Bus!Handlers : \A ty \in Bus!Types :
        /\ Times(subscriptions[ty], h) <= Cardinality(Profiles)
        /\ UnderWay => Times(subscriptions[ty], h) <= Cardinality(WiredBy(h, ty))

\* A dispatch is at events that are pending, the oldest first.
RowsArePending ==
    \A p \in Profiles : \A i \in tick[p].rows :
        /\ table[p][i] \notin handled[p]
        /\ \A j \in DOMAIN table[p] : j < i => table[p][j] \in handled[p] \/ j \in tick[p].rows

\* Every dispatch of an event but the last lost its mark to a fault.
CallsFit(p, e, h) ==
    LET limit == Cardinality(Profiles) * faults
        full == Cardinality(Profiles) * (1 + faults) IN
    IF e \in handled[p] THEN runs[p][e][h] <= full
    ELSE IF tick[p].at = "handlers" /\ e = Bus!AtHand(p)
         THEN runs[p][e][h] + Times(tick[p].todo, h) <= full
         ELSE runs[p][e][h] <= limit
CallsCounted ==
    \A p \in Profiles : \A e \in BusEvents : \A h \in Bus!Handlers : CallsFit(p, e, h)

BusInv == Bus!TypeOK /\ RegistryFits /\ RowsArePending /\ Bus!HandledInOrder /\ CallsCounted

LEMMA BusTyped ==
    ASSUME BusInv
    PROVE  /\ subscriptions \in [Bus!Types -> Seq(Bus!Handlers)]
           /\ table \in [Profiles -> Seq(BusEvents)]
           /\ handled \in [Profiles -> SUBSET BusEvents]
           /\ runs \in [Profiles -> [BusEvents -> [Bus!Handlers -> Nat]]]
           /\ tick \in [Profiles -> BusTick]
           /\ faults \in Nat /\ faults <= BusFaults
<1>1. DOMAIN Bus!Wiring = 1..3
  BY DEF Bus!Wiring
<1> QED BY <1>1, BusBounds DEF BusInv, Bus!TypeOK, BusTick

\* The oldest row of a dispatch is one of its rows.
LEMMA OldestIsRow ==
    ASSUME NEW S \in SUBSET Nat, S # {}
    PROVE  Bus!Min(S) \in S /\ \A i \in S : Bus!Min(S) <= i
<1>1. \E x \in S : \A y \in S : x <= y
  BY LeastOf
<1> QED BY <1>1 DEF Bus!Min

LEMMA BusInit == Init => BusInv
<1> SUFFICES ASSUME Bus!Init PROVE BusInv
  BY DEF Init
<1>1. /\ subscriptions = [ty \in Bus!Types |-> <<>>] /\ table = [p \in Profiles |-> <<>>]
      /\ handled = [p \in Profiles |-> {}]
      /\ runs = [p \in Profiles |-> [e \in BusEvents |-> [h \in Bus!Handlers |-> 0]]]
      /\ tick = [p \in Profiles |-> [at |-> "idle", n |-> 1, rows |-> {}, todo |-> <<>>]]
      /\ faults = 0
  BY DEF Bus!Init, Bus!NoSubscriptions, Bus!Idle, Bus!At
<1>2. \A p \in Profiles : /\ table[p] = <<>> /\ handled[p] = {} /\ tick[p].at = "idle"
                          /\ tick[p].rows = {} /\ tick[p].todo = <<>> /\ tick[p].n = 1
  BY <1>1
<1>3. DOMAIN Bus!Wiring = 1..3 /\ DOMAIN <<>> = {}
  BY EmptySeq DEF Bus!Wiring
<1>4. Bus!TypeOK
  <2>1. subscriptions \in [Bus!Types -> Seq(Bus!Handlers)] /\ table \in [Profiles -> Seq(BusEvents)]
    BY <1>1, EmptySeq
  <2>2. runs \in [Profiles -> [BusEvents -> [Bus!Handlers -> Nat]]]
    BY <1>1
  <2>3. tick \in [Profiles -> BusTick]
    BY <1>1, EmptySeq DEF BusTick
  <2>4. \A p \in Profiles : Bus!IsInjective(table[p])
    BY <1>2, <1>3 DEF Bus!IsInjective
  <2>5. Bus!Cardinality({}) <= LIMIT
    BY BusCount, FS_EmptySet, BusBounds
  <2>6. faults \in 0..BusFaults /\ handled \in [Profiles -> SUBSET BusEvents]
    BY <1>1, BusBounds
  <2>7. \A p \in Profiles :
           /\ Bus!IsInjective(table[p]) /\ handled[p] \subseteq Bus!Range(table[p])
           /\ tick[p].rows \subseteq DOMAIN table[p] /\ Bus!Cardinality(tick[p].rows) <= LIMIT
           /\ (tick[p].at \in {"row", "handlers"}) = (tick[p].rows # {})
    <3> SUFFICES ASSUME NEW p \in Profiles
                 PROVE  /\ handled[p] \subseteq Bus!Range(table[p])
                        /\ tick[p].rows \subseteq DOMAIN table[p] /\ Bus!Cardinality(tick[p].rows) <= LIMIT
                        /\ (tick[p].at \in {"row", "handlers"}) = (tick[p].rows # {})
      BY <2>4
    <3>1. tick[p].rows = {} /\ tick[p].at = "idle" /\ handled[p] = {}
      BY <1>2
    <3>2. Bus!Cardinality(tick[p].rows) <= LIMIT
      BY <2>5, <3>1
    <3> QED BY <3>1, <3>2
  <2> QED BY <1>3, <2>1, <2>2, <2>3, <2>6, <2>7 DEF Bus!TypeOK, BusTick
<1>5. RegistryFits
  <2>1. \A ty \in Bus!Types : subscriptions[ty] = <<>>
    BY <1>1
  <2>2. ~UnderWay
    BY <1>2 DEF UnderWay
  <2> QED BY <2>1, <2>2, TimesOfNone, BusBounds DEF RegistryFits
<1>6. RowsArePending /\ Bus!HandledInOrder
  BY <1>2, <1>3 DEF RowsArePending, Bus!HandledInOrder
<1>7. CallsCounted
  BY <1>1, <1>2, BusBounds DEF CallsCounted, CallsFit
<1> QED BY <1>4, <1>5, <1>6, <1>7 DEF BusInv

\* The types of a step that moves one profile's tick.
LEMMA TickTyped ==
    ASSUME BusInv, NEW p \in Profiles, NEW t \in BusTick,
           tick' = [tick EXCEPT ![p] = t],
           subscriptions' \in [Bus!Types -> Seq(Bus!Handlers)], table' = table,
           handled' \in [Profiles -> SUBSET BusEvents],
           \A q \in Profiles : handled'[q] \subseteq Bus!Range(table[q]),
           runs' \in [Profiles -> [BusEvents -> [Bus!Handlers -> Nat]]],
           t.rows \subseteq DOMAIN table[p], Bus!Cardinality(t.rows) <= LIMIT,
           (t.at \in {"row", "handlers"}) = (t.rows # {}),
           faults' \in 0..BusFaults
    PROVE  Bus!TypeOK'
<1>1. DOMAIN Bus!Wiring = 1..3
  BY DEF Bus!Wiring
<1>2. tick' \in [Profiles -> BusTick] /\ \A q \in Profiles : tick'[q] = IF q = p THEN t ELSE tick[q]
  BY BusTyped
<1>3. \A q \in Profiles :
         /\ Bus!IsInjective(table[q])
         /\ tick[q].rows \subseteq DOMAIN table[q] /\ Bus!Cardinality(tick[q].rows) <= LIMIT
         /\ (tick[q].at \in {"row", "handlers"}) = (tick[q].rows # {})
  BY DEF BusInv, Bus!TypeOK
<1> QED BY <1>1, <1>2, <1>3, BusTyped DEF Bus!TypeOK, BusTick

\* A step that leaves the registry alone, and in which a profile under way was so.
LEMMA RegistryKept ==
    ASSUME RegistryFits, subscriptions \in [Bus!Types -> Seq(Bus!Handlers)], subscriptions' = subscriptions,
           UnderWay' => UnderWay /\ \A h \in Bus!Handlers, ty \in Bus!Types :
                                       WiredBy(h, ty) \subseteq WiredBy(h, ty)'
    PROVE  RegistryFits'
<1> SUFFICES ASSUME NEW h \in Bus!Handlers, NEW ty \in Bus!Types
             PROVE  /\ Times(subscriptions[ty], h) <= Cardinality(Profiles)
                    /\ UnderWay' => Times(subscriptions[ty], h) <= Cardinality(WiredBy(h, ty)')
  BY DEF RegistryFits
<1>1. /\ Times(subscriptions[ty], h) <= Cardinality(Profiles)
      /\ UnderWay => Times(subscriptions[ty], h) <= Cardinality(WiredBy(h, ty))
  BY DEF RegistryFits
<1>2. WiredBy(h, ty)' \in SUBSET Profiles /\ WiredBy(h, ty) \in SUBSET Profiles
  BY DEF WiredBy
<1>3. IsFiniteSet(WiredBy(h, ty)') /\ IsFiniteSet(WiredBy(h, ty))
  BY <1>2, BusBounds, FS_Subset
<1>4. UnderWay' => /\ UnderWay /\ Cardinality(WiredBy(h, ty)) <= Cardinality(WiredBy(h, ty)')
  BY <1>2, <1>3, FS_Subset
<1>5. /\ Cardinality(WiredBy(h, ty)) \in Nat /\ Cardinality(WiredBy(h, ty)') \in Nat
      /\ Times(subscriptions[ty], h) \in Nat
  BY <1>3, FS_CardinalityType, TimesCounts
<1> QED BY <1>1, <1>4, <1>5

\* One profile's tick moves on, the others' stay.
LEMMA WiredKept ==
    ASSUME tick \in [Profiles -> BusTick], NEW p \in Profiles, NEW t \in BusTick,
           tick' = [tick EXCEPT ![p] = t],
           t.at \in {"row", "handlers", "done"}, 
           tick[p].at \in {"detect", "row", "handlers"} \/ t.at = "done"
    PROVE  UnderWay' => UnderWay /\ \A h \in Bus!Handlers, ty \in Bus!Types :
                                       WiredBy(h, ty) \subseteq WiredBy(h, ty)'
<1>1. \A q \in Profiles : tick'[q] = IF q = p THEN t ELSE tick[q]
  OBVIOUS
<1>2. \A h \in Bus!Handlers, ty \in Bus!Types : WiredBy(h, ty) \subseteq WiredBy(h, ty)'
  BY <1>1 DEF WiredBy, Wired
<1>3. ASSUME UnderWay' PROVE UnderWay
  <2>1. PICK q \in Profiles : tick'[q].at \in {"wire", "detect", "row", "handlers"}
    BY <1>3 DEF UnderWay
  <2>2. CASE q = p
    <3>1. tick[p].at \in {"detect", "row", "handlers"}
      BY <1>1, <2>1, <2>2
    <3> QED BY <3>1 DEF UnderWay
  <2> QED BY <1>1, <2>1, <2>2 DEF UnderWay
<1> QED BY <1>2, <1>3

LEMMA OrderKept ==
    ASSUME RowsArePending, Bus!HandledInOrder, table' = table, handled' = handled,
           \A q \in Profiles : tick'[q].rows \in {tick[q].rows, {}}
    PROVE  RowsArePending' /\ Bus!HandledInOrder'
<1>1. RowsArePending'
  <2>1. ASSUME NEW q \in Profiles, NEW i \in tick'[q].rows
        PROVE  /\ table[q][i] \notin handled[q]
               /\ \A j \in DOMAIN table[q] : j < i => table[q][j] \in handled[q] \/ j \in tick'[q].rows
    <3>1. tick'[q].rows = tick[q].rows
      BY <2>1
    <3> QED BY <2>1, <3>1 DEF RowsArePending
  <2> QED BY <2>1 DEF RowsArePending
<1> QED BY <1>1 DEF Bus!HandledInOrder

LEMMA Limits ==
    ASSUME NEW n \in Nat, NEW f \in Nat
    PROVE  /\ n * f \in Nat /\ n * (1 + f) \in Nat /\ n * (1 + f) = n * f + n
           /\ n * (f + 1) = n * (1 + f)
OBVIOUS

LEMMA CallsKept ==
    ASSUME CallsCounted, table' = table, handled' = handled, runs' = runs, faults' = faults,
           \A q \in Profiles : \/ tick'[q] = tick[q]
                               \/ tick'[q].at # "handlers" /\ tick[q].at # "handlers"
    PROVE  CallsCounted'
<1> SUFFICES ASSUME NEW q \in Profiles, NEW e \in BusEvents, NEW h \in Bus!Handlers
             PROVE  CallsFit(q, e, h)'
  BY DEF CallsCounted
<1>1. CallsFit(q, e, h)
  BY DEF CallsCounted
<1>2. CASE tick'[q] = tick[q]
  <2>1. Bus!AtHand(q)' = Bus!AtHand(q)
    BY <1>2 DEF Bus!AtHand
  <2> QED BY <1>1, <1>2, <2>1 DEF CallsFit
<1>3. CASE tick'[q].at # "handlers" /\ tick[q].at # "handlers"
  BY <1>1, <1>3 DEF CallsFit
<1> QED BY <1>2, <1>3

LEMMA TickAt ==
    ASSUME NEW a \in {"idle", "wire", "detect", "row", "handlers", "done"}, NEW n \in 1..3,
           NEW r \in SUBSET Nat, NEW d \in Seq(Bus!Handlers)
    PROVE  /\ Bus!At(a, n, r, d) \in BusTick
           /\ Bus!At(a, n, r, d).at = a /\ Bus!At(a, n, r, d).n = n
           /\ Bus!At(a, n, r, d).rows = r /\ Bus!At(a, n, r, d).todo = d
BY DEF Bus!At, BusTick

LEMMA NoRows == Bus!Cardinality({}) <= LIMIT /\ <<>> \in Seq(Bus!Handlers)
BY BusCount, FS_EmptySet, BusBounds, EmptySeq

LEMMA BareTick ==
    ASSUME NEW a \in {"idle", "wire", "detect", "done"}, NEW n \in 1..3
    PROVE  LET t == Bus!At(a, n, {}, <<>>) IN
           t \in BusTick /\ t.at = a /\ t.n = n /\ t.rows = {} /\ t.todo = <<>>
BY NoRows DEF Bus!At, BusTick

LEMMA RestingTicks ==
    /\ Bus!Done \in BusTick /\ Bus!Done.at = "done" /\ Bus!Done.rows = {}
    /\ Bus!Idle \in BusTick /\ Bus!Idle.at = "idle" /\ Bus!Idle.rows = {}
BY BareTick DEF Bus!Done, Bus!Idle

\* What of BusInv a step keeps that moves one profile between stages without rows.
LEMMA StageFits ==
    ASSUME BusInv, NEW p \in Profiles, NEW t \in BusTick, tick' = [tick EXCEPT ![p] = t],
           t.at \in {"idle", "wire", "detect", "done"}, t.rows = {}, tick[p].at # "handlers",
           subscriptions' \in [Bus!Types -> Seq(Bus!Handlers)],
           UNCHANGED <<table, handled, runs, faults>>
    PROVE  Bus!TypeOK' /\ RowsArePending' /\ Bus!HandledInOrder' /\ CallsCounted'
<1>1. \A q \in Profiles : tick'[q] = IF q = p THEN t ELSE tick[q]
  BY BusTyped
<1>2. RowsArePending' /\ Bus!HandledInOrder'
  <2>1. \A q \in Profiles : tick'[q].rows \in {tick[q].rows, {}}
    BY <1>1
  <2> QED BY <2>1, OrderKept DEF BusInv
<1>3. CallsCounted'
  <2>1. \A q \in Profiles : \/ tick'[q] = tick[q]
                            \/ tick'[q].at # "handlers" /\ tick[q].at # "handlers"
    BY <1>1
  <2> QED BY <2>1, CallsKept DEF BusInv
<1>4. Bus!TypeOK'
  <2>1. \A q \in Profiles : handled'[q] \subseteq Bus!Range(table[q])
    BY DEF BusInv, Bus!TypeOK
  <2>2. Bus!Cardinality(t.rows) <= LIMIT
    BY NoRows
  <2>3. faults' \in 0..BusFaults
    BY DEF BusInv, Bus!TypeOK
  <2>4. t.rows \subseteq DOMAIN table[p] /\ (t.at \in {"row", "handlers"}) = (t.rows # {})
    OBVIOUS
  <2>5. /\ handled' \in [Profiles -> SUBSET BusEvents] /\ table' = table
        /\ runs' \in [Profiles -> [BusEvents -> [Bus!Handlers -> Nat]]]
    BY BusTyped
  <2> QED BY <2>1, <2>2, <2>3, <2>4, <2>5, TickTyped
<1> QED BY <1>2, <1>3, <1>4

LEMMA RegistryWiped ==
    ASSUME subscriptions' = Bus!NoSubscriptions
    PROVE  RegistryFits' /\ subscriptions' \in [Bus!Types -> Seq(Bus!Handlers)]
<1>1. subscriptions' = [ty \in Bus!Types |-> <<>>]
  BY DEF Bus!NoSubscriptions
<1>2. subscriptions' \in [Bus!Types -> Seq(Bus!Handlers)]
  BY <1>1, NoRows
<1> SUFFICES ASSUME NEW h \in Bus!Handlers, NEW ty \in Bus!Types
             PROVE  /\ Times(subscriptions'[ty], h) <= Cardinality(Profiles)
                    /\ UnderWay' => Times(subscriptions'[ty], h) <= Cardinality(WiredBy(h, ty)')
  BY <1>2 DEF RegistryFits
<1>3. Times(subscriptions'[ty], h) = 0
  BY <1>1, TimesOfNone
<1>4. WiredBy(h, ty)' \in SUBSET Profiles
  BY DEF WiredBy
<1>5. Cardinality(WiredBy(h, ty)') \in Nat
  BY <1>4, BusBounds, FS_Subset, FS_CardinalityType
<1> QED BY <1>3, <1>5, BusBounds

LEMMA ClearFits == ASSUME BusInv, NEW p \in Profiles, Bus!ClearSubscriptions(p) PROVE BusInv'
<1> DEFINE t == Bus!At("wire", 1, {}, <<>>)
<1>1. /\ tick[p].at = "idle" /\ tick' = [tick EXCEPT ![p] = t]
      /\ subscriptions' = Bus!NoSubscriptions /\ UNCHANGED <<table, handled, runs, faults>>
  BY DEF Bus!ClearSubscriptions
<1>2. t \in BusTick /\ t.at = "wire" /\ t.rows = {}
  BY BareTick
<1> HIDE DEF t
<1> QED BY <1>1, <1>2, StageFits, RegistryWiped DEF BusInv

LEMMA NotDueFits == ASSUME BusInv, NEW p \in Profiles, Bus!NotDue(p) PROVE BusInv'
<1>1. /\ tick[p].at = "idle" /\ tick' = [tick EXCEPT ![p] = Bus!Done]
      /\ UNCHANGED <<subscriptions, table, handled, runs, faults>>
  BY DEF Bus!NotDue
<1>2. RegistryFits'
  BY <1>1, RestingTicks, BusTyped, WiredKept, RegistryKept DEF BusInv
<1> QED BY <1>1, <1>2, RestingTicks, BusTyped, StageFits DEF BusInv

LEMMA WiringIs ==
    /\ DOMAIN Bus!Wiring = 1..3 /\ Len(Bus!Wiring) = 3
    /\ Bus!Wiring[1] = <<"log_activity", "reactive">>
    /\ Bus!Wiring[2] = <<"log_activity", "plain">>
    /\ Bus!Wiring[3] = <<"fire_ensemble", "reactive">>
    /\ \A n \in 1..3 : /\ Bus!Wiring[n] = <<Bus!Wiring[n][1], Bus!Wiring[n][2]>>
                       /\ Bus!Wiring[n][1] \in Bus!Handlers /\ Bus!Wiring[n][2] \in Bus!Types
BY DEF Bus!Wiring, Bus!Handlers, Bus!Types

\* A subscription a profile makes is one it had left to make, and has no more.
LEMMA SubscribeWires ==
    ASSUME tick \in [Profiles -> BusTick], NEW p \in Profiles, NEW t \in BusTick,
           tick' = [tick EXCEPT ![p] = t], tick[p].at = "wire",
           \/ tick[p].n = 3 /\ t.at = "detect"
           \/ tick[p].n < 3 /\ t.at = "wire" /\ t.n = tick[p].n + 1,
           NEW h \in Bus!Handlers, NEW ty \in Bus!Types
    PROVE  /\ WiredBy(h, ty) \subseteq WiredBy(h, ty)'
           /\ Bus!Wiring[tick[p].n] = <<h, ty>> =>
                 p \notin WiredBy(h, ty) /\ WiredBy(h, ty)' = WiredBy(h, ty) \cup {p}
<1>1. \A q \in Profiles : tick'[q] = IF q = p THEN t ELSE tick[q]
  OBVIOUS
<1>2. tick[p].n \in 1..3 /\ t.n \in 1..3
  BY DEF BusTick
<1>3. Wired(tick[p], h, ty) => Wired(t, h, ty)
  BY <1>2 DEF Wired
<1>4. WiredBy(h, ty) \subseteq WiredBy(h, ty)'
  BY <1>1, <1>3 DEF WiredBy
<1>5. ASSUME Bus!Wiring[tick[p].n] = <<h, ty>>
      PROVE  p \notin WiredBy(h, ty) /\ WiredBy(h, ty)' = WiredBy(h, ty) \cup {p}
  <2>1. ~Wired(tick[p], h, ty)
    BY <1>2, <1>5 DEF Wired
  <2>2. Wired(t, h, ty)
    <3>1. \A n \in 1..3 : n > tick[p].n => Bus!Wiring[n] # Bus!Wiring[tick[p].n]
      BY <1>2, WiringIs
    <3>2. CASE t.at = "wire"
      BY <1>2, <1>5, <3>1, <3>2 DEF Wired
    <3> QED BY <3>2 DEF Wired
  <2> QED BY <1>1, <2>1, <2>2 DEF WiredBy
<1> QED BY <1>4, <1>5

LEMMA SubscribeFits == ASSUME BusInv, NEW p \in Profiles, Bus!Subscribe(p) PROVE BusInv'
<1> DEFINE n == tick[p].n
           w == Bus!Wiring[n]
           t == IF n = Len(Bus!Wiring) THEN Bus!At("detect", 1, {}, <<>>)
                                       ELSE Bus!At("wire", n + 1, {}, <<>>)
<1>1. /\ tick[p].at = "wire"
      /\ subscriptions' = [subscriptions EXCEPT ![w[2]] = Append(@, w[1])]
      /\ tick' = [tick EXCEPT ![p] = t]
      /\ UNCHANGED <<table, handled, runs, faults>>
  BY BusTyped DEF Bus!Subscribe
<1>2. n \in 1..3
  BY BusTyped DEF BusTick
<1>3. w[1] \in Bus!Handlers /\ w[2] \in Bus!Types /\ w = <<w[1], w[2]>>
  BY <1>2, WiringIs
<1>4. /\ t \in BusTick /\ t.at \in {"wire", "detect"} /\ t.rows = {}
      /\ \/ n = 3 /\ t.at = "detect"
         \/ n < 3 /\ t.at = "wire" /\ t.n = n + 1
  <2>1. CASE n = 3
    BY <2>1, WiringIs, BareTick
  <2>2. CASE n # 3
    BY <1>2, <2>2, WiringIs, BareTick
  <2> QED BY <2>1, <2>2
<1> HIDE DEF t
<1>5. \A ty \in Bus!Types :
         /\ subscriptions[ty] \in Seq(Bus!Handlers)
         /\ subscriptions'[ty] = IF ty = w[2] THEN Append(subscriptions[ty], w[1])
                                              ELSE subscriptions[ty]
  BY <1>1, <1>3, BusTyped
<1>6. subscriptions' \in [Bus!Types -> Seq(Bus!Handlers)]
  <2>1. \A ty \in Bus!Types : subscriptions'[ty] \in Seq(Bus!Handlers)
    BY <1>3, <1>5, AppendProperties
  <2> QED BY <1>1, <2>1, BusTyped
<1>7. UnderWay
  BY <1>1 DEF UnderWay
<1>8. RegistryFits'
  <2> SUFFICES ASSUME NEW h \in Bus!Handlers, NEW ty \in Bus!Types
               PROVE  /\ Times(subscriptions'[ty], h) <= Cardinality(Profiles)
                      /\ UnderWay' => Times(subscriptions'[ty], h) <= Cardinality(WiredBy(h, ty)')
    BY DEF RegistryFits
  <2>1. Times(subscriptions[ty], h) <= Cardinality(WiredBy(h, ty))
    BY <1>7 DEF BusInv, RegistryFits
  <2>2. WiredBy(h, ty) \in SUBSET Profiles /\ WiredBy(h, ty)' \in SUBSET Profiles
    BY DEF WiredBy
  <2>3. /\ IsFiniteSet(WiredBy(h, ty)) /\ IsFiniteSet(WiredBy(h, ty)')
        /\ Cardinality(WiredBy(h, ty)') <= Cardinality(Profiles)
    BY <2>2, BusBounds, FS_Subset
  <2>4. Cardinality(WiredBy(h, ty)) \in Nat /\ Cardinality(WiredBy(h, ty)') \in Nat
    BY <2>3, FS_CardinalityType
  <2>5. /\ WiredBy(h, ty) \subseteq WiredBy(h, ty)'
        /\ w = <<h, ty>> => p \notin WiredBy(h, ty) /\ WiredBy(h, ty)' = WiredBy(h, ty) \cup {p}
    BY <1>1, <1>4, BusTyped, SubscribeWires
  <2>6. Times(subscriptions[ty], h) \in Nat
    BY <1>5, TimesCounts
  <2>7. Times(subscriptions'[ty], h) <= Cardinality(WiredBy(h, ty)')
    <3>1. CASE w = <<h, ty>>
      <4>1. w[1] = h /\ w[2] = ty
        BY <1>3, <3>1
      <4>2. Times(subscriptions'[ty], h) = Times(subscriptions[ty], h) + 1
        BY <1>3, <1>5, <4>1, TimesAppended
      <4>3. Cardinality(WiredBy(h, ty)') = Cardinality(WiredBy(h, ty)) + 1
        BY <2>3, <2>5, <3>1, FS_AddElement
      <4> QED BY <2>1, <2>4, <2>6, <4>2, <4>3
    <3>2. CASE w # <<h, ty>>
      <4>1. w[1] # h \/ w[2] # ty
        BY <1>3, <3>2
      <4>2. Times(subscriptions'[ty], h) = Times(subscriptions[ty], h)
        <5>1. CASE ty = w[2]
          BY <1>3, <1>5, <4>1, <5>1, TimesAppended
        <5> QED BY <1>5, <5>1
      <4>3. Cardinality(WiredBy(h, ty)) <= Cardinality(WiredBy(h, ty)')
        BY <2>3, <2>5, FS_Subset
      <4> QED BY <2>1, <2>4, <2>6, <4>2, <4>3
    <3> QED BY <3>1, <3>2
  <2>8. Times(subscriptions'[ty], h) \in Nat
    BY <1>6, TimesCounts
  <2> QED BY <2>3, <2>4, <2>7, <2>8, BusBounds
<1> QED BY <1>1, <1>4, <1>6, <1>8, StageFits DEF BusInv

LEMMA BusCycleFits == ASSUME BusInv, Bus!NextCycle PROVE BusInv'
<1>1. /\ \A q \in Profiles : tick[q] = Bus!Done
      /\ tick' = [q \in Profiles |-> Bus!Idle]
      /\ UNCHANGED <<subscriptions, table, handled, runs, faults>>
  BY DEF Bus!NextCycle
<1>2. \A q \in Profiles : tick[q].at = "done" /\ tick'[q] = Bus!Idle
  BY <1>1, RestingTicks
<1>3. RowsArePending' /\ Bus!HandledInOrder'
  BY <1>1, <1>2, RestingTicks, OrderKept DEF BusInv
<1>4. CallsCounted'
  BY <1>1, <1>2, RestingTicks, CallsKept DEF BusInv
<1>5. ~UnderWay'
  BY <1>2, RestingTicks DEF UnderWay
<1>6. RegistryFits'
  BY <1>1, <1>5, BusTyped, RegistryKept DEF BusInv
<1>7. Bus!TypeOK'
  <2>1. tick' \in [Profiles -> BusTick]
    BY <1>1, RestingTicks
  <2>2. \A q \in Profiles :
           /\ Bus!IsInjective(table[q]) /\ handled[q] \subseteq Bus!Range(table[q])
           /\ tick'[q].rows = {} /\ tick'[q].at = "idle"
    BY <1>2, RestingTicks DEF BusInv, Bus!TypeOK
  <2>3. \A q \in Profiles :
           /\ tick'[q].rows \subseteq DOMAIN table[q] /\ Bus!Cardinality(tick'[q].rows) <= LIMIT
           /\ (tick'[q].at \in {"row", "handlers"}) = (tick'[q].rows # {})
    <3> SUFFICES ASSUME NEW q \in Profiles
                 PROVE  /\ tick'[q].rows \subseteq DOMAIN table[q]
                        /\ Bus!Cardinality(tick'[q].rows) <= LIMIT
                        /\ (tick'[q].at \in {"row", "handlers"}) = (tick'[q].rows # {})
      OBVIOUS
    <3>1. tick'[q].rows = {} /\ tick'[q].at = "idle"
      BY <2>2
    <3>2. Bus!Cardinality(tick'[q].rows) <= LIMIT
      BY <3>1, NoRows
    <3> QED BY <3>1, <3>2
  <2>4. faults \in 0..BusFaults
    BY DEF BusInv, Bus!TypeOK
  <2> QED BY <1>1, <2>1, <2>2, <2>3, <2>4, WiringIs, BusTyped DEF Bus!TypeOK, BusTick
<1> QED BY <1>3, <1>4, <1>6, <1>7 DEF BusInv

\* Of a set of numbers, those with fewer than n before them are at most n.
LEMMA FirstFew ==
    ASSUME NEW S \in SUBSET Nat, IsFiniteSet(S), NEW n \in Nat \ {0}
    PROVE  Cardinality({i \in S : Cardinality({j \in S : j < i}) < n}) <= n
<1> DEFINE Before(i) == {j \in S : j < i}
           first == {i \in S : Cardinality(Before(i)) < n}
           place == [i \in first |-> Cardinality(Before(i))]
<1>1. \A i \in S : IsFiniteSet(Before(i)) /\ Cardinality(Before(i)) \in Nat
  <2> SUFFICES ASSUME NEW i \in S PROVE IsFiniteSet(Before(i)) /\ Cardinality(Before(i)) \in Nat
    OBVIOUS
  <2>1. Before(i) \in SUBSET S
    OBVIOUS
  <2> QED BY <2>1, FS_Subset, FS_CardinalityType
<1>2. ASSUME NEW i \in S, NEW k \in S, i < k
      PROVE  Cardinality(Before(i)) # Cardinality(Before(k))
  <2>1. i \in Nat /\ k \in Nat /\ \A j \in S : j \in Nat
    OBVIOUS
  <2>2. \A j \in S : j < i => j < k
    BY <1>2, <2>1
  <2>3. Before(i) \in SUBSET Before(k) /\ i \in Before(k) /\ i \notin Before(i)
    <3>1. ~(i < i) /\ i < k
      BY <1>2, <2>1
    <3>2. i \in Before(k) /\ i \notin Before(i)
      BY <3>1
    <3>3. \A j \in Before(i) : j \in Before(k)
      BY <2>2
    <3> HIDE DEF Before
    <3> QED BY <3>2, <3>3
  <2>4. IsFiniteSet(Before(k))
    BY <1>1
  <2> HIDE DEF Before
  <2> QED BY <2>3, <2>4, FS_Subset
<1>3. \A i \in first : i \in S /\ Cardinality(Before(i)) \in 0..(n - 1) /\ place[i] = Cardinality(Before(i))
  BY <1>1
<1>4. \A i, k \in first : place[i] = place[k] => i = k
  <2> SUFFICES ASSUME NEW i \in first, NEW k \in first, place[i] = place[k] PROVE i = k
    OBVIOUS
  <2>1. Cardinality(Before(i)) = Cardinality(Before(k)) /\ i \in S /\ k \in S
    <3> HIDE DEF place, first, Before
    <3> QED BY <1>3
  <2>2. ~(i < k) /\ ~(k < i)
    BY <1>2, <2>1
  <2> QED BY <2>1, <2>2
<1>5. place \in [first -> 0..(n - 1)]
  BY <1>3
<1> HIDE DEF place
<1>6. place \in Injection(first, 0..(n - 1))
  BY <1>4, <1>5 DEF Injection, IsInjective
<1>7. IsFiniteSet(0..(n - 1)) /\ Cardinality(0..(n - 1)) = n
  BY FS_Interval
<1>8. Cardinality(first) <= n
  BY <1>6, <1>7, FS_Injection
<1> QED BY <1>8

LEMMA RowsRead ==
    ASSUME BusInv, NEW p \in Profiles
    PROVE  /\ Bus!PendingRows(p) \in SUBSET Nat /\ Bus!PendingRows(p) \subseteq DOMAIN table[p]
           /\ Bus!Cardinality(Bus!PendingRows(p)) <= LIMIT
           /\ \A i \in Bus!PendingRows(p) :
                /\ table[p][i] \notin handled[p]
                /\ \A j \in DOMAIN table[p] :
                      j < i => table[p][j] \in handled[p] \/ j \in Bus!PendingRows(p)
<1>1. table[p] \in Seq(BusEvents)
  BY BusTyped
<1>2. DOMAIN table[p] = 1..Len(table[p]) /\ Len(table[p]) \in Nat
  BY <1>1, LenProperties
<1> DEFINE S == {i \in DOMAIN table[p] : table[p][i] \notin handled[p]}
<1>3. S \in SUBSET (1..Len(table[p])) /\ S \in SUBSET Nat
  BY <1>2
<1>4. IsFiniteSet(S)
  <2> HIDE DEF S
  <2>1. IsFiniteSet(1..Len(table[p]))
    BY <1>2, FS_Interval
  <2> QED BY <1>3, <2>1, FS_Subset
<1>5. Bus!PendingRows(p) = {i \in S : Cardinality({j \in S : j < i}) < LIMIT}
  BY BusCount DEF Bus!PendingRows, Bus!Pending
<1>6. Bus!Cardinality(Bus!PendingRows(p)) <= LIMIT
  <2> HIDE DEF S
  <2> QED BY <1>3, <1>4, <1>5, BusCount, BusBounds, FirstFew
<1>7. ASSUME NEW i \in Bus!PendingRows(p), NEW j \in DOMAIN table[p], j < i,
             table[p][j] \notin handled[p]
      PROVE  j \in Bus!PendingRows(p)
  <2>1. i \in S /\ j \in S /\ Cardinality({k \in S : k < i}) < LIMIT
    BY <1>5, <1>7
  <2>2. {k \in S : k < j} \in SUBSET {k \in S : k < i} /\ {k \in S : k < i} \in SUBSET S
    BY <1>3, <1>7, <2>1
  <2>3. /\ IsFiniteSet({k \in S : k < i}) /\ IsFiniteSet({k \in S : k < j})
        /\ Cardinality({k \in S : k < j}) <= Cardinality({k \in S : k < i})
    <3> HIDE DEF S
    <3> QED BY <1>4, <2>2, FS_Subset
  <2>4. Cardinality({k \in S : k < j}) < LIMIT
    <3> HIDE DEF S
    <3>1. /\ Cardinality({k \in S : k < i}) \in Nat /\ Cardinality({k \in S : k < j}) \in Nat
      BY <2>3, FS_CardinalityType
    <3> QED BY <2>1, <2>3, <3>1, BusBounds
  <2> QED BY <1>5, <2>1, <2>4
<1> QED BY <1>3, <1>5, <1>6, <1>7

LEMMA SelectFits == ASSUME BusInv, NEW p \in Profiles, Bus!Select(p) PROVE BusInv'
<1> DEFINE t == IF Bus!PendingRows(p) = {} THEN Bus!Done
                ELSE Bus!At("row", 1, Bus!PendingRows(p), <<>>)
<1>1. /\ tick[p].at = "detect" /\ tick' = [tick EXCEPT ![p] = t]
      /\ UNCHANGED <<subscriptions, table, handled, runs, faults>>
  BY DEF Bus!Select
<1>2. CASE Bus!PendingRows(p) = {}
  <2>1. t = Bus!Done
    BY <1>2
  <2> HIDE DEF t
  <2>2. RegistryFits'
    BY <1>1, <2>1, RestingTicks, BusTyped, WiredKept, RegistryKept DEF BusInv
  <2> QED BY <1>1, <2>1, <2>2, RestingTicks, BusTyped, StageFits DEF BusInv
<1>3. CASE Bus!PendingRows(p) # {}
  <2>1. t = Bus!At("row", 1, Bus!PendingRows(p), <<>>)
    BY <1>3
  <2>2. t \in BusTick /\ t.at = "row" /\ t.rows = Bus!PendingRows(p) /\ t.todo = <<>>
    <3> HIDE DEF t
    <3>1. Bus!PendingRows(p) \in SUBSET Nat
      BY RowsRead
    <3> QED BY <2>1, <3>1, NoRows DEF Bus!At, BusTick
  <2> HIDE DEF t
  <2>3. \A q \in Profiles : tick'[q] = IF q = p THEN t ELSE tick[q]
    BY <1>1, BusTyped
  <2>4. RegistryFits'
    BY <1>1, <2>2, BusTyped, WiredKept, RegistryKept DEF BusInv
  <2>5. RowsArePending'
    <3> SUFFICES ASSUME NEW q \in Profiles, NEW i \in tick'[q].rows
                 PROVE  /\ table[q][i] \notin handled[q]
                        /\ \A j \in DOMAIN table[q] :
                              j < i => table[q][j] \in handled[q] \/ j \in tick'[q].rows
      BY <1>1 DEF RowsArePending
    <3>1. CASE q = p
      BY <2>2, <2>3, <3>1, RowsRead
    <3>2. CASE q # p
      BY <2>3, <3>2 DEF BusInv, RowsArePending
    <3> QED BY <3>1, <3>2
  <2>6. Bus!HandledInOrder'
    BY <1>1 DEF BusInv, Bus!HandledInOrder
  <2>7. CallsCounted'
    <3>1. \A q \in Profiles : \/ tick'[q] = tick[q]
                              \/ tick'[q].at # "handlers" /\ tick[q].at # "handlers"
      BY <1>1, <2>2, <2>3
    <3> QED BY <1>1, <3>1, CallsKept DEF BusInv
  <2>8. Bus!TypeOK'
    <3>1. \A q \in Profiles : handled'[q] \subseteq Bus!Range(table[q])
      BY <1>1 DEF BusInv, Bus!TypeOK
    <3>2. /\ t.rows \subseteq DOMAIN table[p] /\ Bus!Cardinality(t.rows) <= LIMIT
          /\ (t.at \in {"row", "handlers"}) = (t.rows # {})
      BY <1>3, <2>2, RowsRead
    <3>3. faults' \in 0..BusFaults
      BY <1>1 DEF BusInv, Bus!TypeOK
    <3>4. /\ handled' \in [Profiles -> SUBSET BusEvents] /\ table' = table
          /\ subscriptions' \in [Bus!Types -> Seq(Bus!Handlers)]
          /\ runs' \in [Profiles -> [BusEvents -> [Bus!Handlers -> Nat]]]
      BY <1>1, BusTyped
    <3> QED BY <1>1, <2>2, <3>1, <3>2, <3>3, <3>4, TickTyped
  <2> QED BY <2>4, <2>5, <2>6, <2>7, <2>8 DEF BusInv
<1> QED BY <1>2, <1>3

\* A dispatch at a row is at the oldest of its events, which is pending.
LEMMA AtRow ==
    ASSUME BusInv, NEW p \in Profiles, tick[p].at \in {"row", "handlers"}
    PROVE  /\ tick[p].rows # {} /\ tick[p].rows \in SUBSET Nat
           /\ Bus!Min(tick[p].rows) \in tick[p].rows
           /\ Bus!Min(tick[p].rows) \in DOMAIN table[p]
           /\ \A i \in tick[p].rows : Bus!Min(tick[p].rows) <= i
           /\ Bus!AtHand(p) = table[p][Bus!Min(tick[p].rows)]
           /\ Bus!AtHand(p) \in BusEvents /\ Bus!AtHand(p) \notin handled[p]
           /\ Bus!AtHand(p) \in Bus!Range(table[p])
<1>1. tick[p].rows # {} /\ tick[p].rows \subseteq DOMAIN table[p]
  BY DEF BusInv, Bus!TypeOK
<1>2. tick[p] \in BusTick /\ table[p] \in Seq(BusEvents)
  BY BusTyped
<1>3. tick[p].rows \in SUBSET Nat
  BY <1>2 DEF BusTick
<1>4. /\ Bus!Min(tick[p].rows) \in tick[p].rows
      /\ \A i \in tick[p].rows : Bus!Min(tick[p].rows) <= i
  BY <1>1, <1>3, OldestIsRow
<1>5. Bus!AtHand(p) = table[p][Bus!Min(tick[p].rows)]
  BY DEF Bus!AtHand
<1>6. Bus!AtHand(p) \in BusEvents /\ Bus!AtHand(p) \in Bus!Range(table[p])
  BY <1>1, <1>2, <1>4, <1>5, ElementOfSeq, LenProperties DEF Bus!Range
<1>7. Bus!AtHand(p) \notin handled[p]
  BY <1>4, <1>5 DEF BusInv, RowsArePending
<1> QED BY <1>1, <1>3, <1>4, <1>5, <1>6, <1>7

LEMMA BusTypeOf == \A e : Bus!TypeOf(e) \in Bus!Types
BY DEF Bus!TypeOf, Bus!Types

\* A profile no step touches, though a fault may have happened elsewhere.
LEMMA CallsOfOthers ==
    ASSUME BusInv, NEW q \in Profiles, NEW e \in BusEvents, NEW h \in Bus!Handlers,
           tick'[q] = tick[q], handled'[q] = handled[q], runs'[q] = runs[q], table'[q] = table[q],
           faults' \in {faults, faults + 1}
    PROVE  CallsFit(q, e, h)'
<1>1. CallsFit(q, e, h)
  BY DEF BusInv, CallsCounted
<1>2. Bus!AtHand(q)' = Bus!AtHand(q)
  BY DEF Bus!AtHand
<1>3. faults \in Nat /\ runs[q][e][h] \in Nat /\ tick[q].todo \in Seq(Bus!Handlers)
  BY BusTyped DEF BusTick
<1>4. Times(tick[q].todo, h) \in Nat
  BY <1>3, TimesCounts
<1> DEFINE N == Cardinality(Profiles)
<1>5. N \in Nat
  BY BusBounds
<1>6. /\ N * faults \in Nat /\ N * (1 + faults) \in Nat
      /\ N * (1 + faults) = N * faults + N
      /\ N * (faults + 1) = N * (1 + faults)
      /\ N * (1 + (faults + 1)) = N * (1 + faults) + N
  BY <1>3, <1>5, Limits
<1>7. N * faults <= N * faults' /\ N * (1 + faults) <= N * (1 + faults')
      /\ N * faults' \in Nat /\ N * (1 + faults') \in Nat
  <2> HIDE DEF N
  <2>1. CASE faults' = faults
    BY <1>6, <2>1
  <2>2. CASE faults' = faults + 1
    BY <1>5, <1>6, <2>2
  <2> QED BY <2>1, <2>2
<1> HIDE DEF N
<1> QED BY <1>1, <1>2, <1>3, <1>4, <1>6, <1>7 DEF CallsFit, N

\* A step of a dispatch: one profile's tick, its marks and its calls.
LEMMA DispatchFits ==
    ASSUME BusInv, NEW p \in Profiles, NEW t \in BusTick, tick' = [tick EXCEPT ![p] = t],
           tick[p].at \in {"row", "handlers"}, t.at \in {"row", "handlers", "done"},
           (t.at \in {"row", "handlers"}) = (t.rows # {}), t.rows \subseteq tick[p].rows,
           subscriptions' = subscriptions, table' = table,
           NEW H \in SUBSET BusEvents, handled' = [handled EXCEPT ![p] = H],
           handled[p] \subseteq H, H \subseteq handled[p] \cup {Bus!AtHand(p)},
           \A i \in t.rows : table[p][i] \notin H,
           \A j \in tick[p].rows \ t.rows : t.at # "done" => table[p][j] \in H,
           NEW R \in [BusEvents -> [Bus!Handlers -> Nat]], runs' = [runs EXCEPT ![p] = R],
           faults' \in {faults, faults + 1}, faults' \in 0..BusFaults,
           \A e \in BusEvents, h \in Bus!Handlers : CallsFit(p, e, h)'
    PROVE  BusInv'
<1>1. \A q \in Profiles : /\ tick'[q] = IF q = p THEN t ELSE tick[q]
                          /\ handled'[q] = IF q = p THEN H ELSE handled[q]
                          /\ runs'[q] = IF q = p THEN R ELSE runs[q]
  BY BusTyped
<1>2. RegistryFits'
  BY BusTyped, WiredKept, RegistryKept DEF BusInv
<1>3. RowsArePending'
  <2> SUFFICES ASSUME NEW q \in Profiles, NEW i \in tick'[q].rows
               PROVE  /\ table[q][i] \notin handled'[q]
                      /\ \A j \in DOMAIN table[q] :
                            j < i => table[q][j] \in handled'[q] \/ j \in tick'[q].rows
    BY DEF RowsArePending
  <2>1. CASE q = p
    <3>1. i \in t.rows /\ i \in tick[p].rows /\ t.at # "done"
      BY <1>1, <2>1
    <3>2. \A j \in DOMAIN table[p] : j < i => table[p][j] \in handled[p] \/ j \in tick[p].rows
      BY <3>1 DEF BusInv, RowsArePending
    <3> QED BY <1>1, <2>1, <3>1, <3>2
  <2>2. CASE q # p
    BY <1>1, <2>2 DEF BusInv, RowsArePending
  <2> QED BY <2>1, <2>2
<1>4. Bus!HandledInOrder'
  <2> SUFFICES ASSUME NEW q \in Profiles, NEW i \in DOMAIN table[q], NEW j \in DOMAIN table[q],
                      i < j, table[q][j] \in handled'[q]
               PROVE  table[q][i] \in handled'[q]
    BY DEF Bus!HandledInOrder
  <2>1. table[q][j] \in handled[q] => table[q][i] \in handled[q]
    BY DEF BusInv, Bus!HandledInOrder
  <2>2. CASE q = p /\ table[q][j] \notin handled[q]
    <3>1. table[p][j] = table[p][Bus!Min(tick[p].rows)] /\ Bus!AtHand(p) \in H
      BY <1>1, <2>2, AtRow
    <3>2. Bus!IsInjective(table[p])
      BY DEF BusInv, Bus!TypeOK
    <3>3. j = Bus!Min(tick[p].rows)
      BY <2>2, <3>1, <3>2, AtRow DEF Bus!IsInjective
    <3>4. j \in tick[p].rows /\ \A k \in tick[p].rows : j <= k
      BY <3>3, AtRow
    <3>5. table[p][i] \in handled[p] \/ i \in tick[p].rows
      BY <2>2, <3>4 DEF BusInv, RowsArePending
    <3>6. i \notin tick[p].rows
      <4>1. i \in Nat /\ j \in Nat
        BY <2>2, BusTyped, LenProperties
      <4> QED BY <3>4, <4>1
    <3> QED BY <1>1, <2>2, <3>5, <3>6
  <2>3. CASE q # p
    BY <1>1, <2>1, <2>3
  <2> QED BY <1>1, <2>1, <2>2, <2>3
<1>5. CallsCounted'
  <2>1. ASSUME NEW q \in Profiles, q # p, NEW e \in BusEvents, NEW h \in Bus!Handlers
        PROVE  CallsFit(q, e, h)'
    BY <1>1, <2>1, CallsOfOthers
  <2> QED BY <2>1 DEF CallsCounted
<1>6. Bus!TypeOK'
  <2>1. \A q \in Profiles : handled'[q] \subseteq Bus!Range(table[q])
    <3>1. \A q \in Profiles : handled[q] \subseteq Bus!Range(table[q])
      BY DEF BusInv, Bus!TypeOK
    <3> QED BY <1>1, <3>1, AtRow
  <2>2. /\ t.rows \subseteq DOMAIN table[p] /\ Bus!Cardinality(t.rows) <= LIMIT
    <3>1. tick[p].rows \subseteq DOMAIN table[p] /\ Cardinality(tick[p].rows) <= LIMIT
      BY BusCount DEF BusInv, Bus!TypeOK
    <3>2. IsFiniteSet(DOMAIN table[p])
      BY BusTyped, LenProperties, FS_Interval
    <3>3. IsFiniteSet(tick[p].rows) /\ tick[p].rows \in SUBSET DOMAIN table[p]
      BY <3>1, <3>2, FS_Subset
    <3>4. Cardinality(t.rows) <= Cardinality(tick[p].rows) /\ IsFiniteSet(t.rows)
      BY <3>3, FS_Subset
    <3>5. Cardinality(t.rows) \in Nat /\ Cardinality(tick[p].rows) \in Nat
      BY <3>3, <3>4, FS_CardinalityType
    <3> QED BY <3>1, <3>4, <3>5, BusCount, BusBounds
  <2>3. /\ handled' \in [Profiles -> SUBSET BusEvents]
        /\ subscriptions' \in [Bus!Types -> Seq(Bus!Handlers)]
        /\ runs' \in [Profiles -> [BusEvents -> [Bus!Handlers -> Nat]]]
    BY BusTyped
  <2> QED BY <2>1, <2>2, <2>3, TickTyped
<1> QED BY <1>2, <1>3, <1>4, <1>5, <1>6 DEF BusInv

\* What the dispatch of p keeps of the calls of every event but the one at hand.
LEMMA CallsOfRest ==
    ASSUME BusInv, NEW p \in Profiles, tick[p].at \in {"row", "handlers"},
           NEW e \in BusEvents, NEW h \in Bus!Handlers, e # Bus!AtHand(p),
           e \in handled'[p] <=> e \in handled[p], runs'[p][e][h] = runs[p][e][h],
           faults' \in {faults, faults + 1},
           e = Bus!AtHand(p)' => tick'[p].at # "handlers"
    PROVE  CallsFit(p, e, h)'
<1>1. CallsFit(p, e, h)
  BY DEF BusInv, CallsCounted
<1>2. faults \in Nat /\ runs[p][e][h] \in Nat
  BY BusTyped
<1> DEFINE N == Cardinality(Profiles)
<1>3. N \in Nat
  BY BusBounds
<1>4. /\ N * faults \in Nat /\ N * (1 + faults) \in Nat
      /\ N * (faults + 1) = N * (1 + faults) /\ N * (1 + faults) = N * faults + N
      /\ N * (1 + (faults + 1)) = N * (1 + faults) + N
  BY <1>2, <1>3, Limits
<1>5. N * faults <= N * faults' /\ N * (1 + faults) <= N * (1 + faults')
      /\ N * faults' \in Nat /\ N * (1 + faults') \in Nat
  <2> HIDE DEF N
  <2>1. CASE faults' = faults
    BY <1>4, <2>1
  <2>2. CASE faults' = faults + 1
    BY <1>3, <1>4, <2>2
  <2> QED BY <2>1, <2>2
<1> HIDE DEF N
<1> QED BY <1>1, <1>2, <1>4, <1>5 DEF CallsFit, N

LEMMA LookUpFits == ASSUME BusInv, NEW p \in Profiles, Bus!LookUp(p) PROVE BusInv'
<1> DEFINE ty == Bus!TypeOf(Bus!AtHand(p))
           t == [tick[p] EXCEPT !.at = "handlers", !.todo = subscriptions[ty]]
<1>1. /\ tick[p].at = "row" /\ tick' = [tick EXCEPT ![p] = t]
      /\ UNCHANGED <<subscriptions, table, handled, runs, faults>>
  BY BusTyped DEF Bus!LookUp
<1>2. ty \in Bus!Types /\ subscriptions[ty] \in Seq(Bus!Handlers)
  BY BusTypeOf, BusTyped
<1>3. tick[p] \in BusTick
  BY BusTyped
<1>4. /\ t \in BusTick /\ t.at = "handlers" /\ t.rows = tick[p].rows
      /\ t.todo = subscriptions[ty]
  <2> HIDE DEF ty
  <2> QED BY <1>2, <1>3 DEF BusTick
<1> HIDE DEF t
<1>5. tick'[p] = t
  BY <1>1, BusTyped
<1>6. ASSUME NEW e \in BusEvents, NEW h \in Bus!Handlers PROVE CallsFit(p, e, h)'
  <2>1. Bus!AtHand(p)' = Bus!AtHand(p)
    BY <1>1, <1>4, <1>5 DEF Bus!AtHand
  <2>2. CASE e = Bus!AtHand(p)
    <3>1. e \notin handled[p] /\ runs[p][e][h] <= Cardinality(Profiles) * faults
      BY <1>1, <2>2, AtRow DEF BusInv, CallsCounted, CallsFit
    <3>2. Times(t.todo, h) <= Cardinality(Profiles) /\ Times(t.todo, h) \in Nat
      <4> HIDE DEF ty
      <4> QED BY <1>2, <1>4, TimesCounts DEF BusInv, RegistryFits
    <3>3. faults \in Nat /\ runs[p][e][h] \in Nat
      BY BusTyped
    <3>4. /\ Cardinality(Profiles) * faults \in Nat
          /\ Cardinality(Profiles) * (1 + faults) = Cardinality(Profiles) * faults + Cardinality(Profiles)
      BY <3>3, BusBounds, Limits
    <3>5. runs[p][e][h] + Times(t.todo, h) <= Cardinality(Profiles) * (1 + faults)
      BY <3>1, <3>2, <3>3, <3>4, BusBounds
    <3> QED BY <1>1, <1>4, <1>5, <2>1, <2>2, <3>1, <3>5 DEF CallsFit
  <2>3. CASE e # Bus!AtHand(p)
    BY <1>1, <2>1, <2>3, CallsOfRest
  <2> QED BY <2>2, <2>3
<1>7. /\ handled' = [handled EXCEPT ![p] = handled[p]] /\ handled[p] \in SUBSET BusEvents
      /\ runs' = [runs EXCEPT ![p] = runs[p]]
      /\ runs[p] \in [BusEvents -> [Bus!Handlers -> Nat]]
      /\ faults' \in {faults, faults + 1} /\ faults' \in 0..BusFaults
  BY <1>1, BusTyped
<1>8. tick[p].rows # {} /\ \A i \in t.rows : table[p][i] \notin handled[p]
  BY <1>1, <1>4, AtRow DEF BusInv, RowsArePending
<1> QED BY <1>1, <1>4, <1>6, <1>7, <1>8, DispatchFits

LEMMA HandleFits == ASSUME BusInv, NEW p \in Profiles, Bus!Handle(p) PROVE BusInv'
<1> DEFINE a == Bus!AtHand(p)
           g == Head(tick[p].todo)
           t == [tick[p] EXCEPT !.todo = Tail(@)]
           R == [runs[p] EXCEPT ![a][g] = @ + 1]
<1>1. /\ tick[p].at = "handlers" /\ tick[p].todo # <<>> /\ tick' = [tick EXCEPT ![p] = t]
      /\ runs' = [runs EXCEPT ![p] = R]
      /\ UNCHANGED <<subscriptions, table, handled, faults>>
  BY BusTyped DEF Bus!Handle
<1>2. tick[p] \in BusTick /\ tick[p].todo \in Seq(Bus!Handlers)
  BY BusTyped DEF BusTick
<1>3. g \in Bus!Handlers /\ Tail(tick[p].todo) \in Seq(Bus!Handlers)
  BY <1>1, <1>2, HeadTailProperties
<1>4. /\ t \in BusTick /\ t.at = "handlers" /\ t.rows = tick[p].rows
      /\ t.todo = Tail(tick[p].todo)
  BY <1>1, <1>2, <1>3 DEF BusTick
<1>5. a \in BusEvents /\ a \notin handled[p]
  BY <1>1, AtRow
<1>6. runs[p] \in [BusEvents -> [Bus!Handlers -> Nat]]
  BY BusTyped
<1>7. /\ R \in [BusEvents -> [Bus!Handlers -> Nat]]
      /\ \A e \in BusEvents, h \in Bus!Handlers :
            R[e][h] = IF e = a /\ h = g THEN runs[p][e][h] + 1 ELSE runs[p][e][h]
  <2> HIDE DEF a, g
  <2> QED BY <1>3, <1>5, <1>6
<1> HIDE DEF t, R
<1>8. tick'[p] = t /\ runs'[p] = R
  BY <1>1, BusTyped
<1>9. ASSUME NEW e \in BusEvents, NEW h \in Bus!Handlers PROVE CallsFit(p, e, h)'
  <2>1. Bus!AtHand(p)' = Bus!AtHand(p)
    BY <1>1, <1>4, <1>8 DEF Bus!AtHand
  <2>2. CASE e = a
    <3>1. runs[p][e][h] + Times(tick[p].todo, h) <= Cardinality(Profiles) * (1 + faults)
      BY <1>1, <1>5, <2>2 DEF BusInv, CallsCounted, CallsFit
    <3>2. Times(tick[p].todo, h) = IF g = h THEN Times(t.todo, h) + 1 ELSE Times(t.todo, h)
      BY <1>1, <1>2, <1>4, TimesLeft
    <3>3. /\ Times(t.todo, h) \in Nat /\ runs[p][e][h] \in Nat
          /\ Cardinality(Profiles) * (1 + faults) \in Nat
      <4>1. faults \in Nat /\ runs[p][e][h] \in Nat
        BY BusTyped
      <4>2. Times(t.todo, h) \in Nat
        BY <1>3, <1>4, TimesCounts
      <4> QED BY <4>1, <4>2, BusBounds, Limits
    <3>4. R[e][h] + Times(t.todo, h) <= Cardinality(Profiles) * (1 + faults)
      <4> HIDE DEF a, g
      <4>1. R[e][h] = IF h = g THEN runs[p][e][h] + 1 ELSE runs[p][e][h]
        BY <1>7, <2>2
      <4> QED BY <3>1, <3>2, <3>3, <4>1
    <3> QED BY <1>1, <1>4, <1>5, <1>8, <2>1, <2>2, <3>4 DEF CallsFit
  <2>3. CASE e # a
    BY <1>1, <1>7, <1>8, <2>1, <2>3, CallsOfRest
  <2> QED BY <2>2, <2>3
<1>10. /\ handled' = [handled EXCEPT ![p] = handled[p]] /\ handled[p] \in SUBSET BusEvents
       /\ faults' \in {faults, faults + 1} /\ faults' \in 0..BusFaults
  BY <1>1, BusTyped
<1>11. tick[p].rows # {} /\ \A i \in t.rows : table[p][i] \notin handled[p]
  BY <1>1, <1>4, AtRow DEF BusInv, RowsArePending
<1> QED BY <1>1, <1>4, <1>7, <1>9, <1>10, <1>11, DispatchFits

LEMMA MarkFits == ASSUME BusInv, NEW p \in Profiles, Bus!Mark(p) PROVE BusInv'
<1> DEFINE a == Bus!AtHand(p)
           left == tick[p].rows \ {Bus!Min(tick[p].rows)}
           t == IF left = {} THEN Bus!Done ELSE Bus!At("row", 1, left, <<>>)
           H == handled[p] \cup {a}
<1>1. /\ tick[p].at = "handlers" /\ tick[p].todo = <<>> /\ tick' = [tick EXCEPT ![p] = t]
      /\ handled' = [handled EXCEPT ![p] = H]
      /\ UNCHANGED <<subscriptions, table, runs, faults>>
  BY BusTyped DEF Bus!Mark
<1>2. left \in SUBSET Nat /\ left \subseteq tick[p].rows
  BY <1>1, AtRow
<1>3. /\ t \in BusTick /\ t.rows = left /\ t.at \in {"row", "done"}
      /\ (t.at \in {"row", "handlers"}) = (t.rows # {})
  <2> HIDE DEF left
  <2>1. CASE left = {}
    BY <2>1, RestingTicks
  <2>2. CASE left # {}
    <3>1. t = Bus!At("row", 1, left, <<>>)
      BY <2>2
    <3> HIDE DEF t
    <3>2. t \in BusTick /\ t.rows = left /\ t.at = "row"
      BY <1>2, <3>1, NoRows DEF Bus!At, BusTick
    <3> QED BY <2>2, <3>2
  <2> QED BY <2>1, <2>2
<1> HIDE DEF t
<1>4. tick'[p] = t /\ handled'[p] = H
  BY <1>1, BusTyped
<1>5. a \in BusEvents /\ a \notin handled[p] /\ H \in SUBSET BusEvents
  BY <1>1, AtRow, BusTyped
<1>6. ASSUME NEW e \in BusEvents, NEW h \in Bus!Handlers PROVE CallsFit(p, e, h)'
  <2>1. CASE e = a
    <3>1. runs[p][e][h] + Times(tick[p].todo, h) <= Cardinality(Profiles) * (1 + faults)
      BY <1>1, <1>5, <2>1 DEF BusInv, CallsCounted, CallsFit
    <3>2. Times(tick[p].todo, h) = 0
      BY <1>1, TimesOfNone
    <3>3. runs[p][e][h] \in Nat
      BY BusTyped
    <3> QED BY <1>1, <1>4, <2>1, <3>1, <3>2, <3>3 DEF CallsFit
  <2>2. CASE e # a
    BY <1>1, <1>3, <1>4, <2>2, CallsOfRest
  <2> QED BY <2>1, <2>2
<1>7. ASSUME NEW i \in t.rows PROVE table[p][i] \notin H
  <2>1. i \in tick[p].rows /\ i # Bus!Min(tick[p].rows) /\ i \in DOMAIN table[p]
    BY <1>3, <1>7 DEF BusInv, Bus!TypeOK
  <2>2. Bus!IsInjective(table[p])
    BY DEF BusInv, Bus!TypeOK
  <2>3. Bus!Min(tick[p].rows) \in DOMAIN table[p] /\ a = table[p][Bus!Min(tick[p].rows)]
    BY <1>1, AtRow
  <2>4. table[p][i] # a
    <3> HIDE DEF a
    <3> QED BY <2>1, <2>2, <2>3 DEF Bus!IsInjective
  <2> QED BY <2>1, <2>4 DEF BusInv, RowsArePending
<1>8. \A j \in tick[p].rows \ t.rows : table[p][j] \in H
  BY <1>1, <1>3, AtRow
<1>9. /\ runs' = [runs EXCEPT ![p] = runs[p]]
      /\ runs[p] \in [BusEvents -> [Bus!Handlers -> Nat]]
      /\ faults' \in {faults, faults + 1} /\ faults' \in 0..BusFaults
  BY <1>1, BusTyped
<1> HIDE DEF H
<1>10. handled[p] \subseteq H /\ H \subseteq handled[p] \cup {Bus!AtHand(p)}
  BY DEF H
<1> QED BY <1>1, <1>2, <1>3, <1>5, <1>6, <1>7, <1>8, <1>9, <1>10, DispatchFits

LEMMA MarkFailsFits == ASSUME BusInv, NEW p \in Profiles, Bus!MarkFails(p) PROVE BusInv'
<1>1. /\ tick[p].at = "handlers" /\ tick[p].todo = <<>> /\ tick' = [tick EXCEPT ![p] = Bus!Done]
      /\ faults < BusFaults /\ faults' = faults + 1
      /\ UNCHANGED <<subscriptions, table, runs, handled>>
  BY DEF Bus!MarkFails
<1>2. tick'[p] = Bus!Done
  BY <1>1, BusTyped
<1>3. ASSUME NEW e \in BusEvents, NEW h \in Bus!Handlers PROVE CallsFit(p, e, h)'
  <2>1. CASE e = Bus!AtHand(p)
    <3>1. /\ e \notin handled[p]
          /\ runs[p][e][h] + Times(tick[p].todo, h) <= Cardinality(Profiles) * (1 + faults)
      BY <1>1, <2>1, AtRow DEF BusInv, CallsCounted, CallsFit
    <3>2. Times(tick[p].todo, h) = 0
      BY <1>1, TimesOfNone
    <3>3. runs[p][e][h] \in Nat /\ faults \in Nat
      BY BusTyped
    <3>4. runs[p][e][h] <= Cardinality(Profiles) * (faults + 1)
      BY <3>1, <3>2, <3>3, BusBounds, Limits
    <3> QED BY <1>1, <1>2, <3>1, <3>4, RestingTicks DEF CallsFit
  <2>2. CASE e # Bus!AtHand(p)
    BY <1>1, <1>2, <2>2, RestingTicks, CallsOfRest
  <2> QED BY <2>1, <2>2
<1>4. /\ handled' = [handled EXCEPT ![p] = handled[p]] /\ handled[p] \in SUBSET BusEvents
      /\ runs' = [runs EXCEPT ![p] = runs[p]]
      /\ runs[p] \in [BusEvents -> [Bus!Handlers -> Nat]]
      /\ faults' \in {faults, faults + 1} /\ faults' \in 0..BusFaults
  BY <1>1, BusTyped, BusBounds
<1> DEFINE t == Bus!Done
<1>5. /\ t \in BusTick /\ t.at = "done" /\ t.rows = {} /\ tick' = [tick EXCEPT ![p] = t]
      /\ (t.at \in {"row", "handlers"}) = (t.rows # {})
  BY <1>1, RestingTicks
<1> HIDE DEF t
<1> QED BY <1>1, <1>3, <1>4, <1>5, DispatchFits

LEMMA BusCrashFits == ASSUME BusInv, Bus!Crash PROVE BusInv'
<1>1. /\ faults < BusFaults /\ faults' = faults + 1
      /\ subscriptions' = Bus!NoSubscriptions
      /\ tick' = [q \in Profiles |-> Bus!Idle]
      /\ UNCHANGED <<table, handled, runs>>
  BY DEF Bus!Crash
<1>2. \A q \in Profiles : tick'[q] = Bus!Idle
  BY <1>1
<1>3. RowsArePending' /\ Bus!HandledInOrder'
  BY <1>1, <1>2, RestingTicks, OrderKept DEF BusInv
<1>4. faults \in Nat /\ faults' \in 0..BusFaults
  BY <1>1, BusTyped, BusBounds
<1>5. CallsCounted'
  <2> SUFFICES ASSUME NEW q \in Profiles, NEW e \in BusEvents, NEW h \in Bus!Handlers
               PROVE  CallsFit(q, e, h)'
    BY DEF CallsCounted
  <2>1. CallsFit(q, e, h)
    BY DEF BusInv, CallsCounted
  <2>2. runs[q][e][h] \in Nat /\ Times(tick[q].todo, h) \in Nat
    BY BusTyped, TimesCounts DEF BusTick
  <2> DEFINE N == Cardinality(Profiles)
  <2>3. N \in Nat
    BY BusBounds
  <2>4. /\ N * faults \in Nat /\ N * (1 + faults) \in Nat
        /\ N * (faults + 1) = N * (1 + faults) /\ N * (1 + faults) = N * faults + N
        /\ N * (1 + (faults + 1)) = N * (1 + faults) + N
    BY <1>4, <2>3, Limits
  <2> HIDE DEF N
  <2>5. CASE e \in handled[q]
    BY <1>1, <2>1, <2>2, <2>3, <2>4, <2>5 DEF CallsFit, N
  <2>6. CASE e \notin handled[q]
    <3>1. runs[q][e][h] <= N * (1 + faults)
      BY <2>1, <2>2, <2>3, <2>4, <2>6 DEF CallsFit, N
    <3> QED BY <1>1, <1>2, <2>4, <2>6, <3>1, RestingTicks DEF CallsFit, N
  <2> QED BY <2>5, <2>6
<1>6. Bus!TypeOK'
  <2>1. tick' \in [Profiles -> BusTick]
    BY <1>1, RestingTicks
  <2>2. \A q \in Profiles :
           /\ Bus!IsInjective(table[q]) /\ handled[q] \subseteq Bus!Range(table[q])
           /\ tick'[q].rows = {} /\ tick'[q].at = "idle"
    BY <1>2, RestingTicks DEF BusInv, Bus!TypeOK
  <2>3. ASSUME NEW q \in Profiles
        PROVE  /\ tick'[q].rows \subseteq DOMAIN table[q] /\ Bus!Cardinality(tick'[q].rows) <= LIMIT
               /\ (tick'[q].at \in {"row", "handlers"}) = (tick'[q].rows # {})
    <3>1. tick'[q].rows = {} /\ tick'[q].at = "idle"
      BY <2>2
    <3>2. Bus!Cardinality(tick'[q].rows) <= LIMIT
      BY <3>1, NoRows
    <3> QED BY <3>1, <3>2
  <2> QED BY <1>1, <1>4, <2>1, <2>2, <2>3, RegistryWiped, WiringIs, BusTyped DEF Bus!TypeOK, BusTick
<1> QED BY <1>1, <1>3, <1>5, <1>6, RegistryWiped DEF BusInv

LEMMA EmitFits == ASSUME BusInv, NEW p \in Profiles, NEW e \in BusEvents, Bus!Emit(p, e) PROVE BusInv'
<1> DEFINE s == Append(table[p], e)
<1>1. /\ tick[p].at = "detect" /\ e \notin Bus!Range(table[p])
      /\ table' = [table EXCEPT ![p] = s]
      /\ UNCHANGED <<subscriptions, handled, runs, tick, faults>>
  BY BusTyped DEF Bus!Emit
<1>2. /\ table[p] \in Seq(BusEvents) /\ s \in Seq(BusEvents)
      /\ Len(table[p]) \in Nat /\ DOMAIN table[p] = 1..Len(table[p])
      /\ DOMAIN s = 1..(Len(table[p]) + 1)
      /\ \A i \in DOMAIN table[p] : s[i] = table[p][i]
      /\ s[Len(table[p]) + 1] = e
  BY BusTyped, AppendProperties, LenProperties
<1>3. /\ DOMAIN s = DOMAIN table[p] \cup {Len(table[p]) + 1}
      /\ Len(table[p]) + 1 \notin DOMAIN table[p]
  BY <1>2
<1>4. \A i \in DOMAIN table[p] : table[p][i] # e
  BY <1>1 DEF Bus!Range
<1>5. tick[p].rows = {} /\ handled[p] \subseteq Bus!Range(table[p]) /\ Bus!IsInjective(table[p])
  BY <1>1 DEF BusInv, Bus!TypeOK
<1> HIDE DEF s
<1>6. \A q \in Profiles : table'[q] = IF q = p THEN s ELSE table[q]
  BY <1>1, BusTyped
<1>7. RegistryFits'
  BY <1>1, BusTyped, RegistryKept DEF BusInv, UnderWay, WiredBy
<1>8. RowsArePending'
  BY <1>1, <1>5, <1>6 DEF BusInv, RowsArePending
<1>9. Bus!HandledInOrder'
  <2> SUFFICES ASSUME NEW q \in Profiles, NEW i \in DOMAIN table'[q], NEW j \in DOMAIN table'[q],
                      i < j, table'[q][j] \in handled[q]
               PROVE  table'[q][i] \in handled[q]
    BY <1>1 DEF Bus!HandledInOrder
  <2>1. CASE q = p
    <3>1. e \notin handled[p]
      BY <1>1, <1>5
    <3>2. j \in DOMAIN table[p]
      BY <1>2, <1>3, <1>6, <2>1, <3>1
    <3>3. i \in DOMAIN table[p]
      BY <1>2, <1>6, <2>1, <3>2
    <3> QED BY <1>2, <1>6, <2>1, <3>2, <3>3 DEF BusInv, Bus!HandledInOrder
  <2>2. CASE q # p
    BY <1>6, <2>2 DEF BusInv, Bus!HandledInOrder
  <2> QED BY <2>1, <2>2
<1>10. CallsCounted'
  <2> SUFFICES ASSUME NEW q \in Profiles, NEW f \in BusEvents, NEW h \in Bus!Handlers
               PROVE  CallsFit(q, f, h)'
    BY DEF CallsCounted
  <2>1. CallsFit(q, f, h)
    BY DEF BusInv, CallsCounted
  <2>2. CASE q = p
    BY <1>1, <2>1, <2>2 DEF CallsFit
  <2>3. CASE q # p
    <3>1. Bus!AtHand(q)' = Bus!AtHand(q)
      BY <1>1, <1>6, <2>3 DEF Bus!AtHand
    <3> QED BY <1>1, <2>1, <3>1 DEF CallsFit
  <2> QED BY <2>2, <2>3
<1>11. Bus!TypeOK'
  <2>1. table' \in [Profiles -> Seq(BusEvents)]
    BY <1>1, <1>2, BusTyped
  <2>2. Bus!IsInjective(s)
    BY <1>2, <1>3, <1>4, <1>5 DEF Bus!IsInjective
  <2>3. Bus!Range(table[p]) \subseteq Bus!Range(s) /\ DOMAIN table[p] \subseteq DOMAIN s
    BY <1>2, <1>3 DEF Bus!Range
  <2>4. \A q \in Profiles :
           /\ Bus!IsInjective(table[q]) /\ handled[q] \subseteq Bus!Range(table[q])
           /\ tick[q].rows \subseteq DOMAIN table[q] /\ Bus!Cardinality(tick[q].rows) <= LIMIT
           /\ (tick[q].at \in {"row", "handlers"}) = (tick[q].rows # {})
    BY DEF BusInv, Bus!TypeOK
  <2>5. \A q \in Profiles :
           /\ Bus!IsInjective(table'[q]) /\ handled[q] \subseteq Bus!Range(table'[q])
           /\ tick[q].rows \subseteq DOMAIN table'[q]
    BY <1>6, <2>2, <2>3, <2>4
  <2>6. faults \in 0..BusFaults
    BY DEF BusInv, Bus!TypeOK
  <2> QED BY <1>1, <2>1, <2>4, <2>5, <2>6, BusTyped, WiringIs DEF Bus!TypeOK, BusTick
<1> QED BY <1>7, <1>8, <1>9, <1>10, <1>11 DEF BusInv

LEMMA BusSteps == BusInv /\ [Next]_vars => BusInv'
<1> SUFFICES ASSUME BusInv, [Bus!Next]_Bus!vars PROVE BusInv'
  BY BusMoves
<1>1. CASE UNCHANGED Bus!vars
  <2>1. UNCHANGED <<subscriptions, table, handled, runs, tick, faults>>
    BY <1>1 DEF Bus!vars
  <2>2. Bus!TypeOK' /\ Bus!HandledInOrder'
    BY <2>1 DEF BusInv, Bus!TypeOK, Bus!HandledInOrder
  <2>3. RegistryFits' /\ RowsArePending'
    BY <2>1 DEF BusInv, RegistryFits, RowsArePending, UnderWay, WiredBy
  <2>4. CallsCounted'
    BY <2>1, CallsKept DEF BusInv
  <2> QED BY <2>2, <2>3, <2>4 DEF BusInv
<1>2. CASE Bus!Next
  <2>1. ASSUME NEW p \in Profiles,
               \/ Bus!ClearSubscriptions(p) \/ Bus!NotDue(p)
               \/ Bus!Subscribe(p) \/ Bus!Select(p) \/ Bus!LookUp(p) \/ Bus!Handle(p)
               \/ Bus!Mark(p) \/ Bus!MarkFails(p)
               \/ \E e \in BusEvents : Bus!Emit(p, e)
        PROVE  BusInv'
    BY <2>1, ClearFits, NotDueFits, SubscribeFits, SelectFits, LookUpFits, HandleFits,
       MarkFits, MarkFailsFits, EmitFits
  <2> QED BY <1>2, <2>1, BusCrashFits, BusCycleFits DEF Bus!Next
<1> QED BY <1>1, <1>2

\* Events are handled in the order they were detected, and a handler is called
\* at most once per profile and dispatch of an event, however the profiles'
\* threads rewire the registry, whatever marks are lost and whenever the
\* process dies (event_bus.dispatch_pending, register_default_handlers).
THEOREM HandlersAreCalledInOrder == Spec => []CallsInOrder
<1>1. BusInv => CallsInOrder
  <2> SUFFICES ASSUME BusInv, NEW p \in Profiles, NEW e \in BusEvents, NEW h \in Bus!Handlers
               PROVE  runs[p][e][h] <= Cardinality(Profiles) * (1 + faults)
    BY BusCount DEF CallsInOrder, Bus!CallsBounded, BusInv
  <2>1. CallsFit(p, e, h)
    BY DEF BusInv, CallsCounted
  <2>2. runs[p][e][h] \in Nat /\ Times(tick[p].todo, h) \in Nat /\ faults \in Nat
    BY BusTyped, TimesCounts DEF BusTick
  <2> DEFINE N == Cardinality(Profiles)
  <2>3. /\ N \in Nat /\ N * faults \in Nat /\ N * (1 + faults) \in Nat
        /\ N * (1 + faults) = N * faults + N
    BY <2>2, BusBounds, Limits
  <2> HIDE DEF N
  <2> QED BY <2>1, <2>2, <2>3 DEF CallsFit, N
<1> QED BY <1>1, BusInit, BusSteps, PTL DEF Spec

=============================================================================

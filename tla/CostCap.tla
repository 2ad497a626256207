------------------------------- MODULE CostCap -------------------------------
(***************************************************************************)
(* The daily ceiling on AI spending: the gate before every call            *)
(* (ai_providers._enforce_cost_cap over cost_guard), the cost ledger it    *)
(* sums, the shadow evaluation that is dispatched after a call and has a   *)
(* ledger and a cap of its own (shadow_eval), and the advisory alert       *)
(* (multi_scheduler._task_cost_check).                                     *)
(*                                                                         *)
(* A call is gated on an estimate and writes its real cost when it         *)
(* returns.  The profiles run in parallel, and a profile's ensemble asks   *)
(* its specialists side by side (ensemble._run_stage), so between the two  *)
(* other calls pass the same gate, of the same profile too.  Money is      *)
(* counted in whole units.                                                 *)
(***************************************************************************)
EXTENDS Integers, FiniteSetsExt, FiniteSets

CONSTANTS Profiles,
          Callers,     \* the threads that call: of the cycles, of the specialists
          Payer,       \* caller -> the profile whose ledger its calls go to
          Workers,     \* the threads of the shadow pool
          MAX_QUEUE,   \* bound on the shadow jobs that wait for a worker
          Estimates, Ceiling, ShadowCap,
          Surcharge,   \* how far a call may cost more than its estimate
          ALERT_AT     \* the level of the advisory alert

CostAssumption ==
    /\ IsFiniteSet(Profiles) /\ IsFiniteSet(Callers) /\ Payer \in [Callers -> Profiles]
    /\ IsFiniteSet(Workers) /\ IsFiniteSet(Estimates)
    /\ Callers # {} /\ Workers # {} /\ Estimates # {}
    /\ Estimates \subseteq Nat \ {0}
    /\ {Ceiling, ShadowCap, Surcharge, ALERT_AT, MAX_QUEUE} \subseteq Nat

VARIABLES
    ledger,     \* profile -> ai_cost_ledger of today
    shadow,     \* ai_shadow_calls of today, over all profiles
    call,       \* caller -> [step, est]
    queue,      \* shadow jobs dispatched and not started
    job,        \* worker -> [step, est]
    alerted     \* _cost_alerted_today

vars == <<ledger, shadow, call, queue, job, alerted>>

Spent == MapThenSumSet(LAMBDA p : ledger[p], Profiles)

Idle == [step |-> "idle", est |-> 0]

\* What a call that was estimated at est may cost: the estimate is priced for
\* the model the caller named and for max_tokens, but a dearer fallback may
\* serve it and a thinking model has its token budget raised.
Costs(est) == 1 .. est + Surcharge

-----------------------------------------------------------------------------
\* CanAfford that leaves the call it is asked about out of the sum.
CanAffordSoFar(est) == Spent <= Ceiling

\* can_afford_action
CanAfford(est) == Spent + est <= Ceiling

\* _shadow_cap_exceeded.  Its lock is held for the question only.
ShadowCapExceeded(est) == shadow + est > ShadowCap

\* The call goes out, or CostCapExceeded is raised and nothing is sent.
Enforce(c) ==
    /\ call[c].step = "idle"
    /\ \E e \in Estimates :
           call' = IF CanAfford(e) THEN [call EXCEPT ![c] = [step |-> "flying", est |-> e]]
                                   ELSE call
    /\ UNCHANGED <<ledger, shadow, queue, job, alerted>>

\* The answer arrives: dispatch_shadow_calls, then log_ai_call.
Serve(c) ==
    /\ call[c].step = "flying"
    /\ \E cost \in Costs(call[c].est) : ledger' = [ledger EXCEPT ![Payer[c]] = @ + cost]
    /\ \E n \in {0, 1} : queue' = Min({queue + n, MAX_QUEUE})
    /\ call' = [call EXCEPT ![c] = Idle]
    /\ UNCHANGED <<shadow, job, alerted>>

\* No provider answered: nothing is charged.
Fail(c) ==
    /\ call[c].step = "flying"
    /\ call' = [call EXCEPT ![c] = Idle]
    /\ UNCHANGED <<ledger, shadow, queue, job, alerted>>

\* A worker takes a job and asks for leave; a refused job only leaves a row.
StartShadow(w) ==
    /\ queue > 0 /\ job[w].step = "idle"
    /\ queue' = queue - 1
    /\ \E e \in Estimates :
           job' = IF ShadowCapExceeded(e) THEN job
                  ELSE [job EXCEPT ![w] = [step |-> "flying", est |-> e]]
    /\ UNCHANGED <<ledger, shadow, call, alerted>>

\* Its answer, or its failure, is written to the shadow ledger.
EndShadow(w) ==
    /\ job[w].step = "flying"
    /\ \E c \in {0} \cup Costs(job[w].est) : shadow' = shadow + c
    /\ job' = [job EXCEPT ![w] = Idle]
    /\ UNCHANGED <<ledger, call, queue, alerted>>

-----------------------------------------------------------------------------
(* The advisory alert, once per cycle and profile.                          *)

WorthSumming(p) == 10 * ledger[p] > ALERT_AT

CostCheck(p) ==
    /\ p \notin alerted /\ WorthSumming(p) /\ Spent > ALERT_AT
    /\ alerted' = alerted \cup {p}
    /\ UNCHANGED <<ledger, shadow, call, queue, job>>

\* Midnight in New York: the ledgers' sums start over, the set does not.
NewDay ==
    /\ ledger' = [p \in Profiles |-> 0]
    /\ shadow' = 0
    /\ UNCHANGED <<call, queue, job, alerted>>

Restart ==
    /\ call' = [c \in Callers |-> Idle]
    /\ job' = [w \in Workers |-> Idle]
    /\ queue' = 0
    /\ alerted' = {}
    /\ UNCHANGED <<ledger, shadow>>

Init ==
    /\ ledger = [p \in Profiles |-> 0]
    /\ shadow = 0
    /\ call = [c \in Callers |-> Idle]
    /\ queue = 0
    /\ job = [w \in Workers |-> Idle]
    /\ alerted = {}

Caller(c) == Enforce(c) \/ Serve(c) \/ Fail(c)
Worker(w) == StartShadow(w) \/ EndShadow(w)

Next ==
    \/ \E c \in Callers : Caller(c)
    \/ \E p \in Profiles : CostCheck(p)
    \/ \E w \in Workers : Worker(w)
    \/ NewDay \/ Restart

Spec == Init /\ [][Next]_vars

-----------------------------------------------------------------------------
Flight == [step : {"idle", "flying"}, est : Estimates \cup {0}]

\* Every part of the state has its shape, and the queue its bound.
TypeOK ==
    /\ ledger \in [Profiles -> Nat] /\ shadow \in Nat
    /\ call \in [Callers -> Flight] /\ job \in [Workers -> Flight]
    /\ queue \in 0..MAX_QUEUE
    /\ alerted \subseteq Profiles

\* However the calls interleave, those of one profile's specialists and those of
\* different profiles, today's spending passes the ceiling by no more than what
\* the other threads can have in flight when the last one is let through, and
\* the surcharges.
OverspendBounded ==
    LET n == Cardinality(Callers)
    IN  Spent <= Ceiling + n * Surcharge + (n - 1) * Max(Estimates)

\* The same of the shadow ledger and the workers of its pool.
ShadowOverspendBounded ==
    LET n == Cardinality(Workers)
    IN  shadow <= ShadowCap + n * Surcharge + (n - 1) * Max(Estimates)
=============================================================================

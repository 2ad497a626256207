--------------------------- MODULE ProviderCircuit ---------------------------
(***************************************************************************)
(* The circuit breaker around the AI providers (provider_circuit.py) and   *)
(* the failover loop of call_ai (ai_providers.py) that asks it.            *)
(*                                                                         *)
(* A circuit belongs to one (provider, model), called a model here.  A     *)
(* thread that calls walks down its chain: it skips a model whose circuit  *)
(* is open, otherwise sends the request, and reports what came of it.  The *)
(* question, the request and the report are separate steps of the thread,  *)
(* and other threads run between them.                                     *)
(*                                                                         *)
(* Time is counted in cool-downs of OPEN_COOLDOWN_SECONDS.                 *)
(***************************************************************************)
EXTENDS Integers, Sequences, FiniteSetsExt

CONSTANTS Threads, Models,
          Chain,            \* thread -> its models, the primary first
          FAIL_THRESHOLD, MAX_COOLDOWN

ChainAssumption ==
    Chain \in [Threads -> Seq(Models)] /\ \A t \in Threads : Chain[t] # <<>>
LimitsAssumption ==
    FAIL_THRESHOLD \in Nat \ {0} /\ MAX_COOLDOWN \in Nat \ {0}

VARIABLES
    circuit,    \* model -> its _ProviderState; age is the time since opened_at
    call,       \* thread -> the call it is making
    up          \* model -> whether the provider answers at all

vars == <<circuit, call, up>>

-----------------------------------------------------------------------------
(* The circuit.  Once it is open nobody reads the counter, and only a       *)
(* success resets it, so it need not be counted beyond FAIL_THRESHOLD; nor  *)
(* is the age told apart beyond the longest cool-down.                      *)

Closed == [failures |-> 0, open |-> FALSE, age |-> 0, cooldown |-> 1]

HalfOpen(m) == circuit[m].open /\ circuit[m].age >= circuit[m].cooldown

\* is_open: skip this model.
IsOpen(m) == circuit[m].open /\ circuit[m].age < circuit[m].cooldown

RecordSuccess(m) == circuit' = [circuit EXCEPT ![m] = Closed]

\* Failed without the question whether the circuit was half open.
FailedAnyhow(m) ==
    LET c == circuit[m]
        n == Min({c.failures + 1, FAIL_THRESHOLD})
    IN  [c EXCEPT !.failures = n, !.open = n >= FAIL_THRESHOLD, !.age = 0,
                  !.cooldown = IF c.open THEN Min({2 * @, MAX_COOLDOWN}) ELSE @]

\* record_failure: a failed probe opens the circuit again for twice as long,
\* a failure that comes late changes nothing, the third in a row opens it.
Failed(m) ==
    LET c == circuit[m]
        n == Min({c.failures + 1, FAIL_THRESHOLD})
    IN  IF c.open
        THEN IF HalfOpen(m)
             THEN [c EXCEPT !.cooldown = Min({2 * c.cooldown, MAX_COOLDOWN}), !.age = 0]
             ELSE c
        ELSE [c EXCEPT !.failures = n, !.open = n >= FAIL_THRESHOLD, !.age = 0]

\* RecordFailure that forgets the cap of the cool-down.
UncappedFailure(m) ==
    circuit' = [circuit EXCEPT ![m] = IF HalfOpen(m)
                                      THEN [circuit[m] EXCEPT !.cooldown = 2 * @, !.age = 0]
                                      ELSE Failed(m)]

RecordFailure(m) == circuit' = [circuit EXCEPT ![m] = Failed(m)]

-----------------------------------------------------------------------------
(* call_ai.  at is the place in the chain.                                  *)

Idle == [step |-> "idle", at |-> 1]
Outcomes == {"ok", "transient", "permanent"}
Steps == {"idle", "asking", "flying", "served", "rejected", "unavailable"} \cup Outcomes

Target(t) == Chain[t][call[t].at]
Resting(t) == call[t].step \in {"idle", "served", "rejected", "unavailable"}

Begin(t) ==
    /\ Resting(t)
    /\ call' = [call EXCEPT ![t] = [Idle EXCEPT !.step = "asking"]]
    /\ UNCHANGED <<circuit, up>>

\* The next model of the chain, or AIProviderUnavailable at its end.
Onward(t, c) ==
    IF c.at < Len(Chain[t]) THEN [c EXCEPT !.step = "asking", !.at = @ + 1]
                            ELSE [c EXCEPT !.step = "unavailable"]

Skip(t) ==
    /\ call[t].step = "asking" /\ IsOpen(Target(t))
    /\ call' = [call EXCEPT ![t] = Onward(t, @)]
    /\ UNCHANGED <<circuit, up>>

Send(t) ==
    /\ call[t].step = "asking" /\ ~IsOpen(Target(t))
    /\ call' = [call EXCEPT ![t] = [@ EXCEPT !.step = "flying"]]
    /\ UNCHANGED <<circuit, up>>

\* The request ends: the last of its retries decides.  A provider that is up
\* may still refuse the request for good (bad key, bad input).
Answer(t) ==
    /\ call[t].step = "flying"
    /\ \E o \in IF up[Target(t)] THEN {"ok", "permanent"} ELSE {"transient"} :
           call' = [call EXCEPT ![t].step = o]
    /\ UNCHANGED <<circuit, up>>

Serve(t) ==
    /\ call[t].step = "ok"
    /\ RecordSuccess(Target(t))
    /\ call' = [call EXCEPT ![t] = [@ EXCEPT !.step = "served"]]
    /\ UNCHANGED up

\* Not transient: raised at once, and the circuit hears nothing of it.
Raise(t) ==
    /\ call[t].step = "permanent"
    /\ call' = [call EXCEPT ![t] = [@ EXCEPT !.step = "rejected"]]
    /\ UNCHANGED <<circuit, up>>

\* FailOver that moves on first and charges the failure to the next model.
FailOverBlamingNext(t) ==
    /\ call[t].step = "transient"
    /\ call' = [call EXCEPT ![t] = Onward(t, @)]
    /\ RecordFailure(Chain[t][call'[t].at])
    /\ UNCHANGED up

FailOver(t) ==
    /\ call[t].step = "transient"
    /\ RecordFailure(Target(t))
    /\ call' = [call EXCEPT ![t] = Onward(t, @)]
    /\ UNCHANGED up

-----------------------------------------------------------------------------
(* The world: providers go down and come back, time passes.                 *)

Toggle(m) == up' = [up EXCEPT ![m] = ~@] /\ UNCHANGED <<circuit, call>>

Tick ==
    /\ circuit' = [m \in Models |-> IF circuit[m].open
                                    THEN [circuit[m] EXCEPT !.age = Min({@ + 1, MAX_COOLDOWN})]
                                    ELSE circuit[m]]
    /\ UNCHANGED <<call, up>>

Init ==
    /\ circuit = [m \in Models |-> Closed]
    /\ call = [t \in Threads |-> Idle]
    /\ up = [m \in Models |-> TRUE]

Step(t) == Begin(t) \/ Skip(t) \/ Send(t) \/ Answer(t) \/ Serve(t) \/ Raise(t) \/ FailOver(t)

Next == (\E t \in Threads : Step(t)) \/ (\E m \in Models : Toggle(m)) \/ Tick

\* Scans keep calling, every thread gets to run and the clock goes on.
Fairness == (\A t \in Threads : WF_vars(Step(t))) /\ WF_vars(Tick)

Spec == Init /\ [][Next]_vars /\ Fairness

-----------------------------------------------------------------------------

\* The state of every circuit and call has its shape, and no cool-down is
\* longer than the cap.
TypeOK ==
    /\ circuit \in [Models -> [failures : 0..FAIL_THRESHOLD, open : BOOLEAN,
                               age : 0..MAX_COOLDOWN, cooldown : 1..MAX_COOLDOWN]]
    /\ call \in [Threads -> [step : Steps, at : Nat]]
    /\ \A t \in Threads : call[t].at \in DOMAIN Chain[t]
    /\ up \in [Models -> BOOLEAN]

\* Several threads may fail in the same half-open window, and calls sent before
\* the circuit opened may fail long after: together they lengthen the cool-down
\* once, because it grows or starts over only when it has run out.
OneBackoffPerCooldown ==
    [][\A m \in Models :
          circuit[m].open /\ circuit'[m].open /\ circuit'[m].age < circuit[m].age
              => HalfOpen(m)]_vars

\* A model that always answered is never shut out, whatever happens to the other
\* models of the chain and to the threads that fail over to it.
InnocentStaysClosed ==
    \A m \in Models : []up[m] => []~circuit[m].open

\* A primary that came back to stay gets its circuit closed again (or refuses
\* the requests it is sent for good, time after time).
RecoveredServesAgain ==
    \A t \in Threads :
        <>[]up[Chain[t][1]]
            => []<>(~circuit[Chain[t][1]].open) \/ []<>(call[t].step = "rejected")
=============================================================================

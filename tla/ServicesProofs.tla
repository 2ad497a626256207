--------------------------- MODULE ServicesProofs ---------------------------
(* What the components beside the order path promise, for every value of      *)
(* their constants.  Each section takes one component: its type invariant,    *)
(* where needed an invariant that says more, and the theorem.                 *)
EXTENDS Services, FiniteSets, FiniteSetTheorems, SequenceTheorems, WellFoundedInduction, TLAPS

USE ServicesAssumption

-----------------------------------------------------------------------------
(* The components share no variable.                                          *)

LEMMA RiskMoves == ASSUME [Next]_vars PROVE [Risk!Next]_Risk!vars
BY DEF Next, vars, risk, Risk!vars, RiskStep, HaltsStep, ProvidersStep, CostsStep,
       StatusesStep, CycleStep, WatchStep, BusStep, ExpiryStep, EventsStep, ProtectStep

LEMMA HaltsMove == ASSUME [Next]_vars PROVE [Halts!Next]_Halts!vars
BY DEF Next, vars, halts, Halts!vars, RiskStep, HaltsStep, ProvidersStep, CostsStep,
       StatusesStep, CycleStep, WatchStep, BusStep, ExpiryStep, EventsStep, ProtectStep

LEMMA ProvidersMove == ASSUME [Next]_vars PROVE [Providers!Next]_Providers!vars
BY DEF Next, vars, providers, Providers!vars, RiskStep, HaltsStep, ProvidersStep, CostsStep,
       StatusesStep, CycleStep, WatchStep, BusStep, ExpiryStep, EventsStep, ProtectStep

LEMMA CostsMove == ASSUME [Next]_vars PROVE [Costs!Next]_Costs!vars
BY DEF Next, vars, costs, Costs!vars, RiskStep, HaltsStep, ProvidersStep, CostsStep,
       StatusesStep, CycleStep, WatchStep, BusStep, ExpiryStep, EventsStep, ProtectStep

LEMMA StatusesMove == ASSUME [Next]_vars PROVE [Statuses!Next]_Statuses!vars
BY DEF Next, vars, statuses, Statuses!vars, RiskStep, HaltsStep, ProvidersStep, CostsStep,
       StatusesStep, CycleStep, WatchStep, BusStep, ExpiryStep, EventsStep, ProtectStep

\* Data is inducted over through its least counterexample.
LEMMA LeastOf ==
    ASSUME NEW T, T \subseteq Nat, T # {}
    PROVE  \E x \in T : \A y \in T : x <= y
<1>1. PICK x \in T : \A y \in T : ~(<<y, x>> \in OpToRel(<, Nat))
  BY NatLessThanWellFounded, WFMin
<1>2. \A y \in T : ~(y < x)
  BY <1>1 DEF OpToRel
<1> QED BY <1>2

-----------------------------------------------------------------------------
(* AI providers.                                                              *)

LEMMA Lesser ==
    ASSUME NEW a \in Int, NEW b \in Int
    PROVE  Providers!Min({a, b}) = IF a <= b THEN a ELSE b
BY DEF Providers!Min

Circuit == [failures : 0..FAIL_THRESHOLD, open : BOOLEAN,
            age : 0..MAX_COOLDOWN, cooldown : 1..MAX_COOLDOWN]
Circuits == [Models -> Circuit]

\* A late failure leaves the circuit alone; only a half-open one starts over.
LEMMA FailureCounts ==
    ASSUME circuit \in Circuits, NEW m \in Models
    PROVE  /\ Providers!Failed(m) \in Circuit
           /\ circuit[m].open /\ Providers!Failed(m).age < circuit[m].age
                 => Providers!HalfOpen(m)
<1>1. PICK c \in Circuit : c = circuit[m]
  BY DEF Circuits
<1> DEFINE n == Providers!Min({c.failures + 1, FAIL_THRESHOLD})
           d == Providers!Min({2 * c.cooldown, MAX_COOLDOWN})
<1>2. n \in 0..FAIL_THRESHOLD /\ d \in 1..MAX_COOLDOWN
  BY Lesser DEF Circuit, Providers!LimitsAssumption
<1>3. Providers!Failed(m) =
         IF c.open
         THEN IF c.age >= c.cooldown THEN [c EXCEPT !.cooldown = d, !.age = 0] ELSE c
         ELSE [c EXCEPT !.failures = n, !.open = n >= FAIL_THRESHOLD, !.age = 0]
  BY <1>1 DEF Providers!Failed, Providers!HalfOpen
<1> HIDE DEF n, d
<1>4. Providers!Failed(m) \in Circuit
  <2>1. 0 \in 0..MAX_COOLDOWN /\ (n >= FAIL_THRESHOLD) \in BOOLEAN
    BY DEF Providers!LimitsAssumption
  <2>2. CASE c.open /\ c.age >= c.cooldown
    BY <1>2, <1>3, <2>1, <2>2 DEF Circuit
  <2>3. CASE c.open /\ ~(c.age >= c.cooldown)
    BY <1>3, <2>3
  <2>4. CASE ~c.open
    <3>1. PICK b \in BOOLEAN : b = (n >= FAIL_THRESHOLD)
      BY <2>1
    <3>2. Providers!Failed(m) = [c EXCEPT !.failures = n, !.open = b, !.age = 0]
      BY <1>3, <2>4, <3>1
    <3> QED BY <1>2, <2>1, <3>2 DEF Circuit
  <2> QED BY <2>2, <2>3, <2>4
<1>5. c.open /\ Providers!Failed(m).age < c.age => c.age >= c.cooldown
  BY <1>3 DEF Circuit
<1> QED BY <1>1, <1>4, <1>5 DEF Providers!HalfOpen

LEMMA TargetIsModel ==
    ASSUME Providers!TypeOK, NEW t \in Threads
    PROVE  Providers!Target(t) \in Models
BY DEF Providers!TypeOK, Providers!Target, Providers!ChainAssumption

LEMMA ProvidersTypeInit == Providers!Init => Providers!TypeOK
<1> SUFFICES ASSUME Providers!Init PROVE Providers!TypeOK
  OBVIOUS
<1>1. \A t \in Threads : 1 \in DOMAIN Chain[t]
  BY DEF Providers!ChainAssumption
<1> QED BY <1>1 DEF Providers!Init, Providers!TypeOK, Providers!Closed, Providers!Idle,
                    Providers!Steps, Providers!LimitsAssumption

\* What every step does with the circuits, and that it keeps the shape of the state.
CircuitsMove ==
    /\ circuit' \in Circuits
    /\ \A m \in Models :
          circuit[m].open /\ circuit'[m].open /\ circuit'[m].age < circuit[m].age
              => Providers!HalfOpen(m)

LEMMA ProvidersKeep ==
    ASSUME Providers!TypeOK, [Providers!Next]_Providers!vars
    PROVE  Providers!TypeOK' /\ CircuitsMove
<1>1. circuit \in Circuits /\ FAIL_THRESHOLD \in Nat \ {0} /\ MAX_COOLDOWN \in Nat \ {0}
  BY DEF Circuits, Circuit, Providers!TypeOK, Providers!LimitsAssumption
<1>2. \A m \in Models : circuit[m].age \in Int
  BY <1>1 DEF Circuits, Circuit
<1>3. circuit' = circuit => CircuitsMove
  BY <1>1, <1>2 DEF CircuitsMove
<1>4. ASSUME NEW t \in Threads, Providers!Step(t) PROVE CircuitsMove
  <2>1. Providers!Target(t) \in Models
    BY TargetIsModel
  <2>2. CASE Providers!Serve(t)
    <3>1. Providers!Closed \in Circuit /\ ~Providers!Closed.open
      BY DEF Providers!Closed, Circuit, Providers!LimitsAssumption
    <3>2. circuit' = [circuit EXCEPT ![Providers!Target(t)] = Providers!Closed]
      BY <2>2 DEF Providers!Serve, Providers!RecordSuccess
    <3> QED BY <2>1, <3>1, <3>2, <1>1, <1>2 DEF CircuitsMove, Circuits
  <2>3. CASE Providers!FailOver(t)
    BY <2>1, <2>3, <1>1, <1>2, FailureCounts
       DEF Providers!FailOver, Providers!RecordFailure, CircuitsMove, Circuits
  <2> QED BY <1>3, <1>4, <2>2, <2>3
          DEF Providers!Step, Providers!Begin, Providers!Skip, Providers!Send,
              Providers!Answer, Providers!Raise
<1>5. ASSUME Providers!Tick PROVE CircuitsMove
  <2> DEFINE older(m) == Providers!Min({circuit[m].age + 1, MAX_COOLDOWN})
  <2>1. \A m \in Models : older(m) \in 0..MAX_COOLDOWN /\ older(m) >= circuit[m].age
    BY <1>1, Lesser DEF Circuits, Circuit
  <2>2. circuit' = [m \in Models |-> IF circuit[m].open THEN [circuit[m] EXCEPT !.age = older(m)]
                                                         ELSE circuit[m]]
    BY <1>5 DEF Providers!Tick
  <2> HIDE DEF older
  <2>3. ASSUME NEW m \in Models
        PROVE  circuit'[m] \in Circuit /\ circuit'[m].age >= circuit[m].age
    <3>1. PICK c \in Circuit : c = circuit[m]
      BY <1>1 DEF Circuits
    <3>2. circuit'[m] = IF c.open THEN [c EXCEPT !.age = older(m)] ELSE c
      BY <2>2, <3>1
    <3> QED BY <2>1, <3>1, <3>2 DEF Circuit
  <2>4. circuit' \in Circuits
    BY <2>2, <2>3 DEF Circuits
  <2>5. ASSUME NEW m \in Models PROVE ~(circuit'[m].age < circuit[m].age)
    BY <2>3, <2>4, <1>1 DEF Circuits, Circuit
  <2> QED BY <2>4, <2>5 DEF CircuitsMove
<1>6. ASSUME NEW t \in Threads, Providers!Step(t)
      PROVE  /\ call' \in [Threads -> [step : Providers!Steps, at : Nat]]
             /\ \A s \in Threads : call'[s].at \in DOMAIN Chain[s]
  <2>1. PICK c \in [step : Providers!Steps, at : Nat] : c = call[t] /\ c.at \in DOMAIN Chain[t]
    BY DEF Providers!TypeOK
  <2>2. Len(Chain[t]) \in Nat /\ DOMAIN Chain[t] = 1..Len(Chain[t]) /\ 1 \in DOMAIN Chain[t]
    BY DEF Providers!ChainAssumption
  <2>3. Providers!Onward(t, c) \in [step : Providers!Steps, at : Nat]
        /\ Providers!Onward(t, c).at \in DOMAIN Chain[t]
    <3>1. c.at \in 1..Len(Chain[t])
      BY <2>1, <2>2
    <3>2. CASE c.at < Len(Chain[t])
      <4>1. Providers!Onward(t, c) = [c EXCEPT !.step = "asking", !.at = c.at + 1]
        BY <3>2 DEF Providers!Onward
      <4>2. c.at + 1 \in 1..Len(Chain[t]) /\ c.at + 1 \in Nat
        BY <2>2, <3>1, <3>2
      <4> QED BY <2>2, <4>1, <4>2 DEF Providers!Steps
    <3>3. CASE ~(c.at < Len(Chain[t]))
      <4>1. Providers!Onward(t, c) = [c EXCEPT !.step = "unavailable"]
        BY <3>3 DEF Providers!Onward
      <4> QED BY <2>1, <4>1 DEF Providers!Steps
    <3> QED BY <3>2, <3>3
  <2>4. PICK d : /\ d \in [step : Providers!Steps, at : Nat] /\ d.at \in DOMAIN Chain[t]
                 /\ call' = [call EXCEPT ![t] = d]
    <3>1. CASE Providers!Begin(t)
      BY <3>1, <2>2 DEF Providers!Begin, Providers!Idle, Providers!Steps
    <3>2. CASE Providers!Skip(t) \/ Providers!FailOver(t)
      BY <3>2, <2>1, <2>3 DEF Providers!Skip, Providers!FailOver
    <3>3. CASE Providers!Answer(t)
      <4>1. PICK o \in Providers!Outcomes : call' = [call EXCEPT ![t].step = o]
        BY <3>3 DEF Providers!Answer, Providers!Outcomes
      <4>2. call' = [call EXCEPT ![t] = [c EXCEPT !.step = o]]
        BY <4>1, <2>1
      <4> QED BY <4>1, <4>2, <2>1 DEF Providers!Steps
    <3>4. CASE Providers!Send(t) \/ Providers!Serve(t) \/ Providers!Raise(t)
      BY <3>4, <2>1 DEF Providers!Send, Providers!Serve, Providers!Raise, Providers!Steps
    <3> QED BY <1>6, <3>1, <3>2, <3>3, <3>4 DEF Providers!Step
  <2> QED BY <2>4 DEF Providers!TypeOK
<1>7. (\E t \in Threads : Providers!Step(t)) => answering' = answering
  BY DEF Providers!Step, Providers!Begin, Providers!Skip, Providers!Send, Providers!Answer,
         Providers!Serve, Providers!Raise, Providers!FailOver
<1>8. CASE \E t \in Threads : Providers!Step(t)
  BY <1>4, <1>6, <1>7, <1>8 DEF Providers!TypeOK, CircuitsMove, Circuits, Circuit
<1>9. CASE Providers!Tick
  BY <1>5, <1>9 DEF Providers!Tick, Providers!TypeOK, CircuitsMove, Circuits, Circuit
<1>10. CASE \E m \in Models : Providers!Toggle(m)
  BY <1>3, <1>10 DEF Providers!Toggle, Providers!TypeOK
<1>11. CASE UNCHANGED Providers!vars
  BY <1>3, <1>11 DEF Providers!vars, Providers!TypeOK
<1> QED BY <1>8, <1>9, <1>10, <1>11 DEF Providers!Next

\* The circuits and calls of the providers have their shape.
THEOREM ProvidersTyped == Spec => []Providers!TypeOK
<1>1. Init => Providers!TypeOK
  BY ProvidersTypeInit DEF Init
<1>2. Providers!TypeOK /\ [Next]_vars => Providers!TypeOK'
  BY ProvidersMove, ProvidersKeep
<1> QED BY <1>1, <1>2, PTL DEF Spec

\* Several failures in one half-open window, and the late ones, lengthen a
\* cool-down once: record_failure of provider_circuit.py under any threads.
THEOREM BackoffGrowsOncePerCooldown == Spec => OneBackoffPerCooldown
<1> DEFINE Once == \A m \in Models :
                      circuit[m].open /\ circuit'[m].open /\ circuit'[m].age < circuit[m].age
                          => Providers!HalfOpen(m)
<1>1. Providers!TypeOK /\ [Next]_vars => [Once]_Providers!vars
  BY ProvidersMove, ProvidersKeep DEF CircuitsMove
<1>2. OneBackoffPerCooldown <=> [][Once]_Providers!vars
  BY DEF OneBackoffPerCooldown, Providers!OneBackoffPerCooldown
<1> HIDE DEF Once
<1> QED BY <1>1, <1>2, ProvidersTyped, PTL DEF Spec

-----------------------------------------------------------------------------
(* Profile halts.  A breach that holds the halt is one the operator has yet    *)
(* to see, and money that was there when the cache was filled has not been     *)
(* gone for longer than the entry is old.                                      *)

BreachHasOwner == \A p \in Profiles : halt[p] = "breach" => breached[p]
CacheDatesLoss == equity.known /\ equity.funded /\ ~funded /\ equity.age < Ttl
                      => lost <= equity.age
HaltsInv == Halts!TypeOK /\ BreachHasOwner /\ CacheDatesLoss

LEMMA HaltsInit == Halts!Init => HaltsInv
BY DEF Halts!Init, HaltsInv, Halts!TypeOK, BreachHasOwner, CacheDatesLoss, Halts!Cause,
       Halts!NoEquity, Halts!ProfileHaltsAssumption

\* One call of the funding guard: what it answers and what it leaves in the cache.
LEMMA GuardAnswers ==
    ASSUME HaltsInv, NEW s \in Halts!FundingStatus
    PROVE  /\ s.cache \in [known : BOOLEAN, funded : BOOLEAN, age : 0..Ttl]
           /\ s.cache.known /\ s.cache.funded /\ ~funded /\ s.cache.age < Ttl
                 => lost <= s.cache.age
           /\ ~Unreachable /\ s.verdict # "short" => funded \/ lost < Ttl
<1>1. Ttl \in Nat \ {0} /\ 0 \in 0..Ttl
  BY DEF Halts!ProfileHaltsAssumption
<1>2. PICK e \in [known : BOOLEAN, funded : BOOLEAN, age : 0..Ttl] :
          e = equity /\ lost \in Nat /\ funded \in BOOLEAN
  BY DEF HaltsInv, Halts!TypeOK
<1>3. e.known /\ e.funded /\ ~funded /\ e.age < Ttl => lost <= e.age
  BY <1>2 DEF HaltsInv, CacheDatesLoss
<1>4. CASE Halts!CacheFresh
  <2>1. s = [verdict |-> IF e.funded THEN "funded" ELSE "short", cache |-> e]
    BY <1>2, <1>4 DEF Halts!FundingStatus
  <2> QED BY <1>1, <1>2, <1>3, <1>4, <2>1 DEF Halts!CacheFresh
<1>5. CASE ~Halts!CacheFresh
  <2>1. \/ s = [verdict |-> IF funded THEN "funded" ELSE "short",
                cache |-> [known |-> TRUE, funded |-> funded, age |-> 0]]
        \/ s = [verdict |-> "unreachable", cache |-> e] /\ Unreachable
    BY <1>2, <1>5 DEF Halts!FundingStatus
  <2>2. CASE s = [verdict |-> "unreachable", cache |-> e] /\ Unreachable
    BY <1>2, <1>3, <2>2
  <2>3. CASE s = [verdict |-> IF funded THEN "funded" ELSE "short",
                  cache |-> [known |-> TRUE, funded |-> funded, age |-> 0]]
    BY <1>1, <1>2, <2>3
  <2> QED BY <2>1, <2>2, <2>3
<1> QED BY <1>4, <1>5

\* What a step of the halts does.
HaltsStepsRight ==
    /\ HaltsInv'
    /\ \A p \in Profiles : halt[p] = "breach" /\ halt'[p] = "none" => breached[p] /\ ~breached'[p]
    /\ ~Unreachable => \A p \in Profiles :
           stage[p] = "idle" /\ stage'[p] = "gate" => funded \/ lost < Ttl

LEMMA HaltsKeep ==
    ASSUME HaltsInv, [Halts!Next]_Halts!vars PROVE HaltsStepsRight
<1> USE DEF HaltsStepsRight, HaltsInv, Halts!TypeOK, BreachHasOwner, CacheDatesLoss, Halts!Cause
<1>1. Ttl \in Nat \ {0}
  BY DEF Halts!ProfileHaltsAssumption
<1>2. ASSUME NEW p \in Profiles, Halts!Reconcile(p) PROVE HaltsStepsRight
  BY <1>2 DEF Halts!Reconcile, Halts!Halted, Halts!ClearedIf
<1>3. ASSUME NEW p \in Profiles, Halts!Breach(p) PROVE HaltsStepsRight
  BY <1>3 DEF Halts!Breach, Halts!Halted
<1>4. ASSUME NEW p \in Profiles, Halts!BooksChange(p) PROVE HaltsStepsRight
  BY <1>4 DEF Halts!BooksChange
<1>5. ASSUME NEW p \in Profiles, Halts!OperatorClears(p) PROVE HaltsStepsRight
  BY <1>5 DEF Halts!OperatorClears
<1>6. ASSUME NEW p \in Profiles, Halts!EnforceFunding(p) PROVE HaltsStepsRight
  <2>1. PICK s \in Halts!FundingStatus :
           /\ equity' = s.cache
           /\ halt' = IF s.verdict = "short" THEN Halts!Halted(p, "funding")
                                             ELSE Halts!ClearedIf(p, "funding")
           /\ stage' = [stage EXCEPT ![p] = IF s.verdict = "short" THEN "idle" ELSE "gate"]
    BY <1>6 DEF Halts!EnforceFunding
  <2>2. /\ equity' \in [known : BOOLEAN, funded : BOOLEAN, age : 0..Ttl]
        /\ equity'.known /\ equity'.funded /\ ~funded /\ equity'.age < Ttl => lost <= equity'.age
        /\ ~Unreachable /\ s.verdict # "short" => funded \/ lost < Ttl
    BY <2>1, GuardAnswers
  <2>3. UNCHANGED <<diverged, breached, funded, lost>>
    BY <1>6 DEF Halts!EnforceFunding
  <2>4. /\ halt' \in [Profiles -> Halts!Cause] /\ stage' \in [Profiles -> {"idle", "gate", "pipeline"}]
        /\ \A q \in Profiles : halt'[q] \in {halt[q], "funding"} \/ halt[q] = "funding"
        /\ \A q \in Profiles : halt'[q] = "breach" => halt[q] = "breach"
        /\ \A q \in Profiles : stage[q] = "idle" /\ stage'[q] = "gate" => s.verdict # "short"
    BY <2>1 DEF Halts!Halted, Halts!ClearedIf
  <2>5. HaltsInv'
    BY <2>2, <2>3, <2>4
  <2> QED BY <2>2, <2>3, <2>4, <2>5
<1>7. ASSUME NEW p \in Profiles, Halts!Gate(p) \/ Halts!PipelineEnds(p)
      PROVE  HaltsStepsRight
  <2>1. /\ stage' \in [Profiles -> {"idle", "gate", "pipeline"}]
        /\ \A q \in Profiles : ~(stage[q] = "idle" /\ stage'[q] = "gate")
        /\ UNCHANGED <<halt, diverged, breached, funded, lost, equity>>
    BY <1>7 DEF Halts!Gate, Halts!PipelineEnds
  <2>2. HaltsInv'
    BY <2>1
  <2> QED BY <2>1, <2>2
<1>8. CASE Halts!FundingChanges
  BY <1>1, <1>8 DEF Halts!FundingChanges
<1>9. CASE Halts!Tick
  <2>1. PICK e \in [known : BOOLEAN, funded : BOOLEAN, age : 0..Ttl] : e = equity
    OBVIOUS
  <2>2. equity' = IF e.age < Ttl THEN [e EXCEPT !.age = e.age + 1] ELSE e
    BY <1>9, <2>1 DEF Halts!Tick
  <2>3. e.age + 1 \in 0..Ttl \/ ~(e.age < Ttl)
    BY <1>1
  <2>4. /\ equity' \in [known : BOOLEAN, funded : BOOLEAN, age : 0..Ttl]
        /\ equity'.known = e.known /\ equity'.funded = e.funded
        /\ equity'.age < Ttl => equity'.age = e.age + 1 /\ e.age < Ttl
    BY <1>1, <2>2, <2>3
  <2>5. lost' = (IF funded \/ lost > Ttl THEN lost ELSE lost + 1) /\ lost' \in 0..(Ttl + 1)
    BY <1>1, <1>9 DEF Halts!Tick
  <2> QED BY <1>1, <1>9, <2>1, <2>4, <2>5 DEF Halts!Tick
<1>10. CASE UNCHANGED Halts!vars
  BY <1>10 DEF Halts!vars
<1> QED BY <1>2, <1>3, <1>4, <1>5, <1>6, <1>7, <1>8, <1>9, <1>10 DEF Halts!Next

\* The halts keep their shape, a breach its owner, and the cache the date of a loss.
THEOREM HaltsAreKept == Spec => []HaltsInv
<1>1. Init => HaltsInv
  BY HaltsInit DEF Init
<1>2. HaltsInv /\ [Next]_vars => HaltsInv'
  BY HaltsMove, HaltsKeep DEF HaltsStepsRight
<1> QED BY <1>1, <1>2, PTL DEF Spec

\* A breach is ended by the operator alone, whether or not the broker answers.
THEOREM BreachWaitsForOperator == Spec => Halts!BreachSticks
<1> DEFINE Sticks == \A p \in Profiles :
                        halt[p] = "breach" /\ halt'[p] = "none" => breached[p] /\ ~breached'[p]
<1>1. HaltsInv /\ [Next]_vars => [Sticks]_Halts!vars
  BY HaltsMove, HaltsKeep DEF HaltsStepsRight
<1>2. Halts!BreachSticks <=> [][Sticks]_Halts!vars
  BY DEF Halts!BreachSticks
<1> HIDE DEF Sticks
<1> QED BY <1>1, <1>2, HaltsAreKept, PTL DEF Spec

\* With a broker that answers, missing money is noticed within one time to live of
\* the equity cache (account_funding_guard.py), by however many profiles share it.
THEOREM HaltsHoldUntilMended == ASSUME ~Unreachable PROVE Spec => HaltsHold
<1> DEFINE Noticed == \A p \in Profiles :
                         stage[p] = "idle" /\ stage'[p] = "gate" => funded \/ lost < Ttl
<1>1. HaltsInv /\ [Next]_vars => [Noticed]_Halts!vars
  BY HaltsMove, HaltsKeep DEF HaltsStepsRight
<1>2. Halts!MissingFundingIsNoticed <=> [][Noticed]_Halts!vars
  BY DEF Halts!MissingFundingIsNoticed
<1>3. HaltsHold <=> Halts!MissingFundingIsNoticed /\ Halts!BreachSticks
  BY DEF HaltsHold
<1> HIDE DEF Noticed
<1> QED BY <1>1, <1>2, <1>3, HaltsAreKept, BreachWaitsForOperator, PTL DEF Spec

-----------------------------------------------------------------------------
(* Intraday risk halts.  Until it expires the row is what the last check that  *)
(* came to its end decided, and it is as old as that check.                    *)

RowIsLastDecision ==
    LET decided == Risk!RowAfter(seen)
    IN  IF row = Risk!NoRow THEN decided = Risk!NoRow \/ since > ClearAfter
        ELSE /\ decided # Risk!NoRow /\ row.age = since
             /\ row.action = decided.action /\ row.sectors = decided.sectors
RiskInv == Risk!TypeOK /\ RowIsLastDecision

\* A check writes a row of the right shape, or none; a macro event always gets one.
LEMMA DecisionsFit ==
    ASSUME NEW m \in Risk!Market
    PROVE  /\ Risk!RowAfter(m) \in [action : Risk!Action \cup {"none"}, sectors : SUBSET Sectors,
                                    age : 0..(ClearAfter + 1)]
           /\ Risk!RowAfter(m).age = 0
           /\ Risk!RowAfter(m) = Risk!NoRow \/ Risk!RowAfter(m).action = Risk!PortfolioAction(m)
           /\ Risk!RowAfter(m) = Risk!NoRow => Risk!PortfolioAction(m) = "pass"
           /\ Risk!PortfolioAction(m) \in Risk!Action
           /\ Risk!MacroEvent(m) <=> Risk!PortfolioAction(m) # "pass"
<1>1. m.other \in Risk!Action
  BY DEF Risk!Market
<1>2. Risk!PortfolioAction(m) \in Risk!Action
  BY <1>1 DEF Risk!PortfolioAction, Risk!Action
<1>3. Risk!MacroEvent(m) <=> Risk!PortfolioAction(m) # "pass"
  BY DEF Risk!PortfolioAction, Risk!MacroEvent, Risk!BreadthCollapse, Risk!BreadthCount,
         Risk!SectorHalts
<1>4. Risk!Spillover(m.moves) \in SUBSET Sectors
  BY DEF Risk!Spillover, Risk!SectorHalts, Risk!RiskHaltAssumption
<1>5. 0 \in 0..(ClearAfter + 1)
  BY DEF Risk!RiskHaltAssumption
<1> QED BY <1>2, <1>3, <1>4, <1>5 DEF Risk!RowAfter, Risk!NoRow, Risk!Action

LEMMA RiskInit == Risk!Init => RiskInv
<1> SUFFICES ASSUME Risk!Init PROVE RiskInv
  OBVIOUS
<1>1. Risk!Calm \in Risk!Market
  BY DEF Risk!Calm, Risk!Market, Risk!Move, Risk!Action
<1>2. Risk!SectorHalts(Risk!Calm.moves) = {}
  BY DEF Risk!Calm, Risk!SectorHalts
<1>3. Risk!Spillover(Risk!Calm.moves) = {}
  BY <1>2 DEF Risk!Calm, Risk!Spillover
<1>4. Risk!PortfolioAction(Risk!Calm) = "pass"
  <2>1. Risk!Cardinality({}) = Cardinality({})
    BY DEF Risk!Cardinality, Cardinality
  <2>2. ~(Risk!Cardinality({}) >= BreadthHaltCount)
    BY <2>1, FS_EmptySet DEF Risk!RiskHaltAssumption
  <2> QED BY <1>2, <2>2 DEF Risk!PortfolioAction, Risk!BreadthCollapse, Risk!BreadthCount, Risk!Calm
<1>5. Risk!RowAfter(Risk!Calm) = Risk!NoRow
  BY <1>3, <1>4 DEF Risk!RowAfter
<1>6. 0 \in 0..(ClearAfter + 1)
  BY DEF Risk!RiskHaltAssumption
<1> QED BY <1>1, <1>5, <1>6
        DEF Risk!Init, RiskInv, Risk!TypeOK, RowIsLastDecision, Risk!NoRow, Risk!Everything

\* What a step of the risk halt does.
Untroubled(s) ==
    /\ seen.moves[s] = "flat"
    /\ \A t \in Sectors : seen.moves[t] = "hard_down" => s \notin Correlated[t]
RiskStepsRight ==
    /\ RiskInv'
    /\ Risk!Scanned =>
          /\ gateOn /\ since <= ClearAfter /\ Risk!MacroEvent(seen) => scan'.entries = {}
          /\ ~Risk!MacroEvent(seen) =>
                scan'.exits /\ \A s \in Sectors : Untroubled(s) => s \in scan'.entries
          /\ since > ClearAfter => scan' = Risk!Everything

\* The gate of the trade pipeline, on the row it finds.
LEMMA ScanFits ==
    ASSUME RiskInv, Risk!Scan
    PROVE  /\ scan' \in [entries : SUBSET Sectors, exits : BOOLEAN]
           /\ gateOn /\ since <= ClearAfter /\ Risk!MacroEvent(seen) => scan'.entries = {}
           /\ ~Risk!MacroEvent(seen) => scan' = Risk!Everything
           /\ since > ClearAfter => scan' = Risk!Everything
<1>1. PICK r \in [action : Risk!Action \cup {"none"}, sectors : SUBSET Sectors,
                  age : 0..(ClearAfter + 1)] : r = row
  BY DEF RiskInv, Risk!TypeOK
<1>2. seen \in Risk!Market /\ since \in 0..(ClearAfter + 1) /\ ClearAfter \in Nat
  BY DEF RiskInv, Risk!TypeOK, Risk!RiskHaltAssumption
<1>3. Risk!Admitted(Risk!NoRow) = Risk!Everything
  BY DEF Risk!Admitted, Risk!NoRow, Risk!Everything
<1>4. scan' = Risk!Admitted(Risk!ActiveHalt)
  BY DEF Risk!Scan
<1>5. Risk!MacroEvent(seen) <=> Risk!PortfolioAction(seen) # "pass"
  BY <1>2, DecisionsFit
<1>6. Risk!Everything \in [entries : SUBSET Sectors, exits : BOOLEAN]
  BY DEF Risk!Everything
<1>7. ASSUME Risk!ActiveHalt = Risk!NoRow, since > ClearAfter \/ ~Risk!MacroEvent(seen)
      PROVE  scan' = Risk!Everything /\ (since <= ClearAfter => ~Risk!MacroEvent(seen))
  BY <1>2, <1>3, <1>4, <1>7
<1>8. CASE row = Risk!NoRow
  <2>1. Risk!ActiveHalt = Risk!NoRow
    BY <1>8 DEF Risk!ActiveHalt
  <2>2. since > ClearAfter \/ Risk!PortfolioAction(seen) = "pass"
    BY <1>2, <1>8, DecisionsFit DEF RiskInv, RowIsLastDecision
  <2> QED BY <1>5, <1>6, <1>7, <2>1, <2>2
<1>9. CASE row # Risk!NoRow
  <2>1. r.age = since /\ r.action = Risk!PortfolioAction(seen)
    BY <1>1, <1>2, <1>9, DecisionsFit DEF RiskInv, RowIsLastDecision
  <2>2. CASE since > ClearAfter \/ r.action = "pass"
    <3>1. Risk!ActiveHalt = Risk!NoRow
      BY <1>1, <1>9, <2>1, <2>2 DEF Risk!ActiveHalt, Risk!Expired
    <3> QED BY <1>5, <1>6, <1>7, <2>1, <2>2, <3>1
  <2>3. CASE ~(since > ClearAfter) /\ r.action # "pass"
    <3>1. Risk!ActiveHalt = r
      BY <1>1, <2>1, <2>3 DEF Risk!ActiveHalt, Risk!Expired
    <3>2. r.action \in {"block_new_entries", "pause_all"}
      BY <1>2, <2>1, <2>3, DecisionsFit DEF Risk!Action
    <3>3. CASE ~gateOn
      BY <1>2, <1>4, <1>5, <1>6, <2>1, <2>3, <3>3 DEF Risk!Admitted
    <3>4. CASE gateOn
      <4>1. scan' = [entries |-> {}, exits |-> r.action # "pause_all"]
        BY <1>4, <3>1, <3>2, <3>4 DEF Risk!Admitted
      <4> QED BY <1>2, <1>5, <2>1, <2>3, <4>1
    <3> QED BY <3>3, <3>4
  <2> QED BY <2>2, <2>3
<1> QED BY <1>8, <1>9

LEMMA RiskKeep ==
    ASSUME RiskInv, [Risk!Next]_Risk!vars PROVE RiskStepsRight
<1> USE DEF RiskInv, Risk!TypeOK
<1>1. ClearAfter \in Nat /\ 0 \in 0..(ClearAfter + 1)
  BY DEF Risk!RiskHaltAssumption
<1>2. PICK r \in [action : Risk!Action \cup {"none"}, sectors : SUBSET Sectors,
                  age : 0..(ClearAfter + 1)] : r = row
  OBVIOUS
<1>3. Risk!Scanned => Risk!Scan
  BY DEF Risk!Next, Risk!vars, Risk!Scanned, Risk!Check, Risk!CheckFails, Risk!NextCycle,
         Risk!ToggleGate
<1>4. Risk!Scan =>
          /\ gateOn /\ since <= ClearAfter /\ Risk!MacroEvent(seen) => scan'.entries = {}
          /\ ~Risk!MacroEvent(seen) =>
                scan'.exits /\ \A s \in Sectors : Untroubled(s) => s \in scan'.entries
          /\ since > ClearAfter => scan' = Risk!Everything
  BY ScanFits DEF Risk!Everything
<1>5. ASSUME Risk!Check PROVE RiskInv'
  <2>1. PICK m \in Risk!Market : row' = Risk!RowAfter(m) /\ seen' = m
    BY <1>5 DEF Risk!Check
  <2>2. RowIsLastDecision'
    BY <1>5, <2>1, DecisionsFit DEF RowIsLastDecision, Risk!Check
  <2> QED BY <1>1, <1>5, <2>1, <2>2, DecisionsFit DEF Risk!Check
<1>6. ASSUME Risk!CheckFails \/ Risk!ToggleGate \/ UNCHANGED Risk!vars PROVE RiskInv'
  BY <1>6 DEF Risk!CheckFails, Risk!ToggleGate, Risk!vars, RowIsLastDecision
<1>7. ASSUME Risk!Scan PROVE RiskInv'
  <2>1. row' = row \/ (row' = Risk!NoRow /\ since > ClearAfter)
    BY <1>2, <1>7 DEF Risk!Scan, Risk!Expired, RowIsLastDecision
  <2>2. Risk!NoRow \in [action : Risk!Action \cup {"none"}, sectors : SUBSET Sectors,
                        age : 0..(ClearAfter + 1)]
    BY <1>1 DEF Risk!NoRow
  <2>3. RowIsLastDecision'
    BY <1>7, <2>1 DEF Risk!Scan, RowIsLastDecision
  <2> QED BY <1>7, <2>1, <2>2, <2>3, ScanFits DEF Risk!Scan
<1>8. ASSUME Risk!NextCycle PROVE RiskInv'
  <2>1. since' = (IF since > ClearAfter THEN since ELSE since + 1)
        /\ since' \in 0..(ClearAfter + 1)
    BY <1>1, <1>8 DEF Risk!NextCycle
  <2>2. CASE row = Risk!NoRow
    <3>1. row' = row /\ seen' = seen
      BY <1>8, <2>2 DEF Risk!NextCycle
    <3>2. RowIsLastDecision'
      BY <1>1, <2>1, <2>2, <3>1 DEF RowIsLastDecision
    <3> QED BY <1>8, <2>1, <3>1, <3>2 DEF Risk!NextCycle
  <2>3. CASE row # Risk!NoRow
    <3>1. r.age = since
      BY <1>2, <2>3 DEF RowIsLastDecision
    <3>2. row' = IF r.age > ClearAfter THEN r ELSE [r EXCEPT !.age = r.age + 1]
      BY <1>2, <1>8, <2>3 DEF Risk!NextCycle
    <3>3. /\ row' \in [action : Risk!Action \cup {"none"}, sectors : SUBSET Sectors,
                       age : 0..(ClearAfter + 1)]
          /\ row'.age = since' /\ row'.action = r.action /\ row'.sectors = r.sectors
      BY <1>1, <1>2, <2>1, <3>1, <3>2
    <3>4. r.action # "none"
      BY <1>2, <2>3, DecisionsFit DEF RowIsLastDecision, Risk!Action
    <3>5. row' # Risk!NoRow
      BY <3>3, <3>4 DEF Risk!NoRow
    <3>6. RowIsLastDecision'
      BY <1>2, <1>8, <2>3, <3>3, <3>5 DEF RowIsLastDecision, Risk!NextCycle
    <3> QED BY <1>8, <2>1, <3>3, <3>6 DEF Risk!NextCycle
  <2> QED BY <2>2, <2>3
<1> QED BY <1>3, <1>4, <1>5, <1>6, <1>7, <1>8 DEF Risk!Next, RiskStepsRight

\* The row stays what the last check decided, until it expires.
THEOREM RowOutlivesFailedChecks == Spec => []RiskInv
<1>1. Init => RiskInv
  BY RiskInit DEF Init
<1>2. RiskInv /\ [Next]_vars => RiskInv'
  BY RiskMoves, RiskKeep DEF RiskStepsRight
<1> QED BY <1>1, <1>2, PTL DEF Spec

\* What intraday_risk_monitor.py saw decides what the pipeline lets through, though
\* checks fail in between, and for no longer than the clearing time.
THEOREM RiskHaltsFitTheMarket == Spec => RiskHaltsFit
<1> DEFINE Blocks == Risk!Scanned /\ gateOn /\ since <= ClearAfter /\ Risk!MacroEvent(seen)
                        => scan'.entries = {}
           Local == Risk!Scanned /\ ~Risk!MacroEvent(seen) =>
                      /\ scan'.exits
                      /\ \A s \in Sectors :
                           seen.moves[s] = "flat"
                             /\ (\A t \in Sectors : seen.moves[t] = "hard_down"
                                                       => s \notin Correlated[t])
                           => s \in scan'.entries
           Ends == Risk!Scanned /\ since > ClearAfter => scan' = Risk!Everything
<1>1. RiskInv /\ [Next]_vars => [Blocks]_Risk!vars
  BY RiskMoves, RiskKeep DEF RiskStepsRight
<1>2. RiskInv /\ [Next]_vars => [Local]_Risk!vars
  BY RiskMoves, RiskKeep DEF RiskStepsRight, Untroubled
<1>3. RiskInv /\ [Next]_vars => [Ends]_Risk!vars
  BY RiskMoves, RiskKeep DEF RiskStepsRight
<1>4. RiskHaltsFit <=> [][Blocks]_Risk!vars /\ [][Local]_Risk!vars /\ [][Ends]_Risk!vars
  BY DEF RiskHaltsFit, Risk!MacroEventBlocksEntries, Risk!TroubleStaysLocal,
         Risk!UnrefreshedHaltsEnd
<1> HIDE DEF Blocks, Local, Ends
<1> QED BY <1>1, <1>2, <1>3, <1>4, RowOutlivesFailedChecks, PTL DEF Spec

-----------------------------------------------------------------------------
(* Order status cache.  What was seen over for good stays so; an entry that is *)
(* kept for ever saw no part live; and nothing was true longer ago than the    *)
(* lookup that brought it began.                                               *)

\* What a view says is final is final in a state st of the orders.
SeenHolds(st, k, view) ==
    \A part \in DOMAIN view : view[part] = "final" => st[k[1]][part] = "final"

EntriesHold ==
    \A k \in DOMAIN cache :
        /\ SeenHolds(status, k, cache[k].view)
        /\ cache[k].forever => Statuses!IsImmutable(cache[k].view)
        /\ cache[k].since <= cache[k].age
AnswersHold ==
    \A t \in Threads :
        /\ poll[t].since <= poll[t].age
        /\ poll[t].step = "told" => SeenHolds(status, poll[t].key, poll[t].view)
StatusesInv == Statuses!TypeOK /\ IsFiniteSet(DOMAIN cache) /\ EntriesHold /\ AnswersHold /\ Statuses!HitsAreFresh

CacheEntry == [view : Statuses!Views, age : Statuses!Ticks, since : Statuses!Ticks,
               forever : BOOLEAN]
PollRecord == [step : {"idle", "asking", "told"}, key : Statuses!Keys, age : Statuses!Ticks,
               since : Statuses!Ticks, view : Statuses!Views]

LEMMA StatusBounds ==
    /\ NONTERMINAL_TTL \in Nat \ {0} /\ RATE_LIMIT_COOLDOWN \in Nat \ {0}
    /\ CACHE_MAX_ENTRIES \in Nat \ {0} /\ Orders # {} /\ Bracket \subseteq Orders
BY DEF Statuses!CacheAssumption

LEMMA StatusesCount == ASSUME NEW S PROVE Statuses!Cardinality(S) = Cardinality(S)
BY DEF Statuses!Cardinality, Cardinality

\* The age of what is told apart up to the time to live.
LEMMA GrowsOlder ==
    ASSUME NEW a \in Statuses!Ticks, NEW b \in Statuses!Ticks, a <= b
    PROVE  /\ Statuses!Older(a) \in Statuses!Ticks /\ Statuses!Older(b) \in Statuses!Ticks
           /\ Statuses!Older(a) <= Statuses!Older(b) /\ a <= Statuses!Older(b)
<1>1. \A x, y \in Int : Statuses!Min({x, y}) = IF x <= y THEN x ELSE y
  BY DEF Statuses!Min
<1> QED BY <1>1, StatusBounds DEF Statuses!Older, Statuses!Ticks

\* An eviction takes entries away, changes none and brings the cache below its cap.
LEMMA EvictionsKeep ==
    ASSUME NEW c, IsFiniteSet(DOMAIN c), Cardinality(DOMAIN c) <= CACHE_MAX_ENTRIES + 1,
           NEW d \in Statuses!Evictions(c)
    PROVE  /\ DOMAIN d \subseteq DOMAIN c /\ \A k \in DOMAIN d : d[k] = c[k]
           /\ IsFiniteSet(DOMAIN d) /\ Cardinality(DOMAIN d) <= CACHE_MAX_ENTRIES
<1>1. CASE Cardinality(DOMAIN c) <= CACHE_MAX_ENTRIES
  BY <1>1, StatusesCount DEF Statuses!Evictions
<1>2. CASE ~(Cardinality(DOMAIN c) <= CACHE_MAX_ENTRIES)
  <2> DEFINE n == Statuses!Max({1, Statuses!Cardinality(DOMAIN c) \div 10})
  <2>1. PICK V \in SUBSET DOMAIN c :
            Statuses!Cardinality(V) = n /\ d = Statuses!Restrict(c, DOMAIN c \ V)
    BY <1>2, StatusesCount DEF Statuses!Evictions
  <2>2. Cardinality(DOMAIN c) \in Nat
    BY FS_CardinalityType
  <2>3. n \in Nat /\ n >= 1
    <3>1. \A x, y \in Int : Statuses!Max({x, y}) = IF x >= y THEN x ELSE y
      BY DEF Statuses!Max
    <3>2. PICK q \in Int : q = Statuses!Cardinality(DOMAIN c) \div 10
      BY <2>2, StatusesCount
    <3>3. n = Statuses!Max({1, q})
      BY <3>2
    <3> QED BY <3>1, <3>3
  <2>4. DOMAIN d = DOMAIN c \ V /\ \A k \in DOMAIN d : d[k] = c[k]
    BY <2>1 DEF Statuses!Restrict
  <2>5. IsFiniteSet(DOMAIN d) /\ IsFiniteSet(V)
    BY <2>4, FS_Subset
  <2>6. Cardinality(DOMAIN c \ V) = Cardinality(DOMAIN c) - Cardinality(DOMAIN c \cap V)
    BY FS_Difference, <2>5
  <2>7. DOMAIN c \cap V = V /\ Cardinality(V) = n
    BY <2>1, StatusesCount
  <2> HIDE DEF n
  <2>8. Cardinality(DOMAIN d) = Cardinality(DOMAIN c) - n
    BY <2>4, <2>6, <2>7
  <2>9. Cardinality(DOMAIN d) <= CACHE_MAX_ENTRIES
    BY <2>2, <2>3, <2>8, StatusBounds
  <2> QED BY <2>4, <2>5, <2>9
<1> QED BY <1>1, <1>2

LEMMA RestingFits ==
    /\ Statuses!Resting \in PollRecord
    /\ Statuses!Resting.since <= Statuses!Resting.age /\ Statuses!Resting.step = "idle"
<1>1. PICK o \in Orders : TRUE
  BY StatusBounds
<1>2. <<o, TRUE>> \in Statuses!Keys
  BY DEF Statuses!Keys
<1>3. PICK k \in Statuses!Keys : k = CHOOSE j \in Statuses!Keys : TRUE
  BY <1>2
<1>4. Statuses!Resting = [step |-> "idle", key |-> k, age |-> 0, since |-> 0, view |-> <<>>]
  BY <1>3 DEF Statuses!Resting
<1>5. 0 \in Statuses!Ticks
  BY StatusBounds DEF Statuses!Ticks
<1>6. <<>> \in Statuses!Views
  <2>1. <<>> \in [{} -> Statuses!Standings]
    OBVIOUS
  <2> QED BY <2>1 DEF Statuses!Views
<1> QED BY <1>4, <1>5, <1>6 DEF PollRecord

LEMMA StatusesInit == Statuses!Init => StatusesInv
<1> SUFFICES ASSUME Statuses!Init PROVE StatusesInv
  OBVIOUS
<1>1. /\ status \in [Orders -> [Statuses!Parts -> Statuses!Standings]] /\ linked \subseteq Bracket /\ cooldown \in 0..RATE_LIMIT_COOLDOWN
      /\ aged \in [Threads -> BOOLEAN] /\ \A t \in Threads : ~aged[t]
  BY StatusBounds DEF Statuses!Init, Statuses!Standings
<1>2. DOMAIN cache = {}
  BY DEF Statuses!Init
<1>3. IsFiniteSet(DOMAIN cache) /\ Statuses!Cardinality(DOMAIN cache) <= CACHE_MAX_ENTRIES
  BY <1>2, FS_EmptySet, StatusesCount, StatusBounds
<1>4. poll = [t \in Threads |-> Statuses!Resting]
  BY DEF Statuses!Init
<1>5. poll \in [Threads -> PollRecord] /\ AnswersHold
  BY <1>4, RestingFits DEF AnswersHold
<1>6. Statuses!TypeOK
  BY <1>1, <1>2, <1>3, <1>5 DEF Statuses!TypeOK, PollRecord
<1> QED BY <1>1, <1>2, <1>3, <1>5, <1>6 DEF StatusesInv, EntriesHold, Statuses!HitsAreFresh

\* What a step of the cache does to it.
CacheFits(c) ==
    /\ DOMAIN c \subseteq Statuses!Keys /\ IsFiniteSet(DOMAIN c)
    /\ Cardinality(DOMAIN c) <= CACHE_MAX_ENTRIES
    /\ \A k \in DOMAIN c :
          /\ c[k] \in CacheEntry
          /\ SeenHolds(status, k, c[k].view)
          /\ c[k].forever => Statuses!IsImmutable(c[k].view)
          /\ c[k].since <= c[k].age

LEMMA CacheFitsNow == ASSUME StatusesInv PROVE CacheFits(cache)
BY StatusesCount DEF StatusesInv, Statuses!TypeOK, EntriesHold, CacheFits, CacheEntry

\* An answer that was stored fits, and so does what an eviction leaves.
LEMMA StoredFits ==
    ASSUME StatusesInv, NEW t \in Threads, Statuses!Store(t)
    PROVE  CacheFits(cache')
<1>1. PICK p \in PollRecord : p = poll[t]
  BY DEF StatusesInv, Statuses!TypeOK, PollRecord
<1> DEFINE e == Statuses!Stored(p)
           c == Statuses!With(p.key, e)
<1>2. p.step = "told" /\ cache' \in Statuses!Evictions(c)
  BY <1>1 DEF Statuses!Store
<1>3. p.key \in Statuses!Keys
  BY DEF PollRecord
<1>4. /\ e \in CacheEntry /\ SeenHolds(status, p.key, e.view)
      /\ e.forever => Statuses!IsImmutable(e.view)
      /\ e.since <= e.age
  <2>1. PICK b \in BOOLEAN : b = Statuses!IsImmutable(p.view)
    BY DEF Statuses!IsImmutable
  <2>2. e = [view |-> p.view, age |-> p.age, since |-> p.since, forever |-> b]
    BY <2>1 DEF Statuses!Stored
  <2>3. SeenHolds(status, p.key, p.view) /\ p.since <= p.age
    BY <1>1, <1>2 DEF StatusesInv, AnswersHold
  <2>4. p.view \in Statuses!Views /\ p.age \in Statuses!Ticks /\ p.since \in Statuses!Ticks
    BY DEF PollRecord
  <2>5. e \in CacheEntry
    BY <2>2, <2>4 DEF CacheEntry
  <2>6. e.view = p.view /\ e.age = p.age /\ e.since = p.since /\ e.forever = b
    BY <2>2
  <2>7. b => Statuses!IsImmutable(p.view)
    BY <2>1
  <2> HIDE DEF e
  <2> QED BY <2>3, <2>5, <2>6, <2>7
<1>5. DOMAIN c = DOMAIN cache \cup {p.key}
      /\ \A k \in DOMAIN c : c[k] = IF k = p.key THEN e ELSE cache[k]
  BY DEF Statuses!With
<1>6. CacheFits(cache)
  BY CacheFitsNow
<1> HIDE DEF e, c
<1>7. IsFiniteSet(DOMAIN c) /\ Cardinality(DOMAIN c) <= CACHE_MAX_ENTRIES + 1
  <2>1. IsFiniteSet(DOMAIN cache) /\ Cardinality(DOMAIN cache) <= CACHE_MAX_ENTRIES
    BY <1>6 DEF CacheFits
  <2>2. Cardinality(DOMAIN cache) \in Nat
    BY <2>1, FS_CardinalityType
  <2>3. /\ IsFiniteSet(DOMAIN cache \cup {p.key})
        /\ \/ Cardinality(DOMAIN cache \cup {p.key}) = Cardinality(DOMAIN cache)
           \/ Cardinality(DOMAIN cache \cup {p.key}) = Cardinality(DOMAIN cache) + 1
    BY <2>1, FS_AddElement
  <2> QED BY <1>5, <2>1, <2>2, <2>3, StatusBounds
<1>8. /\ DOMAIN cache' \subseteq DOMAIN c /\ \A k \in DOMAIN cache' : cache'[k] = c[k]
      /\ IsFiniteSet(DOMAIN cache') /\ Cardinality(DOMAIN cache') <= CACHE_MAX_ENTRIES
  BY <1>2, <1>7, EvictionsKeep
<1>9. DOMAIN cache' \subseteq Statuses!Keys
  BY <1>3, <1>5, <1>6, <1>8 DEF CacheFits
<1>10. ASSUME NEW k \in DOMAIN cache'
       PROVE  /\ cache'[k] \in CacheEntry /\ SeenHolds(status, k, cache'[k].view)
              /\ cache'[k].forever => Statuses!IsImmutable(cache'[k].view)
              /\ cache'[k].since <= cache'[k].age
  <2>1. CASE k = p.key
    <3>1. cache'[k] = e
      BY <1>5, <1>8, <2>1
    <3> QED BY <1>4, <2>1, <3>1
  <2>2. CASE k # p.key
    <3>1. cache'[k] = cache[k] /\ k \in DOMAIN cache
      BY <1>5, <1>8, <2>2
    <3> QED BY <1>6, <3>1 DEF CacheFits
  <2> QED BY <2>1, <2>2
<1> QED BY <1>8, <1>9, <1>10 DEF CacheFits

\* What is final stays final.
LEMMA FinalStays ==
    ASSUME StatusesInv, [Statuses!Next]_Statuses!vars,
           NEW o \in Orders, NEW part \in Statuses!Parts, status[o][part] = "final"
    PROVE  status'[o][part] = "final"
<1>1. status \in [Orders -> [Statuses!Parts -> Statuses!Standings]]
  BY DEF StatusesInv, Statuses!TypeOK
<1>2. ASSUME NEW q \in Orders, Statuses!PartMoves(q) PROVE status'[o][part] = "final"
  <2>1. PICK u \in Statuses!PartsAt(q), st \in Statuses!Standings :
            status[q][u] # "final" /\ status' = [status EXCEPT ![q][u] = st]
    BY <1>2 DEF Statuses!PartMoves
  <2>2. u \in Statuses!Parts
    BY DEF Statuses!PartsAt, Statuses!Parts
  <2> QED BY <1>1, <2>1, <2>2
<1>3. ASSUME NEW u \in Threads,
             \/ \E k \in Statuses!Keys : Statuses!Lookup(u, k)
             \/ Statuses!BrokerAnswers(u) \/ Statuses!BrokerFails(u) \/ Statuses!Store(u)
      PROVE  status' = status
  BY <1>3 DEF Statuses!broker, Statuses!Lookup, Statuses!Hit, Statuses!Refuse, Statuses!Ask,
              Statuses!BrokerAnswers, Statuses!BrokerFails, Statuses!Store
<1>4. ASSUME NEW q \in Orders, Statuses!Link(q) PROVE status' = status
  BY <1>4 DEF Statuses!Link
<1>5. ASSUME Statuses!SubmitLimited \/ Statuses!Tick \/ UNCHANGED Statuses!vars
      PROVE  status' = status
  BY <1>5 DEF Statuses!SubmitLimited, Statuses!Tick, Statuses!vars, Statuses!broker
<1> QED BY <1>2, <1>3, <1>4, <1>5 DEF Statuses!Next

\* So a view goes on holding.
LEMMA ViewStays ==
    ASSUME NEW st, NEW st2, NEW k \in Statuses!Keys, NEW v \in Statuses!Views, SeenHolds(st, k, v),
           \A o \in Orders, part \in Statuses!Parts :
               st[o][part] = "final" => st2[o][part] = "final"
    PROVE  SeenHolds(st2, k, v)
<1>1. DOMAIN v \subseteq Statuses!Parts
  BY DEF Statuses!Views
<1>2. k[1] \in Orders
  BY DEF Statuses!Keys
<1> QED BY <1>1, <1>2 DEF SeenHolds

\* The lookups in flight.
PollFits(p) ==
    /\ p \in PollRecord /\ p.since <= p.age
    /\ p.step = "told" => SeenHolds(status, p.key, p.view)

LEMMA PollFitsNow ==
    ASSUME StatusesInv, NEW t \in Threads PROVE PollFits(poll[t])
BY DEF StatusesInv, Statuses!TypeOK, AnswersHold, PollFits, PollRecord

\* What fits the invariant together again.
LEMMA StatusesAssembled ==
    ASSUME CacheFits(cache'),
           poll' = [t \in Threads |-> poll'[t]],
           \A t \in Threads : PollFits(poll'[t]),
           \A o \in Orders, part \in Statuses!Parts :
               status[o][part] = "final" => status'[o][part] = "final",
           status' \in [Orders -> [Statuses!Parts -> Statuses!Standings]] /\ linked' \subseteq Bracket, aged' \in [Threads -> BOOLEAN],
           \A t \in Threads : ~aged'[t], cooldown' \in 0..RATE_LIMIT_COOLDOWN
    PROVE  StatusesInv'
<1>1. poll' \in [Threads -> PollRecord]
  BY DEF PollFits
<1>2. Statuses!Cardinality(DOMAIN cache') <= CACHE_MAX_ENTRIES
  BY StatusesCount DEF CacheFits
<1>3. Statuses!TypeOK'
  BY <1>1, <1>2 DEF Statuses!TypeOK, CacheFits, CacheEntry, PollRecord
<1>4. ASSUME NEW k \in DOMAIN cache'
      PROVE  /\ SeenHolds(status', k, cache'[k].view)
             /\ cache'[k].forever => Statuses!IsImmutable(cache'[k].view)
             /\ cache'[k].since <= cache'[k].age
  <2>1. /\ k \in Statuses!Keys /\ cache'[k] \in CacheEntry /\ SeenHolds(status, k, cache'[k].view)
        /\ cache'[k].forever => Statuses!IsImmutable(cache'[k].view)
        /\ cache'[k].since <= cache'[k].age
    BY DEF CacheFits
  <2>2. cache'[k].view \in Statuses!Views
    BY <2>1 DEF CacheEntry
  <2> QED BY <2>1, <2>2, ViewStays
<1>5. EntriesHold'
  BY <1>4 DEF EntriesHold, Statuses!IsImmutable
<1>6. ASSUME NEW t \in Threads
      PROVE  /\ poll'[t].since <= poll'[t].age
             /\ poll'[t].step = "told" => SeenHolds(status', poll'[t].key, poll'[t].view)
  <2>1. PICK p \in PollRecord : p = poll'[t] /\ PollFits(p)
    BY DEF PollFits
  <2>2. p.key \in Statuses!Keys /\ p.view \in Statuses!Views
    BY DEF PollRecord
  <2> QED BY <2>1, <2>2, ViewStays DEF PollFits
<1>7. AnswersHold'
  BY <1>6 DEF AnswersHold
<1> QED BY <1>3, <1>5, <1>7 DEF StatusesInv, CacheFits, Statuses!HitsAreFresh

LEMMA StatusesKeep ==
    ASSUME StatusesInv, [Statuses!Next]_Statuses!vars PROVE StatusesInv'
<1>1. /\ CacheFits(cache) /\ \A t \in Threads : PollFits(poll[t]) /\ ~aged[t]
      /\ poll = [t \in Threads |-> poll[t]] /\ poll \in [Threads -> PollRecord]
      /\ status \in [Orders -> [Statuses!Parts -> Statuses!Standings]] /\ linked \subseteq Bracket /\ aged \in [Threads -> BOOLEAN]
      /\ cooldown \in 0..RATE_LIMIT_COOLDOWN
  BY CacheFitsNow, PollFitsNow
     DEF StatusesInv, Statuses!TypeOK, Statuses!HitsAreFresh, PollRecord
<1>2. \A o \in Orders, part \in Statuses!Parts :
          status[o][part] = "final" => status'[o][part] = "final"
  BY FinalStays
<1>3. RATE_LIMIT_COOLDOWN \in 0..RATE_LIMIT_COOLDOWN
  BY StatusBounds
<1>4. ASSUME NEW t \in Threads, NEW k \in Statuses!Keys, Statuses!Lookup(t, k)
      PROVE  StatusesInv'
  <2>1. CASE Statuses!Hit(t, k)
    <3>1. k \in DOMAIN cache /\ (Statuses!Usable(k) \/ Statuses!RateLimited)
          /\ aged' = [aged EXCEPT ![t] = Statuses!TooOld(k)]
          /\ UNCHANGED <<status, linked, cache, poll, cooldown>>
      BY <2>1 DEF Statuses!Hit, Statuses!Return, Statuses!broker
    <3>2. Statuses!TooOld(k) = FALSE
      <4>1. cache[k] \in CacheEntry /\ cache[k].since <= cache[k].age
        BY <1>1, <3>1 DEF CacheFits
      <4>2. cache[k].age \in Int /\ cache[k].since \in Int /\ NONTERMINAL_TTL \in Int
        BY <4>1, StatusBounds DEF CacheEntry, Statuses!Ticks
      <4> QED BY <3>1, <4>1, <4>2 DEF Statuses!TooOld, Statuses!Usable
    <3>3. aged' \in [Threads -> BOOLEAN] /\ \A s \in Threads : ~aged'[s]
      BY <1>1, <3>1, <3>2
    <3> QED BY <1>1, <1>2, <3>1, <3>3, StatusesAssembled
  <2>2. CASE Statuses!Refuse(t, k)
    <3>1. UNCHANGED <<status, linked, cache, poll, cooldown>> /\ aged' = [aged EXCEPT ![t] = FALSE]
      BY <2>2 DEF Statuses!Refuse, Statuses!Return, Statuses!broker
    <3>2. aged' \in [Threads -> BOOLEAN] /\ \A s \in Threads : ~aged'[s]
      BY <1>1, <3>1
    <3> QED BY <1>1, <1>2, <3>1, <3>2, StatusesAssembled
  <2>3. CASE Statuses!Ask(t, k)
    <3> DEFINE p == [Statuses!Resting EXCEPT !.step = "asking", !.key = k]
    <3>1. poll' = [poll EXCEPT ![t] = p] /\ UNCHANGED <<status, linked, cache, aged, cooldown>>
      BY <2>3 DEF Statuses!Ask, Statuses!broker
    <3>2. PollFits(p)
      BY RestingFits DEF PollFits, PollRecord
    <3> HIDE DEF p
    <3>3. poll' = [s \in Threads |-> poll'[s]] /\ \A s \in Threads : PollFits(poll'[s])
      BY <1>1, <3>1, <3>2
    <3> QED BY <1>1, <1>2, <3>1, <3>3, StatusesAssembled
  <2> QED BY <1>4, <2>1, <2>2, <2>3 DEF Statuses!Lookup
<1>5. ASSUME NEW t \in Threads, Statuses!BrokerAnswers(t) PROVE StatusesInv'
  <2>1. PICK p \in PollRecord : p = poll[t] /\ PollFits(p)
    BY <1>1 DEF PollFits
  <2> DEFINE d == [p EXCEPT !.step = "told", !.view = Statuses!View(p.key), !.since = 0]
  <2>2. poll' = [poll EXCEPT ![t] = d] /\ UNCHANGED <<status, linked, cache, aged, cooldown>>
    BY <1>5, <2>1 DEF Statuses!BrokerAnswers, Statuses!broker
  <2>3. p.key \in Statuses!Keys /\ p.age \in Nat
    BY StatusBounds DEF PollRecord, Statuses!Ticks
  <2>4. Statuses!View(p.key) \in Statuses!Views /\ SeenHolds(status, p.key, Statuses!View(p.key))
    <3>1. Statuses!Seen(p.key) \subseteq Statuses!Parts /\ p.key[1] \in Orders
      BY <2>3 DEF Statuses!Seen, Statuses!PartsAt, Statuses!Parts, Statuses!Keys
    <3>2. Statuses!View(p.key) \in [Statuses!Seen(p.key) -> Statuses!Standings]
      BY <1>1, <3>1 DEF Statuses!View
    <3> QED BY <3>1, <3>2 DEF Statuses!View, Statuses!Views, SeenHolds
  <2>5. PollFits(d)
    <3>1. 0 \in Statuses!Ticks
      BY StatusBounds DEF Statuses!Ticks
    <3>2. d \in PollRecord
      BY <2>4, <3>1 DEF PollRecord
    <3>3. d.since = 0 /\ d.age = p.age /\ d.key = p.key /\ d.view = Statuses!View(p.key)
      BY DEF PollRecord
    <3> QED BY <2>3, <2>4, <3>2, <3>3 DEF PollFits
  <2> HIDE DEF d
  <2>6. poll' = [s \in Threads |-> poll'[s]] /\ \A s \in Threads : PollFits(poll'[s])
    BY <1>1, <2>2, <2>5
  <2> QED BY <1>1, <1>2, <2>2, <2>6, StatusesAssembled
<1>6. ASSUME NEW t \in Threads, Statuses!BrokerFails(t) \/ Statuses!Store(t) PROVE StatusesInv'
  <2>1. /\ poll' = [poll EXCEPT ![t] = Statuses!Resting] /\ aged' = [aged EXCEPT ![t] = FALSE]
        /\ UNCHANGED <<status, linked>> /\ cooldown' \in {cooldown, RATE_LIMIT_COOLDOWN}
    BY <1>6 DEF Statuses!BrokerFails, Statuses!Store, Statuses!Return, Statuses!broker
  <2>2. PollFits(Statuses!Resting)
    BY RestingFits DEF PollFits
  <2>3. poll' = [s \in Threads |-> poll'[s]] /\ \A s \in Threads : PollFits(poll'[s])
    BY <1>1, <2>1, <2>2
  <2>4. aged' \in [Threads -> BOOLEAN] /\ \A s \in Threads : ~aged'[s]
    BY <1>1, <2>1
  <2>5. CacheFits(cache')
    BY <1>1, <1>6, StoredFits DEF Statuses!BrokerFails
  <2> QED BY <1>1, <1>2, <1>3, <2>1, <2>3, <2>4, <2>5, StatusesAssembled
<1>7. ASSUME Statuses!SubmitLimited PROVE StatusesInv'
  <2>1. UNCHANGED <<status, linked, cache, poll, aged>> /\ cooldown' = RATE_LIMIT_COOLDOWN
    BY <1>7 DEF Statuses!SubmitLimited, Statuses!broker
  <2> QED BY <1>1, <1>2, <1>3, <2>1, StatusesAssembled
<1>8. ASSUME NEW o \in Orders, Statuses!PartMoves(o) \/ Statuses!Link(o) PROVE StatusesInv'
  <2>1. /\ UNCHANGED <<cache, poll, aged, cooldown>>
        /\ status' \in [Orders -> [Statuses!Parts -> Statuses!Standings]] /\ linked' \subseteq Bracket
    BY <1>1, <1>8 DEF Statuses!PartMoves, Statuses!Link, Statuses!PartsAt, Statuses!Parts
  <2> QED BY <1>1, <1>2, <2>1, StatusesAssembled
<1>9. CASE Statuses!Tick
  <2>1. UNCHANGED <<status, linked, aged>> /\ cooldown' \in 0..RATE_LIMIT_COOLDOWN
    <3>1. \A x, y \in Int : Statuses!Max({x, y}) = IF x >= y THEN x ELSE y
      BY DEF Statuses!Max
    <3>2. UNCHANGED <<status, linked, aged>> /\ cooldown' = Statuses!Max({0, cooldown - 1})
      BY <1>9 DEF Statuses!Tick, Statuses!broker
    <3>3. cooldown \in Int /\ cooldown - 1 \in Int
      BY <1>1
    <3>4. cooldown' = IF 0 >= cooldown - 1 THEN 0 ELSE cooldown - 1
      BY <3>1, <3>2, <3>3
    <3> QED BY <1>1, <3>2, <3>4, StatusBounds
  <2>2. DOMAIN cache' = DOMAIN cache
    BY <1>9 DEF Statuses!Tick, Statuses!broker
  <2>3. ASSUME NEW k \in DOMAIN cache
        PROVE  /\ cache'[k] \in CacheEntry /\ cache'[k].view = cache[k].view
               /\ cache'[k].forever = cache[k].forever /\ cache'[k].since <= cache'[k].age
    <3>1. PICK c \in CacheEntry : c = cache[k] /\ c.since <= c.age
      BY <1>1 DEF CacheFits
    <3>2. cache'[k] = [c EXCEPT !.age = Statuses!Older(c.age), !.since = Statuses!Older(c.since)]
      BY <1>9, <3>1 DEF Statuses!Tick, Statuses!broker
    <3>3. c.since \in Statuses!Ticks /\ c.age \in Statuses!Ticks
      BY DEF CacheEntry
    <3>4. PICK a \in Statuses!Ticks, b \in Statuses!Ticks :
              a = Statuses!Older(c.age) /\ b = Statuses!Older(c.since) /\ b <= a
      BY <3>1, <3>3, GrowsOlder
    <3>5. cache'[k] = [c EXCEPT !.age = a, !.since = b]
      BY <3>2, <3>4
    <3> QED BY <3>1, <3>4, <3>5 DEF CacheEntry
  <2>4. CacheFits(cache')
    BY <1>1, <2>2, <2>3 DEF CacheFits
  <2>5. ASSUME NEW t \in Threads PROVE PollFits(poll'[t])
    <3>1. PICK p \in PollRecord : p = poll[t] /\ PollFits(p)
      BY <1>1 DEF PollFits
    <3>2. p.since \in Statuses!Ticks /\ p.age \in Statuses!Ticks /\ p.since <= p.age
      BY <3>1 DEF PollRecord, PollFits
    <3>3. CASE p.step = "idle"
      BY <1>9, <3>1, <3>3 DEF Statuses!Tick, Statuses!broker
    <3>4. CASE p.step # "idle"
      <4> DEFINE since2 == IF p.step = "told" THEN Statuses!Older(p.since) ELSE p.since
      <4>1. poll'[t] = [p EXCEPT !.age = Statuses!Older(p.age), !.since = since2]
        BY <1>9, <3>1, <3>4 DEF Statuses!Tick, Statuses!broker
      <4>2. since2 \in Statuses!Ticks /\ since2 <= Statuses!Older(p.age)
            /\ Statuses!Older(p.age) \in Statuses!Ticks
        BY <3>2, GrowsOlder
      <4> HIDE DEF since2
      <4>3. poll'[t] \in PollRecord
        BY <4>1, <4>2 DEF PollRecord
      <4>4. /\ poll'[t].since <= poll'[t].age /\ poll'[t].step = p.step
            /\ poll'[t].view = p.view /\ poll'[t].key = p.key
        BY <4>1, <4>2 DEF PollRecord
      <4> QED BY <3>1, <4>3, <4>4 DEF PollFits
    <3> QED BY <3>3, <3>4
  <2>6. poll' = [t \in Threads |-> poll'[t]]
    BY <1>9 DEF Statuses!Tick, Statuses!broker
  <2> QED BY <1>1, <1>2, <2>1, <2>4, <2>5, <2>6, StatusesAssembled
<1>10. CASE UNCHANGED Statuses!vars
  <2>1. UNCHANGED <<status, linked, cache, poll, aged, cooldown>>
    BY <1>10 DEF Statuses!vars, Statuses!broker
  <2> QED BY <1>1, <1>2, <2>1, StatusesAssembled
<1> QED BY <1>4, <1>5, <1>6, <1>7, <1>8, <1>9, <1>10 DEF Statuses!Next

\* Whatever lookups overlap, whatever fails and whatever is evicted: what
\* order_status_cache.py keeps for ever is final, but for a leg that was linked after
\* the answer and a part that was done for the day, and no hit on another entry is
\* older than the time to live but behind the open breaker.
THEOREM CachedStatusesAreTrue == Spec => []CacheIsTrue
<1>1. Init => StatusesInv
  BY StatusesInit DEF Init
<1>2. StatusesInv /\ [Next]_vars => StatusesInv'
  BY StatusesMove, StatusesKeep
<1>3. ASSUME StatusesInv PROVE CacheIsTrue
  <2>1. ASSUME NEW k \in DOMAIN cache, cache[k].forever, NEW part \in DOMAIN cache[k].view
        PROVE  status[k[1]][part] = "final" \/ cache[k].view[part] = "day"
    <3>1. /\ cache[k].view \in Statuses!Views
          /\ SeenHolds(status, k, cache[k].view) /\ Statuses!IsImmutable(cache[k].view)
      BY <1>3, <2>1 DEF StatusesInv, EntriesHold, Statuses!TypeOK
    <3>2. cache[k].view[part] \in Statuses!Standings
      BY <3>1 DEF Statuses!Views
    <3> QED BY <3>1, <3>2 DEF SeenHolds, Statuses!IsImmutable, Statuses!Standings
  <2> QED BY <1>3, <2>1 DEF StatusesInv, CacheIsTrue, Statuses!ForeverIsFinal
<1> QED BY <1>1, <1>2, <1>3, PTL DEF Spec

-----------------------------------------------------------------------------
(* Sums.                                                                      *)

\* The element a fold takes out of a set first.
First(s) == CHOOSE x \in s : TRUE

IsFold(g, f, D) ==
    g = [s \in D |-> IF s = {} THEN 0 ELSE f[First(s)] + g[s \ {First(s)}]]
Fold(f, U) == CHOOSE g : IsFold(g, f, SUBSET U)
Total(f, U) == Fold(f, U)[U]

LEMMA FirstOf == ASSUME NEW s, s # {} PROVE First(s) \in s
BY DEF First

\* A set that breaks a claim about all finite subsets has a smallest like it.
LEMMA SmallestOf ==
    ASSUME NEW U, IsFiniteSet(U), NEW Bad, Bad \subseteq SUBSET U, Bad # {}
    PROVE  \E T \in Bad : \A x \in T : T \ {x} \notin Bad
<1> DEFINE Sizes == {Cardinality(T) : T \in Bad}
<1>1. \A T \in SUBSET U : IsFiniteSet(T) /\ Cardinality(T) \in Nat
  BY FS_Subset, FS_CardinalityType
<1>2. Sizes \subseteq Nat /\ Sizes # {}
  BY <1>1
<1>3. PICK n \in Sizes : \A m \in Sizes : n <= m
  <2> HIDE DEF Sizes
  <2> QED BY <1>2, LeastOf
<1>4. PICK T \in Bad : n = Cardinality(T)
  BY <1>3
<1>5. ASSUME NEW x \in T PROVE T \ {x} \notin Bad
  <2>1. Cardinality(T \ {x}) = Cardinality(T) - 1 /\ Cardinality(T) \in Nat
    BY <1>1, <1>4, FS_RemoveElement
  <2> QED BY <1>3, <1>4, <2>1
<1> QED BY <1>4, <1>5

\* The fold exists: grown from the sets of at most n elements to those of n + 1.
LEMMA FoldExists ==
    ASSUME NEW U, IsFiniteSet(U), NEW f
    PROVE  IsFold(Fold(f, U), f, SUBSET U)
<1> DEFINE Sets(n) == {s \in SUBSET U : Cardinality(s) <= n}
           Bad == {n \in Nat : ~ \E g : IsFold(g, f, Sets(n))}
<1>1. \A s \in SUBSET U : IsFiniteSet(s) /\ Cardinality(s) \in Nat
                          /\ Cardinality(s) <= Cardinality(U)
  BY FS_Subset, FS_CardinalityType
<1>2. Cardinality(U) \in Nat
  BY FS_CardinalityType
<1>3. Bad = {}
  <2> SUFFICES ASSUME Bad # {} PROVE FALSE
    OBVIOUS
  <2>1. PICK n \in Bad : \A m \in Bad : n <= m
    <3>1. Bad \subseteq Nat
      OBVIOUS
    <3> HIDE DEF Bad
    <3> QED BY <3>1, LeastOf
  <2>2. n \in Nat /\ ~ \E g : IsFold(g, f, Sets(n))
    OBVIOUS
  <2>3. CASE n = 0
    <3>1. \A s \in Sets(0) : s = {}
      BY <1>1, FS_EmptySet
    <3> DEFINE g == [s \in Sets(0) |-> 0]
    <3>2. IsFold(g, f, Sets(0))
      BY <3>1 DEF IsFold
    <3> QED BY <2>2, <2>3, <3>2
  <2>4. CASE n # 0
    <3>1. n - 1 \in Nat /\ n - 1 \notin Bad
      <4> HIDE DEF Bad
      <4> QED BY <2>1, <2>2, <2>4
    <3>2. PICK h : IsFold(h, f, Sets(n - 1))
      <4> HIDE DEF Sets
      <4> QED BY <3>1
    <3> DEFINE g == [s \in Sets(n) |-> IF s = {} THEN 0 ELSE f[First(s)] + h[s \ {First(s)}]]
    <3>3. ASSUME NEW s \in Sets(n - 1) PROVE s \in Sets(n) /\ g[s] = h[s]
      <4>1. s \in Sets(n)
        BY <1>1, <2>2, <3>1
      <4>2. h = [t \in Sets(n - 1) |-> IF t = {} THEN 0 ELSE f[First(t)] + h[t \ {First(t)}]]
        BY <3>2 DEF IsFold
      <4>3. h[s] = IF s = {} THEN 0 ELSE f[First(s)] + h[s \ {First(s)}]
        <5> HIDE DEF Sets
        <5> QED BY <4>2
      <4> HIDE DEF Sets
      <4> QED BY <4>1, <4>3
    <3>4. ASSUME NEW s \in Sets(n), s # {} PROVE s \ {First(s)} \in Sets(n - 1)
      <4>1. First(s) \in s /\ s \in SUBSET U
        BY <3>4, FirstOf
      <4>2. Cardinality(s \ {First(s)}) = Cardinality(s) - 1
        BY <1>1, <4>1, FS_RemoveElement
      <4> QED BY <1>1, <2>2, <3>1, <4>1, <4>2
    <3>5. IsFold(g, f, Sets(n))
      <4> HIDE DEF Sets
      <4>1. \A s \in Sets(n) : s # {} => g[s \ {First(s)}] = h[s \ {First(s)}]
        BY <3>3, <3>4
      <4>2. g = [s \in Sets(n) |-> IF s = {} THEN 0 ELSE f[First(s)] + g[s \ {First(s)}]]
        BY <4>1
      <4> QED BY <4>2 DEF IsFold
    <3> QED BY <2>2, <3>5
  <2> QED BY <2>3, <2>4
<1>4. Sets(Cardinality(U)) = SUBSET U
  BY <1>1
<1>5. \E g : IsFold(g, f, SUBSET U)
  BY <1>2, <1>3, <1>4
<1> QED BY <1>5 DEF Fold

\* What a sum is made of, at every subset.
Sums(f, U, T) ==
    /\ T = {} => Fold(f, U)[T] = 0
    /\ T # {} => /\ First(T) \in T /\ T \ {First(T)} \in SUBSET U
                 /\ Fold(f, U)[T] = f[First(T)] + Fold(f, U)[T \ {First(T)}]

LEMMA FoldSteps ==
    ASSUME NEW U, IsFiniteSet(U), NEW f, NEW T \in SUBSET U
    PROVE  Sums(f, U, T)
<1>1. Fold(f, U) = [s \in SUBSET U |-> IF s = {} THEN 0
                                       ELSE f[First(s)] + Fold(f, U)[s \ {First(s)}]]
  BY FoldExists DEF IsFold
<1> QED BY <1>1, FirstOf DEF Sums

LEMMA FoldIsInt ==
    ASSUME NEW U, IsFiniteSet(U), NEW f \in [U -> Int]
    PROVE  \A T \in SUBSET U : Fold(f, U)[T] \in Int
<1> DEFINE Bad == {T \in SUBSET U : Fold(f, U)[T] \notin Int}
<1> SUFFICES ASSUME Bad # {} PROVE FALSE
  OBVIOUS
<1>1. PICK T \in Bad : \A x \in T : T \ {x} \notin Bad
  <2>1. Bad \subseteq SUBSET U
    OBVIOUS
  <2> HIDE DEF Bad
  <2> QED BY <2>1, SmallestOf
<1>2. T \in SUBSET U /\ Fold(f, U)[T] \notin Int
  OBVIOUS
<1>3. Sums(f, U, T)
  BY <1>2, FoldSteps
<1>4. First(T) \in T /\ T \ {First(T)} \in SUBSET U
      /\ Fold(f, U)[T] = f[First(T)] + Fold(f, U)[T \ {First(T)}]
  <2> HIDE DEF Bad
  <2> QED BY <1>2, <1>3 DEF Sums
<1>5. Fold(f, U)[T \ {First(T)}] \in Int
  BY <1>1, <1>4
<1> QED BY <1>2, <1>4, <1>5

\* A sum whose terms exceed another's by at most c each exceeds it by c for each.
LEMMA FoldCompares ==
    ASSUME NEW U, IsFiniteSet(U), NEW f \in [U -> Int], NEW d \in [U -> Int], NEW c \in Nat,
           \A x \in U : d[x] <= f[x] + c
    PROVE  \A T \in SUBSET U : Fold(d, U)[T] <= Fold(f, U)[T] + Cardinality(T) * c
<1> DEFINE Bad == {T \in SUBSET U : ~(Fold(d, U)[T] <= Fold(f, U)[T] + Cardinality(T) * c)}
<1> SUFFICES ASSUME Bad # {} PROVE FALSE
  OBVIOUS
<1>1. PICK T \in Bad : \A x \in T : T \ {x} \notin Bad
  <2>1. Bad \subseteq SUBSET U
    OBVIOUS
  <2> HIDE DEF Bad
  <2> QED BY <2>1, SmallestOf
<1>2. T \in SUBSET U /\ ~(Fold(d, U)[T] <= Fold(f, U)[T] + Cardinality(T) * c)
  OBVIOUS
<1>3. IsFiniteSet(T) /\ Cardinality(T) \in Nat
  BY <1>2, FS_Subset, FS_CardinalityType
<1>4. Sums(f, U, T) /\ Sums(d, U, T)
  BY <1>2, FoldSteps
<1>5. CASE T = {}
  <2>1. Fold(d, U)[T] = 0 /\ Fold(f, U)[T] = 0
    BY <1>4, <1>5 DEF Sums
  <2>2. Cardinality(T) * c = 0
    BY <1>5, FS_EmptySet
  <2> HIDE DEF Bad
  <2> QED BY <1>2, <2>1, <2>2
<1>6. CASE T # {}
  <2> DEFINE x == First(T)
             R == T \ {x}
  <2>1. /\ x \in T /\ x \in U /\ R \in SUBSET U
        /\ Fold(d, U)[T] = d[x] + Fold(d, U)[R] /\ Fold(f, U)[T] = f[x] + Fold(f, U)[R]
    BY <1>2, <1>4, <1>6 DEF Sums
  <2>2. Cardinality(R) = Cardinality(T) - 1
    BY <1>3, <2>1, FS_RemoveElement
  <2>3. Fold(d, U)[R] <= Fold(f, U)[R] + Cardinality(R) * c
    BY <1>1, <2>1
  <2>4. Fold(d, U)[R] \in Int /\ Fold(f, U)[R] \in Int /\ d[x] \in Int /\ f[x] \in Int
    BY <2>1, FoldIsInt
  <2>5. d[x] <= f[x] + c
    BY <2>1
  <2>6. (Cardinality(T) - 1) * c = Cardinality(T) * c - c /\ Cardinality(T) * c \in Int
    BY <1>3
  <2> HIDE DEF x, R
  <2> QED BY <1>2, <1>3, <2>1, <2>2, <2>3, <2>4, <2>5, <2>6
<1> QED BY <1>5, <1>6

\* What one changed term does to a sum.
LEMMA FoldUpdates ==
    ASSUME NEW U, IsFiniteSet(U), NEW f \in [U -> Int], NEW p \in U, NEW v \in Int,
           NEW d \in [U -> Int], d[p] = v, \A x \in U \ {p} : d[x] = f[x]
    PROVE  \A T \in SUBSET U :
              Fold(d, U)[T] = Fold(f, U)[T] + IF p \in T THEN v - f[p] ELSE 0
<1> DEFINE Differ(T) == IF p \in T THEN v - f[p] ELSE 0
           Bad == {T \in SUBSET U : Fold(d, U)[T] # Fold(f, U)[T] + Differ(T)}
<1> SUFFICES ASSUME Bad # {} PROVE FALSE
  OBVIOUS
<1>1. PICK T \in Bad : \A x \in T : T \ {x} \notin Bad
  <2>1. Bad \subseteq SUBSET U
    OBVIOUS
  <2> HIDE DEF Bad
  <2> QED BY <2>1, SmallestOf
<1>2. T \in SUBSET U /\ Fold(d, U)[T] # Fold(f, U)[T] + Differ(T)
  OBVIOUS
<1>3. Sums(f, U, T) /\ Sums(d, U, T)
  BY <1>2, FoldSteps
<1>4. CASE T = {}
  <2>1. Fold(d, U)[T] = 0 /\ Fold(f, U)[T] = 0
    BY <1>3, <1>4 DEF Sums
  <2>2. Differ(T) = 0
    BY <1>4
  <2> HIDE DEF Bad, Differ
  <2> QED BY <1>2, <2>1, <2>2
<1>5. CASE T # {}
  <2> DEFINE x == First(T)
             R == T \ {x}
  <2>1. /\ x \in T /\ x \in U /\ R \in SUBSET U
        /\ Fold(d, U)[T] = d[x] + Fold(d, U)[R] /\ Fold(f, U)[T] = f[x] + Fold(f, U)[R]
    BY <1>2, <1>3, <1>5 DEF Sums
  <2>2. Fold(d, U)[R] = Fold(f, U)[R] + Differ(R)
    BY <1>1, <2>1
  <2>3. Fold(f, U)[R] \in Int /\ f[x] \in Int /\ f[p] \in Int
    BY <2>1, FoldIsInt
  <2>4. d[x] = IF x = p THEN v ELSE f[x]
    BY <2>1
  <2>5. Differ(T) = Differ(R) + IF x = p THEN v - f[p] ELSE 0
    BY <2>1, <2>3
  <2>6. Differ(R) \in Int
    BY <2>3
  <2> HIDE DEF x, R, Differ
  <2> QED BY <1>2, <2>1, <2>2, <2>3, <2>4, <2>5, <2>6
<1> QED BY <1>4, <1>5

\* A sum of nothing but zeros.
LEMMA FoldOfZeros ==
    ASSUME NEW U, IsFiniteSet(U)
    PROVE  \A T \in SUBSET U : Fold([x \in U |-> 0], U)[T] = 0
<1> DEFINE z == [x \in U |-> 0]
           Bad == {T \in SUBSET U : Fold(z, U)[T] # 0}
<1> SUFFICES ASSUME Bad # {} PROVE FALSE
  OBVIOUS
<1>1. PICK T \in Bad : \A x \in T : T \ {x} \notin Bad
  <2>1. Bad \subseteq SUBSET U
    OBVIOUS
  <2> HIDE DEF Bad
  <2> QED BY <2>1, SmallestOf
<1>2. T \in SUBSET U /\ Fold(z, U)[T] # 0
  OBVIOUS
<1>3. Sums(z, U, T)
  <2> HIDE DEF z, Bad
  <2> QED BY <1>2, FoldSteps
<1>4. T # {} => Fold(z, U)[T] = z[First(T)] + Fold(z, U)[T \ {First(T)}]
  <2> HIDE DEF z, Bad
  <2> QED BY <1>3 DEF Sums
<1>5. T # {}
  <2> HIDE DEF z, Bad
  <2> QED BY <1>2, <1>3 DEF Sums
<1>6. First(T) \in T /\ T \ {First(T)} \in SUBSET U
  <2> HIDE DEF z, Bad
  <2> QED BY <1>2, <1>5, FirstOf
<1>7. Fold(z, U)[T \ {First(T)}] = 0
  BY <1>1, <1>6
<1>8. z[First(T)] = 0
  BY <1>2, <1>6
<1> HIDE DEF z, Bad
<1> QED BY <1>2, <1>4, <1>5, <1>7, <1>8

\* The same three facts of the sum over everything.
LEMMA TotalIsInt ==
    ASSUME NEW U, IsFiniteSet(U), NEW f \in [U -> Int]
    PROVE  Total(f, U) \in Int
BY FoldIsInt DEF Total

LEMMA TotalCompares ==
    ASSUME NEW U, IsFiniteSet(U), NEW f \in [U -> Int], NEW d \in [U -> Int], NEW c \in Nat,
           \A x \in U : d[x] <= f[x] + c
    PROVE  Total(d, U) <= Total(f, U) + Cardinality(U) * c
BY FoldCompares DEF Total

LEMMA TotalShrinks ==
    ASSUME NEW U, IsFiniteSet(U), NEW f \in [U -> Int], NEW d \in [U -> Int],
           \A x \in U : d[x] <= f[x]
    PROVE  Total(d, U) <= Total(f, U)
<1>1. \A x \in U : d[x] <= f[x] + 0
  OBVIOUS
<1>2. Total(d, U) <= Total(f, U) + Cardinality(U) * 0
  BY <1>1, TotalCompares
<1> QED BY <1>2, TotalIsInt, FS_CardinalityType

LEMMA TotalUpdates ==
    ASSUME NEW U, IsFiniteSet(U), NEW f \in [U -> Int], NEW p \in U, NEW v \in Int,
           NEW d \in [U -> Int], d[p] = v, \A x \in U \ {p} : d[x] = f[x]
    PROVE  Total(d, U) = Total(f, U) + v - f[p]
<1>1. Fold(d, U)[U] = Fold(f, U)[U] + IF p \in U THEN v - f[p] ELSE 0
  BY FoldUpdates
<1>2. Fold(f, U)[U] \in Int /\ f[p] \in Int
  BY FoldIsInt
<1> QED BY <1>1, <1>2 DEF Total

LEMMA TotalOfZeros ==
    ASSUME NEW U, IsFiniteSet(U) PROVE Total([x \in U |-> 0], U) = 0
BY FoldOfZeros DEF Total

-----------------------------------------------------------------------------
(* The ledgers of one day.                                                    *)

LEMMA SpentIsTotal == Costs!Spent = Total(ledger, Profiles)
BY DEF Costs!Spent, Costs!MapThenSumSet, Costs!MapThenFoldSet, Total, Fold, IsFold, First

LEMMA CostsGround ==
    /\ IsFiniteSet(Profiles) /\ IsFiniteSet(Callers) /\ Payer \in [Callers -> Profiles]
    /\ IsFiniteSet(Workers) /\ Callers # {} /\ Workers # {} /\ IsFiniteSet(Estimates) /\ Estimates # {} /\ Estimates \subseteq Nat
    /\ Ceiling \in Nat /\ ShadowCap \in Nat /\ Surcharge \in Nat /\ MAX_QUEUE \in Nat
<1>1. \A S : Costs!IsFiniteSet(S) => IsFiniteSet(S)
  BY DEF Costs!IsFiniteSet, IsFiniteSet
<1>2. /\ Costs!IsFiniteSet(Profiles) /\ Costs!IsFiniteSet(Callers) /\ Costs!IsFiniteSet(Workers)
      /\ Costs!IsFiniteSet(Estimates) /\ Payer \in [Callers -> Profiles] /\ Callers # {} /\ Workers # {} /\ Estimates # {}
  BY ServicesAssumption DEF Costs!CostAssumption
<1>3. /\ Ceiling \in Nat /\ ShadowCap \in Nat /\ Surcharge \in Nat /\ MAX_QUEUE \in Nat
      /\ Estimates \subseteq Nat \ {0}
  BY ServicesAssumption DEF Costs!CostAssumption
<1> QED BY <1>1, <1>2, <1>3

LEMMA CostsCount == ASSUME NEW S PROVE Costs!Cardinality(S) = Cardinality(S)
BY DEF Costs!Cardinality, Cardinality

LEMMA DearestCall ==
    /\ Costs!Max(Estimates) \in Estimates
    /\ \A e \in Estimates : e <= Costs!Max(Estimates)
<1> DEFINE Tops(T) == {x \in T : \A y \in T : y <= x}
           Bad == {T \in SUBSET Estimates : T # {} /\ Tops(T) = {}}
<1>1. \A e \in Estimates : e \in Nat
  BY CostsGround
<1>2. Bad = {}
  <2> SUFFICES ASSUME Bad # {} PROVE FALSE
    OBVIOUS
  <2>1. PICK T \in Bad : \A x \in T : T \ {x} \notin Bad
    <3>1. Bad \subseteq SUBSET Estimates
      OBVIOUS
    <3> HIDE DEF Bad
    <3> QED BY <3>1, SmallestOf, CostsGround
  <2>2. T \in SUBSET Estimates /\ T # {} /\ Tops(T) = {}
    OBVIOUS
  <2>3. PICK x \in T : TRUE
    BY <2>2
  <2>4. PICK y \in T : ~(y <= x)
    BY <2>2
  <2>5. T \ {x} \notin Bad /\ y \in T \ {x} /\ T \ {x} \in SUBSET Estimates
    <3>1. x \in Nat /\ y \in Nat
      BY <1>1, <2>2
    <3> HIDE DEF Bad
    <3> QED BY <2>1, <2>2, <2>4, <3>1
  <2>6. PICK z \in T \ {x} : \A v \in T \ {x} : v <= z
    BY <2>5
  <2>7. \A v \in T : v <= z
    <3>1. x \in Nat /\ y \in Nat /\ z \in Nat
      BY <1>1, <2>2
    <3>2. x <= z
      BY <2>4, <2>5, <2>6, <3>1
    <3> QED BY <2>6, <3>2
  <2> QED BY <2>2, <2>6, <2>7
<1>3. PICK m \in Estimates : \A e \in Estimates : e <= m
  BY <1>2, CostsGround
<1>4. \A e \in Estimates : m >= e
  BY <1>1, <1>3
<1>5. Costs!Max(Estimates) \in Estimates /\ \A e \in Estimates : Costs!Max(Estimates) >= e
  BY <1>4 DEF Costs!Max
<1> QED BY <1>1, <1>5

-----------------------------------------------------------------------------
(* What the calls in the air may still add to a ledger is owed already when   *)
(* they are let through: ledger and debts together respect the bound.         *)

Dearest == Costs!Max(Estimates)
InTheAir(c) == IF c.step = "flying" THEN c.est + Surcharge ELSE 0

Debt == [c \in Callers |-> InTheAir(spending[c])]
ShadowDebt == [w \in Workers |-> InTheAir(job[w])]

\* What n callers of one gate can take beyond its cap.
Beyond(n) == n * (Dearest + Surcharge) - Dearest

BudgetInv ==
    /\ Costs!TypeOK
    /\ Total(ledger, Profiles) + Total(Debt, Callers) <= Ceiling + Beyond(Cardinality(Callers))
    /\ shadow + Total(ShadowDebt, Workers) <= ShadowCap + Beyond(Cardinality(Workers))
    /\ \A c \in Callers : InTheAir(spending[c]) <= Ceiling + Surcharge
    /\ \A w \in Workers : InTheAir(job[w]) <= ShadowCap + Surcharge

LEMMA DearestIs ==
    /\ Dearest \in Nat
    /\ \A e \in Estimates : e \in Nat /\ e <= Dearest
BY DearestCall, CostsGround DEF Dearest

LEMMA FlightCosts ==
    ASSUME NEW c \in Costs!Flight
    PROVE  c.est \in Nat /\ c.est + Surcharge \in Nat
<1>1. c.est \in Estimates \cup {0}
  BY DEF Costs!Flight
<1>2. \A e \in Estimates \cup {0} : e \in Nat
  BY DearestIs
<1>3. c.est \in Nat
  BY <1>1, <1>2
<1> QED BY <1>3, CostsGround

LEMMA FlightOwes ==
    ASSUME NEW c \in Costs!Flight
    PROVE  InTheAir(c) \in Nat /\ InTheAir(c) <= Dearest + Surcharge
<1>1. c.est \in Estimates \cup {0}
  BY DEF Costs!Flight
<1>2. Dearest \in Nat /\ Surcharge \in Nat
  BY DearestIs, CostsGround
<1>3. c.est \in Nat /\ c.est <= Dearest
  BY <1>1, <1>2, DearestIs
<1> QED BY <1>2, <1>3 DEF InTheAir

LEMMA DebtsTyped ==
    ASSUME Costs!TypeOK
    PROVE  /\ ledger \in [Profiles -> Nat] /\ ledger \in [Profiles -> Int] /\ shadow \in Nat
           /\ spending \in [Callers -> Costs!Flight] /\ job \in [Workers -> Costs!Flight]
           /\ Debt \in [Callers -> Int] /\ ShadowDebt \in [Workers -> Int]
           /\ \A c \in Callers : /\ InTheAir(spending[c]) \in Nat
                                 /\ InTheAir(spending[c]) <= Dearest + Surcharge
           /\ \A w \in Workers : InTheAir(job[w]) \in Nat /\ InTheAir(job[w]) <= Dearest + Surcharge
           /\ Total(Debt, Callers) \in Int /\ Total(ShadowDebt, Workers) \in Int
           /\ Total(ledger, Profiles) \in Nat
<1>1. /\ ledger \in [Profiles -> Nat] /\ ledger \in [Profiles -> Int] /\ shadow \in Nat
      /\ spending \in [Callers -> Costs!Flight] /\ job \in [Workers -> Costs!Flight]
  BY DEF Costs!TypeOK
<1>2. /\ \A c \in Callers : /\ InTheAir(spending[c]) \in Nat
                             /\ InTheAir(spending[c]) <= Dearest + Surcharge
      /\ \A w \in Workers : InTheAir(job[w]) \in Nat /\ InTheAir(job[w]) <= Dearest + Surcharge
  BY <1>1, FlightOwes
<1>3. Debt \in [Callers -> Int] /\ ShadowDebt \in [Workers -> Int]
  BY <1>1, <1>2 DEF Debt, ShadowDebt
<1>4. Total(ledger, Profiles) \in Nat
  <2> DEFINE zeros == [p \in Profiles |-> 0]
  <2>1. zeros \in [Profiles -> Int] /\ \A p \in Profiles : zeros[p] <= ledger[p]
    BY <1>1
  <2>2. Total(zeros, Profiles) = 0
    BY CostsGround, TotalOfZeros
  <2> HIDE DEF zeros
  <2>3. Total(zeros, Profiles) <= Total(ledger, Profiles)
    BY <1>1, <2>1, CostsGround, TotalShrinks
  <2>4. Total(ledger, Profiles) \in Int
    BY <1>1, CostsGround, TotalIsInt
  <2> QED BY <2>2, <2>3, <2>4
<1> QED BY <1>1, <1>2, <1>3, <1>4, TotalIsInt, CostsGround

\* The same after a step.
LEMMA DebtsStayTyped ==
    ASSUME Costs!TypeOK'
    PROVE  /\ Debt' \in [Callers -> Int] /\ ShadowDebt' \in [Workers -> Int]
           /\ \A c \in Callers : /\ Debt'[c] = InTheAir(spending'[c])
                                  /\ InTheAir(spending'[c]) \in Nat
                                  /\ InTheAir(spending'[c]) <= Dearest + Surcharge
           /\ \A w \in Workers : /\ ShadowDebt'[w] = InTheAir(job'[w])
                                 /\ InTheAir(job'[w]) \in Nat
                                 /\ InTheAir(job'[w]) <= Dearest + Surcharge
<1>1. /\ ledger' \in [Profiles -> Nat]
      /\ spending' \in [Callers -> Costs!Flight] /\ job' \in [Workers -> Costs!Flight]
  BY DEF Costs!TypeOK
<1>2. /\ \A c \in Callers : /\ InTheAir(spending'[c]) \in Nat
                             /\ InTheAir(spending'[c]) <= Dearest + Surcharge
      /\ \A w \in Workers : InTheAir(job'[w]) \in Nat /\ InTheAir(job'[w]) <= Dearest + Surcharge
  BY <1>1, FlightOwes
<1> QED BY <1>1, <1>2 DEF Debt, ShadowDebt

\* n callers at the dearest price, from nothing.
LEMMA BeyondIs ==
    ASSUME NEW n \in Nat
    PROVE  Beyond(n) \in Int /\ n * (Dearest + Surcharge) = Beyond(n) + Dearest
           /\ n * (Dearest + Surcharge) >= 0
           /\ Beyond(n) = n * Surcharge + (n - 1) * Dearest
<1>1. Dearest \in Nat /\ Surcharge \in Nat
  BY DearestIs, CostsGround
<1>2. n * (Dearest + Surcharge) = n * Dearest + n * Surcharge
      /\ (n - 1) * Dearest = n * Dearest - Dearest
  BY <1>1
<1>3. n * Dearest \in Nat /\ n * Surcharge \in Nat
  BY <1>1
<1> QED BY <1>1, <1>2, <1>3 DEF Beyond

LEMMA BudgetTypedStep ==
    ASSUME Costs!TypeOK, [Costs!Next]_Costs!vars
    PROVE  Costs!TypeOK'
<1> USE DEF Costs!TypeOK
<1>1. Costs!Idle \in Costs!Flight
  BY DEF Costs!Idle, Costs!Flight
<1>2. ASSUME NEW c \in Callers, Costs!Enforce(c) PROVE Costs!TypeOK'
  <2>1. PICK e \in Estimates : spending' =
            IF Costs!CanAfford(e) THEN [spending EXCEPT ![c] = [step |-> "flying", est |-> e]] ELSE spending
    BY <1>2 DEF Costs!Enforce
  <2>2. spending' \in [Callers -> Costs!Flight]
    BY <2>1 DEF Costs!Flight
  <2> QED BY <1>2, <2>2 DEF Costs!Enforce
<1>3. ASSUME NEW c \in Callers, Costs!Serve(c) PROVE Costs!TypeOK'
  <2>1. spending[c].est + Surcharge \in Nat
    <3>1. spending[c] \in Costs!Flight
      OBVIOUS
    <3> QED BY <3>1, FlightCosts
  <2>2. PICK cost \in Costs!Costs(spending[c].est) : ledger' = [ledger EXCEPT ![Payer[c]] = @ + cost]
    BY <1>3 DEF Costs!Serve
  <2>3. cost \in Nat
    BY <2>1, <2>2 DEF Costs!Costs
  <2>4. ledger' \in [Profiles -> Nat]
    BY <2>2, <2>3, CostsGround
  <2>5. PICK n \in {0, 1} : queue' = Costs!Min({queue + n, MAX_QUEUE})
    BY <1>3 DEF Costs!Serve
  <2>6. queue' \in 0 .. MAX_QUEUE
    <3>1. \A x, y \in Int : Costs!Min({x, y}) = IF x <= y THEN x ELSE y
      BY DEF Costs!Min
    <3>2. queue + n \in Nat /\ MAX_QUEUE \in Nat
      BY CostsGround
    <3> QED BY <2>5, <3>1, <3>2
  <2>7. spending' \in [Callers -> Costs!Flight]
    BY <1>1, <1>3 DEF Costs!Serve
  <2> QED BY <1>3, <2>4, <2>6, <2>7 DEF Costs!Serve
<1>4. ASSUME NEW c \in Callers, Costs!Fail(c) PROVE Costs!TypeOK'
  BY <1>1, <1>4 DEF Costs!Fail
<1>5. ASSUME NEW p \in Profiles, Costs!CostCheck(p) PROVE Costs!TypeOK'
  BY <1>5 DEF Costs!CostCheck
<1>6. ASSUME NEW w \in Workers, Costs!StartShadow(w) PROVE Costs!TypeOK'
  <2>1. PICK e \in Estimates : job' = IF Costs!ShadowCapExceeded(e) THEN job
                               ELSE [job EXCEPT ![w] = [step |-> "flying", est |-> e]]
    BY <1>6 DEF Costs!StartShadow
  <2>2. job' \in [Workers -> Costs!Flight]
    BY <2>1 DEF Costs!Flight
  <2>3. queue' \in 0 .. MAX_QUEUE
    BY <1>6, CostsGround DEF Costs!StartShadow
  <2> QED BY <1>6, <2>2, <2>3 DEF Costs!StartShadow
<1>7. ASSUME NEW w \in Workers, Costs!EndShadow(w) PROVE Costs!TypeOK'
  <2>1. job[w].est + Surcharge \in Nat
    <3>1. job[w] \in Costs!Flight
      OBVIOUS
    <3> QED BY <3>1, FlightCosts
  <2>2. PICK c \in {0} \cup Costs!Costs(job[w].est) : shadow' = shadow + c
    BY <1>7 DEF Costs!EndShadow
  <2>3. shadow' \in Nat
    BY <2>1, <2>2 DEF Costs!Costs
  <2> QED BY <1>1, <1>7, <2>3 DEF Costs!EndShadow
<1>8. CASE Costs!NewDay
  BY <1>8 DEF Costs!NewDay
<1>9. CASE Costs!Restart
  BY <1>1, <1>9, CostsGround DEF Costs!Restart
<1>10. CASE UNCHANGED Costs!vars
  BY <1>10 DEF Costs!vars
<1> QED BY <1>2, <1>3, <1>4, <1>5, <1>6, <1>7, <1>8, <1>9, <1>10
        DEF Costs!Next, Costs!Caller, Costs!Worker

\* A caller let through at est: its debt d[x] is new, those of the others were owed.
LEMMA LetThrough ==
    ASSUME NEW U, IsFiniteSet(U), NEW spent \in Int, NEW cap \in Int,
           NEW d \in [U -> Int], NEW x \in U, NEW e \in Estimates,
           spent + e <= cap, d[x] = e + Surcharge,
           \A y \in U \ {x} : d[y] <= Dearest + Surcharge
    PROVE  spent + Total(d, U) <= cap + Beyond(Cardinality(U))
<1>1. Dearest \in Nat /\ Surcharge \in Nat /\ e \in Nat /\ Cardinality(U) \in Nat
  BY DearestIs, CostsGround, FS_CardinalityType
<1> DEFINE zeros == [y \in U |-> 0]
           raised == [zeros EXCEPT ![x] = e - Dearest]
<1>2. zeros \in [U -> Int] /\ zeros[x] = 0 /\ Total(zeros, U) = 0
  BY TotalOfZeros
<1>3. /\ raised \in [U -> Int] /\ raised[x] = e - Dearest
      /\ \A y \in U \ {x} : raised[y] = 0 /\ raised[y] = zeros[y]
  BY <1>1, <1>2
<1> HIDE DEF raised, zeros
<1>4. Total(raised, U) = 0 + (e - Dearest) - 0
  BY <1>1, <1>2, <1>3, TotalUpdates
<1>5. Total(d, U) <= Total(raised, U) + Cardinality(U) * (Dearest + Surcharge)
  <2>1. \A y \in U : d[y] <= raised[y] + (Dearest + Surcharge)
    BY <1>1, <1>3
  <2>2. Dearest + Surcharge \in Nat
    BY <1>1
  <2> QED BY <1>3, <2>1, <2>2, TotalCompares
<1>6. Total(d, U) \in Int
  BY TotalIsInt
<1>7. Beyond(Cardinality(U)) \in Int
      /\ Cardinality(U) * (Dearest + Surcharge) = Beyond(Cardinality(U)) + Dearest
  BY <1>1, BeyondIs
<1> QED BY <1>1, <1>4, <1>5, <1>6, <1>7

\* Nothing spent yet: what is owed alone is within the bound.
LEMMA OwedAlone ==
    ASSUME NEW U, IsFiniteSet(U), U # {}, NEW cap \in Nat,
           NEW d \in [U -> Int],
           \A x \in U : d[x] <= Dearest + Surcharge /\ d[x] <= cap + Surcharge
    PROVE  Total(d, U) <= cap + Beyond(Cardinality(U))
<1>1. Dearest \in Nat /\ Surcharge \in Nat /\ Cardinality(U) \in Nat /\ Cardinality(U) # 0
  BY DearestIs, CostsGround, FS_CardinalityType, FS_EmptySet
<1> DEFINE zeros == [x \in U |-> 0]
<1>2. zeros \in [U -> Int] /\ \A x \in U : zeros[x] = 0
  OBVIOUS
<1>3. Total(zeros, U) = 0
  BY TotalOfZeros
<1> HIDE DEF zeros
<1>4. ASSUME NEW c \in Nat, \A x \in U : d[x] <= c
      PROVE  Total(d, U) <= Cardinality(U) * c
  <2>1. \A x \in U : d[x] <= zeros[x] + c
    BY <1>2, <1>4
  <2>2. Total(d, U) <= Total(zeros, U) + Cardinality(U) * c
    BY <1>2, <1>4, <2>1, TotalCompares
  <2>3. Cardinality(U) * c \in Int
    BY <1>1
  <2> QED BY <1>3, <2>2, <2>3
<1>5. PICK k \in Nat : Cardinality(U) = k + 1
  <2>1. Cardinality(U) - 1 \in Nat
    BY <1>1
  <2> QED BY <1>1, <2>1
<1>6. Total(d, U) \in Int
  BY TotalIsInt
<1>7. CASE Dearest <= cap
  <2>1. Dearest + Surcharge \in Nat
    BY <1>1
  <2>2. Total(d, U) <= Cardinality(U) * (Dearest + Surcharge)
    BY <1>4, <2>1
  <2>3. Beyond(Cardinality(U)) \in Int
        /\ Cardinality(U) * (Dearest + Surcharge) = Beyond(Cardinality(U)) + Dearest
    BY <1>1, BeyondIs
  <2> QED BY <1>1, <1>6, <1>7, <2>2, <2>3
<1>8. CASE ~(Dearest <= cap)
  <2>1. PICK g \in Nat : Dearest = cap + g
    <3>1. Dearest - cap \in Nat
      BY <1>1, <1>8
    <3> QED BY <1>1, <3>1
  <2>2. cap + Surcharge \in Nat
    BY <1>1
  <2>3. Total(d, U) <= (k + 1) * (cap + Surcharge)
    BY <1>4, <1>5, <2>2
  <2>4. Beyond(k + 1) = (k + 1) * (cap + g + Surcharge) - (cap + g)
    BY <1>1, <2>1 DEF Beyond
  <2>5. /\ (k + 1) * (cap + Surcharge) = k * cap + cap + (k * Surcharge + Surcharge)
        /\ (k + 1) * (cap + g + Surcharge) = k * cap + cap + (k * g + g) + (k * Surcharge + Surcharge)
    BY <1>1
  <2>6. k * cap \in Nat /\ k * g \in Nat /\ k * Surcharge \in Nat
    BY <1>1
  <2> QED BY <1>1, <1>5, <1>6, <2>3, <2>4, <2>5, <2>6
<1> QED BY <1>7, <1>8

-----------------------------------------------------------------------------

\* A call is let through only at a price the cap covers.
LEMMA AirStaysWithin ==
    ASSUME BudgetInv, Costs!TypeOK', [Costs!Next]_Costs!vars
    PROVE  /\ \A c \in Callers : InTheAir(spending'[c]) <= Ceiling + Surcharge
           /\ \A w \in Workers : InTheAir(job'[w]) <= ShadowCap + Surcharge
<1>1. /\ Costs!TypeOK /\ Ceiling \in Nat /\ ShadowCap \in Nat /\ Surcharge \in Nat
      /\ \A c \in Callers : InTheAir(spending[c]) <= Ceiling + Surcharge
      /\ \A w \in Workers : InTheAir(job[w]) <= ShadowCap + Surcharge
  BY CostsGround DEF BudgetInv
<1>2. /\ ledger \in [Profiles -> Nat] /\ shadow \in Nat /\ Total(ledger, Profiles) \in Nat
      /\ spending \in [Callers -> Costs!Flight] /\ job \in [Workers -> Costs!Flight]
  BY <1>1, DebtsTyped
<1>3. \A r : r.step # "flying" => InTheAir(r) = 0
  BY DEF InTheAir
<1>4. ASSUME NEW c \in Callers PROVE InTheAir(spending'[c]) <= Ceiling + Surcharge
  <2>1. CASE spending'[c] = spending[c]
    BY <1>1, <2>1
  <2>2. CASE spending'[c].step # "flying"
    BY <1>1, <1>3, <2>2
  <2>3. CASE spending'[c] # spending[c] /\ spending'[c].step = "flying"
    <3>1. Costs!Enforce(c)
      <4>1. ASSUME NEW q \in Callers, Costs!Serve(q) \/ Costs!Fail(q) PROVE FALSE
        <5>1. q = c
          BY <1>2, <2>3, <4>1 DEF Costs!Serve, Costs!Fail
        <5> QED BY <1>2, <2>3, <4>1, <5>1 DEF Costs!Serve, Costs!Fail, Costs!Idle
      <4>2. ASSUME NEW q \in Callers, Costs!Enforce(q) PROVE q = c
        BY <1>2, <2>3, <4>2 DEF Costs!Enforce
      <4>3. ~Costs!Restart
        BY <2>3 DEF Costs!Restart, Costs!Idle
      <4>4. spending' # spending
        BY <2>3
      <4>5. ~Costs!NewDay /\ ~(UNCHANGED Costs!vars)
        BY <4>4 DEF Costs!NewDay, Costs!vars
      <4>6. \A w \in Workers : ~Costs!Worker(w)
        BY <4>4 DEF Costs!Worker, Costs!StartShadow, Costs!EndShadow
      <4>7. \A q \in Profiles : ~Costs!CostCheck(q)
        BY <4>4 DEF Costs!CostCheck
      <4> QED BY <4>1, <4>2, <4>3, <4>5, <4>6, <4>7 DEF Costs!Next, Costs!Caller
    <3>2. PICK e \in Estimates : spending' =
              IF Costs!CanAfford(e) THEN [spending EXCEPT ![c] = [step |-> "flying", est |-> e]] ELSE spending
      BY <3>1 DEF Costs!Enforce
    <3>3. Costs!CanAfford(e)
      BY <2>3, <3>2
    <3>4. spending'[c].est = e
      BY <1>2, <3>2, <3>3
    <3>5. Total(ledger, Profiles) + e <= Ceiling
      BY <3>3, SpentIsTotal DEF Costs!CanAfford
    <3>6. e \in Nat /\ InTheAir(spending'[c]) = e + Surcharge
      BY <2>3, <3>4, DearestIs DEF InTheAir
    <3> QED BY <1>1, <1>2, <3>5, <3>6
  <2> QED BY <2>1, <2>2, <2>3
<1>5. ASSUME NEW w \in Workers PROVE InTheAir(job'[w]) <= ShadowCap + Surcharge
  <2>1. CASE job'[w] = job[w]
    BY <1>1, <2>1
  <2>2. CASE job'[w].step # "flying"
    BY <1>1, <1>3, <2>2
  <2>3. CASE job'[w] # job[w] /\ job'[w].step = "flying"
    <3>1. job' # job
      BY <2>3
    <3>2. ~Costs!Restart
      BY <2>3 DEF Costs!Restart, Costs!Idle
    <3>3. \A v \in Workers : ~Costs!EndShadow(v)
      <4> SUFFICES ASSUME NEW v \in Workers, Costs!EndShadow(v) PROVE FALSE
        OBVIOUS
      <4>1. job' = [job EXCEPT ![v] = Costs!Idle]
        BY DEF Costs!EndShadow
      <4> QED BY <1>2, <2>3, <4>1 DEF Costs!Idle
    <3>4. PICK v \in Workers : Costs!StartShadow(v)
      BY <3>1, <3>2, <3>3 DEF Costs!Next, Costs!Caller, Costs!Worker, Costs!Enforce, Costs!Serve,
                              Costs!Fail, Costs!CostCheck, Costs!NewDay, Costs!vars
    <3>5. PICK e \in Estimates : job' = IF Costs!ShadowCapExceeded(e) THEN job
                                 ELSE [job EXCEPT ![v] = [step |-> "flying", est |-> e]]
      BY <3>4 DEF Costs!StartShadow
    <3>6. ~Costs!ShadowCapExceeded(e) /\ job'[w] = [step |-> "flying", est |-> e]
      BY <1>2, <2>3, <3>1, <3>5
    <3>7. e \in Nat /\ InTheAir(job'[w]) = e + Surcharge
      BY <3>6, DearestIs DEF InTheAir
    <3>8. shadow + e <= ShadowCap
      BY <1>1, <1>2, <3>6, <3>7 DEF Costs!ShadowCapExceeded
    <3> QED BY <1>1, <1>2, <3>7, <3>8
  <2> QED BY <2>1, <2>2, <2>3
<1> QED BY <1>4, <1>5

LEMMA CallersStayWithin ==
    ASSUME BudgetInv, Costs!TypeOK', [Costs!Next]_Costs!vars
    PROVE  Total(ledger', Profiles) + Total(Debt', Callers) <= Ceiling + Beyond(Cardinality(Callers))
<1> DEFINE Bound == Ceiling + Beyond(Cardinality(Callers))
           Within == Total(ledger', Profiles) + Total(Debt', Callers) <= Bound
<1>1. /\ Costs!TypeOK /\ Total(ledger, Profiles) + Total(Debt, Callers) <= Bound
      /\ IsFiniteSet(Profiles) /\ IsFiniteSet(Callers) /\ Callers # {}
      /\ Payer \in [Callers -> Profiles]
      /\ Ceiling \in Nat /\ Dearest \in Nat /\ Surcharge \in Nat
  BY CostsGround, DearestIs DEF BudgetInv
<1>2. /\ Debt \in [Callers -> Int] /\ Debt' \in [Callers -> Int]
      /\ ledger \in [Profiles -> Int] /\ ledger \in [Profiles -> Nat]
      /\ ledger' \in [Profiles -> Int]
      /\ spending \in [Callers -> Costs!Flight]
      /\ \A c \in Callers : /\ InTheAir(spending[c]) \in Nat
                            /\ InTheAir(spending'[c]) \in Nat
                            /\ InTheAir(spending'[c]) <= Dearest + Surcharge
                            /\ Debt[c] = InTheAir(spending[c])
                            /\ Debt'[c] = InTheAir(spending'[c])
  <2>1. \A c \in Callers : Debt[c] = InTheAir(spending[c])
    BY DEF Debt
  <2>2. ledger' \in [Profiles -> Nat]
    BY DEF Costs!TypeOK
  <2> QED BY <1>1, <2>1, <2>2, DebtsTyped, DebtsStayTyped
<1>3. /\ Total(Debt, Callers) \in Int /\ Total(Debt', Callers) \in Int
      /\ Total(ledger, Profiles) \in Int /\ Total(ledger', Profiles) \in Int /\ Bound \in Int
  <2>1. /\ Total(Debt, Callers) \in Int /\ Total(Debt', Callers) \in Int
        /\ Total(ledger, Profiles) \in Int /\ Total(ledger', Profiles) \in Int
    BY <1>1, <1>2, TotalIsInt
  <2>2. Beyond(Cardinality(Callers)) \in Int
    BY <1>1, BeyondIs, FS_CardinalityType
  <2> QED BY <1>1, <2>1, <2>2
<1> HIDE DEF Bound
<1>4. ASSUME ledger' = ledger, \A c \in Callers : Debt'[c] <= Debt[c]
      PROVE  Within
  <2>1. Total(Debt', Callers) <= Total(Debt, Callers)
    BY <1>1, <1>2, <1>4, TotalShrinks
  <2> QED BY <1>1, <1>3, <1>4, <2>1
<1>5. ASSUME ledger' = ledger, spending' = spending
      PROVE  Within
  <2>1. \A c \in Callers : Debt'[c] <= Debt[c]
    BY <1>2, <1>5
  <2> QED BY <1>4, <1>5, <2>1
<1>6. ASSUME NEW c \in Callers, Costs!Enforce(c)
      PROVE  Within
  <2>1. PICK e \in Estimates : spending' =
            IF Costs!CanAfford(e) THEN [spending EXCEPT ![c] = [step |-> "flying", est |-> e]] ELSE spending
    BY <1>6 DEF Costs!Enforce
  <2>2. ledger' = ledger
    BY <1>6 DEF Costs!Enforce
  <2>3. CASE Costs!CanAfford(e)
    <3>1. spending'[c] = [step |-> "flying", est |-> e]
      BY <1>2, <2>1, <2>3
    <3>2. Debt'[c] = e + Surcharge
      BY <1>2, <3>1 DEF InTheAir
    <3>3. \A q \in Callers \ {c} : Debt'[q] <= Dearest + Surcharge
      BY <1>2
    <3>4. Total(ledger, Profiles) + e <= Ceiling
      BY <2>3, SpentIsTotal DEF Costs!CanAfford
    <3>5. Total(ledger, Profiles) + Total(Debt', Callers) <= Ceiling + Beyond(Cardinality(Callers))
      <4>1. Ceiling \in Int
        BY <1>1
      <4> QED BY <1>1, <1>2, <1>3, <3>2, <3>3, <3>4, <4>1, LetThrough
    <3> QED BY <2>2, <3>5 DEF Bound
  <2>4. CASE ~Costs!CanAfford(e)
    BY <1>5, <2>1, <2>2, <2>4
  <2> QED BY <2>3, <2>4
<1>7. ASSUME NEW c \in Callers, Costs!Serve(c)
      PROVE  Within
  <2>1. PICK cost \in Costs!Costs(spending[c].est) : ledger' = [ledger EXCEPT ![Payer[c]] = @ + cost]
    BY <1>7 DEF Costs!Serve
  <2>2. spending' = [spending EXCEPT ![c] = Costs!Idle] /\ spending[c].step = "flying"
    BY <1>7 DEF Costs!Serve
  <2>3. spending[c].est + Surcharge \in Nat /\ spending[c].est \in Nat
    BY <1>2, FlightCosts
  <2>4. cost \in Nat /\ cost <= spending[c].est + Surcharge
    BY <2>3 DEF Costs!Costs
  <2>5. Debt[c] = spending[c].est + Surcharge
    BY <1>2, <2>2 DEF InTheAir
  <2>6. spending'[c] = Costs!Idle
    BY <1>2, <2>2
  <2>7. Debt'[c] = 0
    BY <1>2, <2>6 DEF InTheAir, Costs!Idle
  <2>8. \A q \in Callers \ {c} : Debt'[q] = Debt[q]
    BY <1>2, <2>2
  <2>9. Total(Debt', Callers) = Total(Debt, Callers) + 0 - Debt[c]
    <3>1. 0 \in Int
      OBVIOUS
    <3> QED BY <1>1, <1>2, <2>7, <2>8, <3>1, TotalUpdates
  <2>10. PICK p \in Profiles : p = Payer[c]
    BY <1>1
  <2>11. Total(ledger', Profiles) = Total(ledger, Profiles) + (ledger[p] + cost) - ledger[p]
    <3>1. ledger'[p] = ledger[p] + cost /\ \A q \in Profiles \ {p} : ledger'[q] = ledger[q]
      BY <1>2, <2>1, <2>10
    <3>2. ledger[p] + cost \in Int
      BY <1>2, <2>4
    <3> QED BY <1>1, <1>2, <3>1, <3>2, TotalUpdates
  <2>12. ledger[p] \in Int /\ Debt[c] \in Int /\ cost <= Debt[c]
    BY <1>2, <2>4, <2>5
  <2> QED BY <1>1, <1>3, <2>4, <2>9, <2>11, <2>12
<1>8. ASSUME NEW c \in Callers, Costs!Fail(c)
      PROVE  Within
  <2>1. ledger' = ledger /\ spending' = [spending EXCEPT ![c] = Costs!Idle]
    BY <1>8 DEF Costs!Fail
  <2>2. InTheAir(spending'[c]) = 0 /\ \A q \in Callers \ {c} : spending'[q] = spending[q]
    BY <1>2, <2>1 DEF InTheAir, Costs!Idle
  <2>3. \A q \in Callers : Debt'[q] <= Debt[q]
    BY <1>2, <2>2
  <2> QED BY <1>4, <2>1, <2>3
<1>9. ASSUME NEW p \in Profiles, Costs!CostCheck(p)
      PROVE  Within
  BY <1>5, <1>9 DEF Costs!CostCheck
<1>10. ASSUME NEW w \in Workers, Costs!Worker(w)
       PROVE  Within
  BY <1>5, <1>10 DEF Costs!Worker, Costs!StartShadow, Costs!EndShadow
<1>11. ASSUME Costs!NewDay
       PROVE  Within
  <2>1. Total(ledger', Profiles) = 0
    <3>1. ledger' = [p \in Profiles |-> 0]
      BY <1>11 DEF Costs!NewDay
    <3> QED BY <1>1, <3>1, TotalOfZeros
  <2>2. \A c \in Callers : Debt'[c] <= Dearest + Surcharge /\ Debt'[c] <= Ceiling + Surcharge
    BY <1>2, AirStaysWithin
  <2>3. Total(Debt', Callers) <= Bound
    BY <1>1, <1>2, <2>2, OwedAlone DEF Bound
  <2> QED BY <1>3, <2>1, <2>3
<1>12. ASSUME Costs!Restart
       PROVE  Within
  <2>1. ledger' = ledger /\ \A c \in Callers : spending'[c] = Costs!Idle
    BY <1>12 DEF Costs!Restart
  <2>2. \A c \in Callers : InTheAir(spending'[c]) = 0
    BY <2>1 DEF InTheAir, Costs!Idle
  <2>3. \A c \in Callers : Debt'[c] <= Debt[c]
    BY <1>2, <2>2
  <2> QED BY <1>4, <2>1, <2>3
<1>13. ASSUME UNCHANGED Costs!vars
       PROVE  Within
  BY <1>5, <1>13 DEF Costs!vars
<1> QED BY <1>6, <1>7, <1>8, <1>9, <1>10, <1>11, <1>12, <1>13 DEF Costs!Next, Costs!Caller, Bound

LEMMA WorkersStayWithin ==
    ASSUME BudgetInv, Costs!TypeOK', [Costs!Next]_Costs!vars
    PROVE  shadow' + Total(ShadowDebt', Workers) <= ShadowCap + Beyond(Cardinality(Workers))
<1> DEFINE Bound == ShadowCap + Beyond(Cardinality(Workers))
<1>1. /\ Costs!TypeOK /\ shadow + Total(ShadowDebt, Workers) <= Bound
      /\ IsFiniteSet(Workers) /\ Workers # {}
      /\ ShadowCap \in Nat /\ Dearest \in Nat /\ Surcharge \in Nat
  BY CostsGround, DearestIs DEF BudgetInv
<1>2. /\ ShadowDebt \in [Workers -> Int] /\ ShadowDebt' \in [Workers -> Int]
      /\ shadow \in Nat /\ job \in [Workers -> Costs!Flight]
      /\ \A w \in Workers : /\ InTheAir(job[w]) \in Nat
                            /\ InTheAir(job'[w]) \in Nat
                            /\ InTheAir(job'[w]) <= Dearest + Surcharge
                            /\ ShadowDebt[w] = InTheAir(job[w])
                            /\ ShadowDebt'[w] = InTheAir(job'[w])
  <2>1. \A w \in Workers : ShadowDebt[w] = InTheAir(job[w])
    BY DEF ShadowDebt
  <2> QED BY <1>1, <2>1, DebtsTyped, DebtsStayTyped
<1>3. /\ Total(ShadowDebt, Workers) \in Int /\ Total(ShadowDebt', Workers) \in Int
      /\ Bound \in Int
  <2>1. Total(ShadowDebt, Workers) \in Int /\ Total(ShadowDebt', Workers) \in Int
    BY <1>1, <1>2, TotalIsInt
  <2>2. Cardinality(Workers) \in Nat
    BY <1>1, FS_CardinalityType
  <2>3. Beyond(Cardinality(Workers)) \in Int
    BY <2>2, BeyondIs
  <2> QED BY <1>1, <2>1, <2>3
<1> HIDE DEF Bound
<1>4. ASSUME shadow' = shadow, \A w \in Workers : ShadowDebt'[w] <= ShadowDebt[w]
      PROVE  shadow' + Total(ShadowDebt', Workers) <= Bound
  <2>1. Total(ShadowDebt', Workers) <= Total(ShadowDebt, Workers)
    BY <1>1, <1>2, <1>4, TotalShrinks
  <2> QED BY <1>1, <1>2, <1>3, <1>4, <2>1
<1>5. ASSUME shadow' = shadow, job' = job
      PROVE  shadow' + Total(ShadowDebt', Workers) <= Bound
  <2>1. \A w \in Workers : ShadowDebt'[w] <= ShadowDebt[w]
    BY <1>2, <1>5
  <2> QED BY <1>4, <1>5, <2>1
<1>6. ASSUME \/ \E c \in Callers : Costs!Caller(c)
             \/ \E p \in Profiles : Costs!CostCheck(p)
      PROVE  shadow' + Total(ShadowDebt', Workers) <= Bound
  BY <1>5, <1>6 DEF Costs!Caller, Costs!Enforce, Costs!Serve, Costs!Fail, Costs!CostCheck
<1>7. ASSUME NEW w \in Workers, Costs!StartShadow(w)
      PROVE  shadow' + Total(ShadowDebt', Workers) <= Bound
  <2>1. PICK e \in Estimates : job' = IF Costs!ShadowCapExceeded(e) THEN job
                               ELSE [job EXCEPT ![w] = [step |-> "flying", est |-> e]]
    BY <1>7 DEF Costs!StartShadow
  <2>2. shadow' = shadow
    BY <1>7 DEF Costs!StartShadow
  <2>3. CASE Costs!ShadowCapExceeded(e)
    BY <1>5, <2>1, <2>2, <2>3
  <2>4. CASE ~Costs!ShadowCapExceeded(e)
    <3>1. job'[w] = [step |-> "flying", est |-> e]
      BY <1>2, <2>1, <2>4
    <3>2. ShadowDebt'[w] = e + Surcharge
      BY <1>2, <3>1 DEF InTheAir
    <3>3. \A v \in Workers \ {w} : ShadowDebt'[v] <= Dearest + Surcharge
      BY <1>2
    <3>4. shadow + e <= ShadowCap
      <4>1. e \in Nat
        BY DearestIs
      <4> QED BY <1>1, <1>2, <2>4, <4>1 DEF Costs!ShadowCapExceeded
    <3>5. shadow + Total(ShadowDebt', Workers) <= ShadowCap + Beyond(Cardinality(Workers))
      <4>1. shadow \in Int /\ ShadowCap \in Int
        BY <1>1, <1>2
      <4> QED BY <1>1, <1>2, <3>2, <3>3, <3>4, <4>1, LetThrough
    <3> QED BY <2>2, <3>5 DEF Bound
  <2> QED BY <2>3, <2>4
<1>8. ASSUME NEW w \in Workers, Costs!EndShadow(w)
      PROVE  shadow' + Total(ShadowDebt', Workers) <= Bound
  <2>1. PICK c \in {0} \cup Costs!Costs(job[w].est) : shadow' = shadow + c
    BY <1>8 DEF Costs!EndShadow
  <2>2. job[w].step = "flying" /\ job' = [job EXCEPT ![w] = Costs!Idle]
    BY <1>8 DEF Costs!EndShadow
  <2>3. job[w].est + Surcharge \in Nat /\ job[w].est \in Nat
    BY <1>2, FlightCosts
  <2>4. c \in Nat /\ c <= job[w].est + Surcharge
    BY <2>3 DEF Costs!Costs
  <2>5. ShadowDebt[w] = job[w].est + Surcharge
    BY <1>2, <2>2 DEF InTheAir
  <2>6. job'[w] = Costs!Idle
    BY <1>2, <2>2
  <2>7. ShadowDebt'[w] = 0
    BY <1>2, <2>6 DEF InTheAir, Costs!Idle
  <2>8. \A v \in Workers \ {w} : ShadowDebt'[v] = ShadowDebt[v]
    BY <1>2, <2>2
  <2>9. Total(ShadowDebt', Workers) = Total(ShadowDebt, Workers) + 0 - ShadowDebt[w]
    <3>1. IsFiniteSet(Workers) /\ 0 \in Int
      BY <1>1
    <3> QED BY <1>2, <2>7, <2>8, <3>1, TotalUpdates
  <2> QED BY <1>1, <1>2, <1>3, <2>1, <2>3, <2>4, <2>5, <2>9
<1>9. ASSUME Costs!NewDay
      PROVE  shadow' + Total(ShadowDebt', Workers) <= Bound
  <2>1. shadow' = 0
    BY <1>9 DEF Costs!NewDay
  <2>2. \A w \in Workers : ShadowDebt'[w] <= Dearest + Surcharge /\ ShadowDebt'[w] <= ShadowCap + Surcharge
    BY <1>2, AirStaysWithin
  <2>3. Total(ShadowDebt', Workers) <= Bound
    BY <1>1, <1>2, <2>2, OwedAlone DEF Bound
  <2> QED BY <1>3, <2>1, <2>3
<1>10. ASSUME Costs!Restart
       PROVE  shadow' + Total(ShadowDebt', Workers) <= Bound
  <2>1. shadow' = shadow /\ \A w \in Workers : job'[w] = Costs!Idle
    BY <1>10 DEF Costs!Restart
  <2>2. \A w \in Workers : InTheAir(job'[w]) = 0
    BY <2>1 DEF InTheAir, Costs!Idle
  <2>3. \A w \in Workers : ShadowDebt'[w] <= ShadowDebt[w]
    BY <1>2, <2>2
  <2> QED BY <1>4, <2>1, <2>3
<1>11. ASSUME UNCHANGED Costs!vars
       PROVE  shadow' + Total(ShadowDebt', Workers) <= Bound
  BY <1>5, <1>11 DEF Costs!vars
<1> QED BY <1>6, <1>7, <1>8, <1>9, <1>10, <1>11 DEF Costs!Next, Costs!Worker, Bound

LEMMA BudgetInit == Init => BudgetInv
<1> SUFFICES ASSUME Init PROVE BudgetInv
  OBVIOUS
<1>1. /\ ledger = [p \in Profiles |-> 0] /\ shadow = 0 /\ queue = 0 /\ alerted = {}
      /\ spending = [c \in Callers |-> Costs!Idle] /\ job = [w \in Workers |-> Costs!Idle]
  BY DEF Init, Costs!Init
<1>2. Costs!TypeOK
  <2>1. Costs!Idle \in Costs!Flight
    BY DEF Costs!Idle, Costs!Flight
  <2> QED BY <1>1, <2>1, CostsGround DEF Costs!TypeOK
<1>3. InTheAir(Costs!Idle) = 0
  BY DEF InTheAir, Costs!Idle
<1>4. /\ Debt \in [Callers -> Int] /\ ShadowDebt \in [Workers -> Int]
      /\ \A c \in Callers : /\ Debt[c] <= Dearest + Surcharge /\ Debt[c] <= Ceiling + Surcharge
                            /\ InTheAir(spending[c]) <= Ceiling + Surcharge
      /\ \A w \in Workers : /\ ShadowDebt[w] <= Dearest + Surcharge /\ ShadowDebt[w] <= ShadowCap + Surcharge
                            /\ InTheAir(job[w]) <= ShadowCap + Surcharge
  BY <1>1, <1>3, CostsGround, DearestIs DEF Debt, ShadowDebt
<1>5. Total(ledger, Profiles) + Total(Debt, Callers) <= Ceiling + Beyond(Cardinality(Callers))
  <2>1. Total(Debt, Callers) <= Ceiling + Beyond(Cardinality(Callers))
    BY <1>4, CostsGround, DearestIs, OwedAlone
  <2>2. Total(ledger, Profiles) = 0
    BY <1>1, CostsGround, TotalOfZeros
  <2>3. 0 + Total(Debt, Callers) = Total(Debt, Callers)
    BY <1>4, CostsGround, TotalIsInt
  <2> QED BY <2>1, <2>2, <2>3
<1>6. Total(ShadowDebt, Workers) <= ShadowCap + Beyond(Cardinality(Workers))
  BY <1>4, CostsGround, DearestIs, OwedAlone
<1>7. shadow + Total(ShadowDebt, Workers) = Total(ShadowDebt, Workers)
  BY <1>1, <1>4, CostsGround, TotalIsInt
<1> QED BY <1>2, <1>4, <1>5, <1>6, <1>7 DEF BudgetInv

LEMMA BudgetBounds == BudgetInv => OverspendBounded
<1> SUFFICES ASSUME BudgetInv PROVE OverspendBounded
  OBVIOUS
<1>1. /\ Costs!TypeOK /\ IsFiniteSet(Profiles) /\ IsFiniteSet(Callers) /\ IsFiniteSet(Workers)
      /\ Total(ledger, Profiles) + Total(Debt, Callers) <= Ceiling + Beyond(Cardinality(Callers))
      /\ shadow + Total(ShadowDebt, Workers) <= ShadowCap + Beyond(Cardinality(Workers))
      /\ Ceiling \in Nat /\ ShadowCap \in Nat /\ Surcharge \in Nat /\ Dearest \in Nat
  BY CostsGround, DearestIs DEF BudgetInv
<1>2. /\ ledger \in [Profiles -> Int] /\ ledger \in [Profiles -> Nat] /\ shadow \in Nat
      /\ Debt \in [Callers -> Int] /\ ShadowDebt \in [Workers -> Int]
  BY <1>1, DebtsTyped
<1>3. Total(ledger, Profiles) \in Nat
  BY <1>1, DebtsTyped
<1>4. Total(Debt, Callers) \in Nat
  <2> DEFINE zeros == [c \in Callers |-> 0]
  <2>1. zeros \in [Callers -> Int] /\ \A c \in Callers : zeros[c] <= Debt[c]
    BY <1>1, <1>2, DebtsTyped DEF Debt
  <2>2. Total(zeros, Callers) = 0
    BY <1>1, TotalOfZeros
  <2> HIDE DEF zeros
  <2>3. Total(zeros, Callers) <= Total(Debt, Callers)
    BY <1>1, <1>2, <2>1, TotalShrinks
  <2> QED BY <1>1, <1>2, <2>2, <2>3, TotalIsInt
<1> DEFINE zeros == [w \in Workers |-> 0]
<1>5. zeros \in [Workers -> Int] /\ \A w \in Workers : zeros[w] <= ShadowDebt[w]
  BY <1>1, <1>2, DebtsTyped DEF ShadowDebt
<1>6. Total(zeros, Workers) = 0
  BY <1>1, TotalOfZeros
<1> HIDE DEF zeros
<1>7. Total(zeros, Workers) <= Total(ShadowDebt, Workers)
  BY <1>1, <1>2, <1>5, TotalShrinks
<1>8. /\ Total(ledger, Profiles) \in Int /\ Total(Debt, Callers) \in Int
      /\ Total(ShadowDebt, Workers) \in Int
  BY <1>1, <1>2, TotalIsInt
<1>9. PICK n \in Nat : n = Cardinality(Callers)
  BY <1>1, FS_CardinalityType
<1>10. PICK m \in Nat : m = Cardinality(Workers)
  BY <1>1, FS_CardinalityType
<1>11. /\ Beyond(n) \in Int /\ Beyond(n) = n * Surcharge + (n - 1) * Dearest
       /\ Beyond(m) \in Int /\ Beyond(m) = m * Surcharge + (m - 1) * Dearest
  BY BeyondIs
<1>12. Costs!Spent <= Ceiling + n * Surcharge + (n - 1) * Dearest
  <2>1. Costs!Spent <= Ceiling + Beyond(n)
    BY <1>1, <1>3, <1>4, <1>9, <1>11, SpentIsTotal
  <2>2. n * Surcharge \in Int /\ (n - 1) * Dearest \in Int
    BY <1>1
  <2> QED BY <1>1, <1>11, <2>1, <2>2
<1>13. shadow <= ShadowCap + m * Surcharge + (m - 1) * Dearest
  <2>1. shadow <= ShadowCap + Beyond(m)
    BY <1>1, <1>2, <1>6, <1>7, <1>8, <1>10, <1>11
  <2>2. m * Surcharge \in Int /\ (m - 1) * Dearest \in Int
    BY <1>1
  <2> QED BY <1>1, <1>11, <2>1, <2>2
<1>14. Costs!Cardinality(Callers) = n /\ Costs!Cardinality(Workers) = m
  BY <1>9, <1>10, CostsCount
<1>15. Costs!OverspendBounded
  BY <1>12, <1>14 DEF Costs!OverspendBounded, Dearest
<1>16. Costs!ShadowOverspendBounded
  BY <1>13, <1>14 DEF Costs!ShadowOverspendBounded, Dearest
<1> QED BY <1>15, <1>16 DEF OverspendBounded

-----------------------------------------------------------------------------

LEMMA BudgetStays == BudgetInv /\ [Next]_vars => BudgetInv'
<1> SUFFICES ASSUME BudgetInv, [Next]_vars PROVE BudgetInv'
  OBVIOUS
<1>1. [Costs!Next]_Costs!vars
  BY CostsMove
<1>2. Costs!TypeOK'
  BY <1>1, BudgetTypedStep DEF BudgetInv
<1>3. Total(ledger', Profiles) + Total(Debt', Callers) <= Ceiling + Beyond(Cardinality(Callers))
  BY <1>1, <1>2, CallersStayWithin
<1>4. shadow' + Total(ShadowDebt', Workers) <= ShadowCap + Beyond(Cardinality(Workers))
  BY <1>1, <1>2, WorkersStayWithin
<1>5. /\ \A c \in Callers : InTheAir(spending'[c]) <= Ceiling + Surcharge
      /\ \A w \in Workers : InTheAir(job'[w]) <= ShadowCap + Surcharge
  BY <1>1, <1>2, AirStaysWithin
<1> QED BY <1>2, <1>3, <1>4, <1>5 DEF BudgetInv

\* Whatever calls overlap, the day's real spending passes the ceiling by no
\* more than one dearest call for every other calling thread and a surcharge for
\* each, and the shadow ledger its cap likewise: for any number of profiles, of
\* threads that call for one of them, of workers and prices, through restarts
\* and midnights (cost_guard.can_afford_action, ensemble._run_stage,
\* shadow_eval._shadow_cap_exceeded).
THEOREM SpendingIsBounded == Spec => []OverspendBounded
<1>1. Init => BudgetInv
  BY BudgetInit
<1> QED BY <1>1, BudgetStays, BudgetBounds, PTL DEF Spec

LEMMA ExpiryMoves == ASSUME [Next]_vars PROVE [Expiry!Next]_Expiry!vars
BY DEF Next, vars, rest, expiry, Expiry!vars, Expiry!books, Expiry!broker, RiskStep, HaltsStep,
       ProvidersStep, CostsStep, StatusesStep, CycleStep, WatchStep, BusStep, ExpiryStep,
       EventsStep, ProtectStep

LEMMA EventsMove == ASSUME [Next]_vars PROVE [Events!Next]_Events!vars
BY DEF Next, vars, rest, events, Events!vars, Events!books, RiskStep, HaltsStep,
       ProvidersStep, CostsStep, StatusesStep, CycleStep, WatchStep, BusStep, ExpiryStep,
       EventsStep, ProtectStep

-----------------------------------------------------------------------------
(* Option expiry.  A leg that is open has not been realized, or its removal   *)
(* is in the journal and its own row was left behind by a failed write.       *)

LegFits(b) ==
    /\ leg[b] = "none" <=> held[b] = 0
    /\ leg[b] = "none" => premium[b] = 0 /\ b \notin removal /\ b \notin shares
    /\ leg[b] = "open" => premium[b] = IF b \in removal THEN 1 ELSE 0

ExpiryInv ==
    /\ Expiry!TypeOK
    /\ held \in [Profiles -> {-1, 0, 1}] /\ removal \subseteq Profiles
    /\ \A b \in Profiles : LegFits(b)

\* Nothing that is read in a pass of the sweep says that shares have moved.
OneWriter ==
    /\ \A b \in Profiles : leg[b] = "open" => b \notin removal
    /\ shares = {}
    /\ Expiry!PremiumOnce

LEMMA ExpiryInit == Init => ExpiryInv /\ OneWriter
<1> SUFFICES ASSUME Init PROVE ExpiryInv /\ OneWriter
  OBVIOUS
<1>1. Expiry!Init /\ MaxFaults \in Nat
  BY ServicesAssumption DEF Init, Expiry!ExpiryAssumption
<1>2. /\ held \in [Profiles -> {-1, 0, 1}]
      /\ leg = [b \in Profiles |-> IF held[b] = 0 THEN "none" ELSE "open"]
      /\ removal = {} /\ shares = {} /\ slips = 0
      /\ cash = [b \in Profiles |-> 0] /\ premium = [b \in Profiles |-> 0]
      /\ turn = [b \in Profiles |-> "done"]
  BY <1>1 DEF Expiry!Init
<1>3. ASSUME NEW b \in Profiles PROVE LegFits(b)
  BY <1>2 DEF LegFits
<1>4. Expiry!TypeOK
  BY <1>1, <1>2 DEF Expiry!TypeOK
<1>5. ExpiryInv
  BY <1>2, <1>3, <1>4 DEF ExpiryInv
<1>6. OneWriter
  BY <1>2 DEF OneWriter, Expiry!PremiumOnce
<1> QED BY <1>5, <1>6

\* What one book's task changes, if anything.
LEMMA LegMoves ==
    ASSUME ExpiryInv, NEW b \in Profiles,
           Expiry!BookRemoval(b) \/ Expiry!Sweep(b)
    PROVE  /\ UNCHANGED <<held, traded, outcome, close, gone, lists, age, pass, cash>>
           /\ \/ UNCHANGED <<leg, removal, premium, shares>>
              \/ /\ leg[b] = "open" /\ b \notin removal
                 /\ removal' = removal \cup {b} /\ premium' = [premium EXCEPT ![b] = @ + 1]
                 /\ UNCHANGED shares
                 /\ \/ leg' = [leg EXCEPT ![b] = "closed"]
                    \/ "flip" \in ExpiryFaultKinds /\ UNCHANGED leg
              \/ /\ leg[b] = "open"
                 /\ leg' = [leg EXCEPT ![b] = "closed"]
                 /\ premium' = [premium EXCEPT ![b] = @ + 1]
                 /\ UNCHANGED removal
                 /\ \/ UNCHANGED shares
                    \/ /\ shares' = shares \cup {b}
                       /\ Expiry!SweepTypes \subseteq Accepted \/ b \in removal
              \/ /\ leg[b] = "open" /\ leg' = [leg EXCEPT ![b] = "needs_review"]
                 /\ UNCHANGED <<premium, shares, removal>>
<1>1. CASE Expiry!BookRemoval(b)
  <2>1. /\ UNCHANGED <<held, traded, outcome, close, gone, lists, age, pass, cash, shares>>
    BY <1>1 DEF Expiry!BookRemoval, Expiry!broker
  <2>2. CASE Expiry!Seen("event") /\ b \notin removal /\ Expiry!LiveNet(b) # 0
    <3>1. leg[b] = "open"
      BY <2>2 DEF Expiry!LiveNet
    <3>2. \/ /\ removal' = removal \cup {b}
             /\ premium' = [premium EXCEPT ![b] = @ + 1]
             /\ \/ leg' = [leg EXCEPT ![b] = "closed"]
                \/ "flip" \in ExpiryFaultKinds /\ UNCHANGED leg
          \/ UNCHANGED <<removal, premium, leg>>
      BY <1>1, <2>2 DEF Expiry!BookRemoval, Expiry!Fault
    <3> QED BY <2>1, <2>2, <3>1, <3>2
  <2>3. CASE ~(Expiry!Seen("event") /\ b \notin removal /\ Expiry!LiveNet(b) # 0)
    <3>1. UNCHANGED <<removal, premium, leg>>
      BY <1>1, <2>3 DEF Expiry!BookRemoval
    <3> QED BY <2>1, <3>1
  <2> QED BY <2>2, <2>3
<1>2. CASE Expiry!Sweep(b)
  <2>1. UNCHANGED <<held, traded, outcome, close, gone, lists, age, pass, cash, removal>>
    BY <1>2 DEF Expiry!Sweep, Expiry!broker
  <2>2. CASE UNCHANGED <<leg, premium, shares>>
    BY <2>1, <2>2
  <2>3. CASE ~UNCHANGED <<leg, premium, shares>>
    <3>1. PICK fed \in {{}, Expiry!Feed}, estimate \in Expiry!Closes, holds \in Expiry!StillHolds :
             LET verdict == Expiry!Verdict(b, fed \cup Expiry!Belt(b), estimate, holds) IN
             /\ Expiry!Expired(b)
             /\ \/ /\ verdict \in {"shares", "worthless"}
                   /\ leg' = [leg EXCEPT ![b] = "closed"]
                   /\ premium' = [premium EXCEPT ![b] = @ + 1]
                   /\ IF verdict = "shares"
                      THEN shares' = shares \cup {b} \/ UNCHANGED shares
                      ELSE UNCHANGED shares
                \/ /\ verdict = "needs_review"
                   /\ leg' = [leg EXCEPT ![b] = "needs_review"]
                   /\ UNCHANGED <<premium, shares>>
      BY <1>2, <2>3 DEF Expiry!Sweep
    <3> DEFINE acts == fed \cup Expiry!Belt(b)
               verdict == Expiry!Verdict(b, acts, estimate, holds)
    <3>2. verdict = "shares" => acts # {}
      BY DEF Expiry!Verdict, Expiry!MovesShares
    <3>3. acts # {} => Expiry!SweepTypes \subseteq Accepted \/ b \in removal
      BY <3>1 DEF Expiry!Feed, Expiry!Belt
    <3>4. leg[b] = "open"
      BY <3>1 DEF Expiry!Expired
    <3>5. CASE verdict \in {"shares", "worthless"} /\ leg' = [leg EXCEPT ![b] = "closed"]
      <4>1. premium' = [premium EXCEPT ![b] = @ + 1]
        BY <3>1, <3>5, <2>3
      <4>2. UNCHANGED shares \/ (shares' = shares \cup {b} /\ verdict = "shares")
        BY <3>1, <3>5
      <4> QED BY <2>1, <3>2, <3>3, <3>4, <3>5, <4>1, <4>2
    <3>6. CASE leg' = [leg EXCEPT ![b] = "needs_review"] /\ UNCHANGED <<premium, shares>>
      BY <2>1, <3>4, <3>6
    <3> QED BY <3>1, <3>5, <3>6
  <2> QED BY <2>2, <2>3
<1> QED BY <1>1, <1>2

\* What the other steps leave alone.
LEMMA LegsRest ==
    ASSUME [Expiry!Next]_Expiry!vars,
           ~ \E b \in Profiles : Expiry!BookRemoval(b) \/ Expiry!BookSettlement(b) \/ Expiry!Sweep(b)
    PROVE  UNCHANGED <<held, leg, removal, premium, shares, cash, slips>>
BY DEF Expiry!Next, Expiry!vars, Expiry!books, Expiry!broker, Expiry!Process, Expiry!Post,
       Expiry!NewPass, Expiry!NewDay

LEMMA LegsStayFit ==
    ASSUME ExpiryInv, [Expiry!Next]_Expiry!vars
    PROVE  /\ held' \in [Profiles -> {-1, 0, 1}] /\ removal' \subseteq Profiles
           /\ leg' \in [Profiles -> {"none", "open", "closed", "needs_review"}]
           /\ premium' \in [Profiles -> 0..2]
           /\ \A b \in Profiles : LegFits(b)'
<1> USE DEF ExpiryInv
<1>1. /\ leg \in [Profiles -> {"none", "open", "closed", "needs_review"}]
      /\ premium \in [Profiles -> 0..2]
  BY DEF Expiry!TypeOK
<1>2. CASE UNCHANGED <<held, leg, removal, premium, shares>>
  BY <1>1, <1>2 DEF LegFits
<1>3. ASSUME NEW b \in Profiles, Expiry!BookRemoval(b) \/ Expiry!Sweep(b)
      PROVE  /\ held' = held /\ removal' \subseteq Profiles
             /\ leg' \in [Profiles -> {"none", "open", "closed", "needs_review"}]
             /\ premium' \in [Profiles -> 0..2]
             /\ \A c \in Profiles : LegFits(c)'
  <2>1. held' = held
    BY <1>3, LegMoves
  <2>2. \A c \in Profiles : LegFits(c)
    OBVIOUS
  <2>3. CASE UNCHANGED <<leg, removal, premium, shares>>
    BY <1>1, <2>1, <2>3 DEF LegFits
  <2>4. CASE /\ leg[b] = "open" /\ b \notin removal
             /\ removal' = removal \cup {b} /\ premium' = [premium EXCEPT ![b] = @ + 1]
             /\ UNCHANGED shares
             /\ leg' = [leg EXCEPT ![b] = "closed"] \/ UNCHANGED leg
    BY <1>1, <2>1, <2>2, <2>4 DEF LegFits
  <2>5. CASE /\ leg[b] = "open"
             /\ leg' = [leg EXCEPT ![b] = "closed"]
             /\ premium' = [premium EXCEPT ![b] = @ + 1]
             /\ UNCHANGED removal /\ shares' \in {shares, shares \cup {b}}
    BY <1>1, <2>1, <2>2, <2>5 DEF LegFits
  <2>6. CASE /\ leg[b] = "open" /\ leg' = [leg EXCEPT ![b] = "needs_review"]
             /\ UNCHANGED <<premium, shares, removal>>
    BY <1>1, <2>1, <2>2, <2>6 DEF LegFits
  <2> QED BY <1>3, <2>3, <2>4, <2>5, <2>6, LegMoves
<1>4. ASSUME NEW b \in Profiles, Expiry!BookSettlement(b)
      PROVE  UNCHANGED <<held, leg, removal, premium, shares>>
  BY <1>4 DEF Expiry!BookSettlement, Expiry!broker
<1> QED BY <1>1, <1>2, <1>3, <1>4, LegsRest

LEMMA ExpirySteps ==
    ASSUME ExpiryInv, [Expiry!Next]_Expiry!vars
    PROVE  ExpiryInv'
<1> USE DEF ExpiryInv
<1>1. MaxFaults \in Nat
  BY ServicesAssumption DEF Expiry!ExpiryAssumption
<1>2. cash' \in [Profiles -> 0..1] /\ slips' \in 0..MaxFaults
      /\ turn' \in [Profiles -> {"removal", "settlement", "sweep", "done"}]
  <2>1. cash \in [Profiles -> 0..1] /\ slips \in 0..MaxFaults
        /\ turn \in [Profiles -> {"removal", "settlement", "sweep", "done"}]
    BY DEF Expiry!TypeOK
  <2>2. ASSUME NEW b \in Profiles, Expiry!BookRemoval(b)
        PROVE  /\ cash' = cash /\ turn' = [turn EXCEPT ![b] = "settlement"]
               /\ slips' \in {slips, slips + 1} /\ (slips' # slips => slips < MaxFaults)
    BY <2>2 DEF Expiry!BookRemoval, Expiry!Fault, Expiry!NoFault
  <2>3. ASSUME NEW b \in Profiles, Expiry!BookSettlement(b)
        PROVE  /\ turn' = [turn EXCEPT ![b] = IF pass = "cycle" THEN "sweep" ELSE "done"]
               /\ UNCHANGED cash \/ (cash[b] = 0 /\ cash' = [cash EXCEPT ![b] = @ + 1])
               /\ slips' \in {slips, slips + 1} /\ (slips' # slips => slips < MaxFaults)
    BY <2>3 DEF Expiry!BookSettlement, Expiry!Fault, Expiry!NoFault
  <2>4. ASSUME NEW b \in Profiles, Expiry!Sweep(b)
        PROVE  /\ cash' = cash /\ turn' = [turn EXCEPT ![b] = "done"]
               /\ slips' \in {slips, slips + 1} /\ (slips' # slips => slips < MaxFaults)
    BY <2>4 DEF Expiry!Sweep, Expiry!Fault, Expiry!NoFault
  <2>5. ASSUME ~ \E b \in Profiles : Expiry!BookRemoval(b) \/ Expiry!BookSettlement(b) \/ Expiry!Sweep(b)
        PROVE  /\ cash' = cash /\ slips' = slips
               /\ \/ turn' = turn
                  \/ turn' = [b \in Profiles |-> "removal"]
    BY <2>5 DEF Expiry!Next, Expiry!vars, Expiry!books, Expiry!broker, Expiry!Process,
                Expiry!Post, Expiry!NewPass, Expiry!NewDay
  <2>6. CASE \E b \in Profiles : Expiry!BookRemoval(b)
    BY <1>1, <2>1, <2>2, <2>6
  <2>7. CASE \E b \in Profiles : Expiry!BookSettlement(b)
    BY <1>1, <2>1, <2>3, <2>7
  <2>8. CASE \E b \in Profiles : Expiry!Sweep(b)
    BY <1>1, <2>1, <2>4, <2>8
  <2> QED BY <2>1, <2>5, <2>6, <2>7, <2>8
<1>3. \A b \in Profiles : LegFits(b)'
  BY LegsStayFit
<1>4. removal' \cup shares' \subseteq {b \in Profiles : held'[b] # 0}
  <2>1. \A b \in Profiles : b \in removal' \cup shares' => held'[b] # 0
    BY <1>3 DEF LegFits
  <2>2. shares' \subseteq Profiles
    <3>1. shares \subseteq Profiles
      BY DEF Expiry!TypeOK
    <3>2. ASSUME NEW b \in Profiles, Expiry!BookRemoval(b) \/ Expiry!Sweep(b)
          PROVE  shares' \in {shares, shares \cup {b}}
      BY <3>2, LegMoves
    <3>3. ASSUME NEW b \in Profiles, Expiry!BookSettlement(b) PROVE UNCHANGED shares
      BY <3>3 DEF Expiry!BookSettlement
    <3> QED BY <3>1, <3>2, <3>3, LegsRest
  <2> QED BY <2>1, <2>2, LegsStayFit
<1>5. Expiry!TypeOK'
  BY <1>2, <1>3, <1>4, LegsStayFit DEF Expiry!TypeOK, LegFits
<1> QED BY <1>3, <1>5, LegsStayFit

(* A removal closes the leg it has booked unless that write fails, and the    *)
(* sweep takes an equity leg for moved only if the broker's feed or the own   *)
(* journal says so.                                                           *)
LEMMA OneWriterStays ==
    ASSUME ExpiryInv, OneWriter, [Expiry!Next]_Expiry!vars,
           "flip" \notin ExpiryFaultKinds, ~(Expiry!SweepTypes \subseteq Accepted)
    PROVE  OneWriter'
<1> USE DEF OneWriter
<1>1. /\ leg \in [Profiles -> {"none", "open", "closed", "needs_review"}]
      /\ premium \in [Profiles -> 0..2] /\ \A b \in Profiles : LegFits(b)
  BY DEF Expiry!TypeOK, ExpiryInv
<1>2. CASE UNCHANGED <<leg, removal, premium, shares>>
  BY <1>2 DEF Expiry!PremiumOnce
<1>3. ASSUME NEW b \in Profiles, Expiry!BookRemoval(b) \/ Expiry!Sweep(b)
      PROVE  OneWriter'
  <2>1. CASE /\ leg[b] = "open" /\ b \notin removal
             /\ removal' = removal \cup {b} /\ premium' = [premium EXCEPT ![b] = @ + 1]
             /\ UNCHANGED shares
             /\ leg' = [leg EXCEPT ![b] = "closed"]
    BY <1>1, <2>1 DEF LegFits, Expiry!PremiumOnce
  <2>2. CASE /\ leg[b] = "open"
             /\ leg' = [leg EXCEPT ![b] = "closed"]
             /\ premium' = [premium EXCEPT ![b] = @ + 1]
             /\ UNCHANGED <<removal, shares>>
    BY <1>1, <2>2 DEF LegFits, Expiry!PremiumOnce
  <2>3. CASE /\ leg[b] = "open" /\ leg' = [leg EXCEPT ![b] = "needs_review"]
             /\ UNCHANGED <<premium, shares, removal>>
    BY <1>1, <2>3 DEF Expiry!PremiumOnce
  <2> QED BY <1>2, <1>3, <2>1, <2>2, <2>3, LegMoves
<1>4. ASSUME NEW b \in Profiles, Expiry!BookSettlement(b)
      PROVE  UNCHANGED <<leg, removal, premium, shares>>
  BY <1>4 DEF Expiry!BookSettlement
<1> QED BY <1>2, <1>3, <1>4, LegsRest

-----------------------------------------------------------------------------
(* Account events.  At most one thing is odd: a book is wrong, and then every *)
(* profile is switched on, so that its split does not add up; or none is.     *)

Right(b) == claims[b] = own[b]
OneIsWrong ==
    \E w \in Profiles : /\ ~Right(w) /\ \A b \in Profiles \ {w} : Right(b)
                        /\ active = Profiles /\ odd >= 1
Remembered(split) == \A b \in DOMAIN split : b \in Profiles /\ split[b] = own[b]

EventsInv ==
    /\ Events!TypeOK
    /\ odd \in Nat /\ booked \in [Profiles -> Int]
    /\ \A b \in DOMAIN memo : memo[b] \in Int

SplitInv ==
    /\ (\A b \in Profiles : Right(b)) \/ OneIsWrong
    /\ Remembered(memo)
    /\ Events!SplitIsTrue

LEMMA AccountIs == Events!AccountQty = Total(own, DOMAIN own)
BY DEF Events!AccountQty, Events!SumFunction, Events!SumFunctionOnSet, Events!FoldFunctionOnSet,
       Events!MapThenFoldSet, Total, Fold, IsFold, First

LEMMA SumIsTotal == ASSUME NEW f PROVE Events!SumFunction(f) = Total(f, DOMAIN f)
BY DEF Events!SumFunction, Events!SumFunctionOnSet, Events!FoldFunctionOnSet,
       Events!MapThenFoldSet, Total, Fold, IsFold, First

LEMMA EventsGround == /\ IsFiniteSet(Profiles) /\ MaxOdd \in Nat
                      /\ \A S : Events!Cardinality(S) = Cardinality(S)
<1>1. Events!IsFiniteSet(Profiles) /\ MaxOdd \in Nat
  BY ServicesAssumption DEF Events!EventsAssumption
<1>2. IsFiniteSet(Profiles)
  BY <1>1 DEF Events!IsFiniteSet, IsFiniteSet
<1> QED BY <1>1, <1>2 DEF Events!Cardinality, Cardinality

LEMMA EventsInit == ASSUME Init PROVE EventsInv
<1>1. Events!Init
  BY DEF Init
<1>2. odd = Events!Cardinality({b \in Profiles : Events!Wrong(b)})
  BY <1>1 DEF Events!Init
<1>3. odd = Cardinality({b \in Profiles : Events!Wrong(b)})
  BY <1>2, EventsGround
<1>4. odd \in Nat
  BY <1>3, EventsGround, FS_Subset, FS_CardinalityType
<1>5. \A b \in DOMAIN memo : memo[b] \in Int
  BY <1>1, EmptySeq DEF Events!Init, Events!NoSplit
<1> QED BY <1>1, <1>4, <1>5 DEF Events!Init, EventsInv, Events!TypeOK

LEMMA SplitInit == ASSUME Init, MaxOdd <= 1 PROVE SplitInv
<1> DEFINE wrong == {b \in Profiles : Events!Wrong(b)}
<1>1. Events!Init
  BY DEF Init
<1>2. /\ odd = Cardinality(wrong) /\ odd <= 1 /\ IsFiniteSet(wrong) /\ odd \in Nat
  <2>1. odd = Events!Cardinality(wrong) /\ odd <= MaxOdd
    BY <1>1 DEF Events!Init
  <2>2. IsFiniteSet(wrong)
    BY EventsGround, FS_Subset
  <2> HIDE DEF wrong
  <2> QED BY <2>1, <2>2, EventsGround, FS_CardinalityType
<1>3. /\ active = Profiles /\ memo = <<>> /\ booked = [b \in Profiles |-> 0]
  BY <1>1 DEF Events!Init, Events!NoSplit
<1>4. (\A b \in Profiles : Right(b)) \/ OneIsWrong
  <2>1. CASE odd = 0
    <3>1. wrong = {}
      <4> HIDE DEF wrong
      <4> QED BY <1>2, <2>1, FS_EmptySet
    <3> QED BY <3>1 DEF Right, Events!Wrong
  <2>2. CASE odd = 1
    <3>1. PICK w : wrong = {w}
      <4> HIDE DEF wrong
      <4> QED BY <1>2, <2>2, FS_Singleton
    <3> QED BY <1>3, <2>2, <3>1 DEF OneIsWrong, Right, Events!Wrong
  <2> QED BY <1>2, <2>1, <2>2
<1> QED BY <1>3, <1>4 DEF SplitInv, Remembered, Events!SplitIsTrue

LEMMA EventsSteps ==
    ASSUME EventsInv, [Events!Next]_Events!vars
    PROVE  EventsInv'
<1> USE DEF EventsInv
<1>1. /\ kind \in {"DIV", "MA"} /\ active \subseteq Profiles /\ warned \subseteq Profiles
      /\ own \in [Profiles -> {-1, 0, 1}] /\ claims \in [Profiles -> {-1, 0, 1}]
      /\ memo # Events!NoSplit => Events!SumFunction(memo) = Events!AccountQty
      /\ at \in [Profiles -> {"todo", "done"}]
  BY DEF Events!TypeOK
<1>2. kind' = kind /\ own' = own /\ Events!AccountQty' = Events!AccountQty
  BY DEF Events!Next, Events!vars, Events!books, Events!Post, Events!Forget, Events!NewPass,
         Events!NewDay, Events!Repair, Events!Capture, Events!Switch, Events!AccountQty
<1>0. \A b \in DOMAIN Events!NoSplit : Events!NoSplit[b] \in Int
  BY EmptySeq DEF Events!NoSplit
<1>3. CASE UNCHANGED Events!vars
  BY <1>1, <1>2, <1>3 DEF Events!vars, Events!books, Events!TypeOK
<1>4. CASE Events!Post
  BY <1>1, <1>2, <1>4 DEF Events!Post, Events!books, Events!TypeOK
<1>5. CASE Events!Forget
  BY <1>0, <1>1, <1>2, <1>5 DEF Events!Forget, Events!books, Events!TypeOK
<1>6. CASE Events!NewPass
  BY <1>1, <1>2, <1>6 DEF Events!NewPass, Events!books, Events!TypeOK
<1>7. CASE Events!NewDay
  BY <1>0, <1>1, <1>2, <1>7 DEF Events!NewDay, Events!books, Events!TypeOK
<1>8. ASSUME NEW b \in Profiles, Events!Repair(b) PROVE EventsInv'
  BY <1>1, <1>2, <1>8 DEF Events!Repair, Events!TypeOK
<1>9. ASSUME NEW b \in Profiles, Events!Switch(b) PROVE EventsInv'
  BY <1>1, <1>2, <1>9 DEF Events!Switch, Events!books, Events!TypeOK
<1>10. ASSUME NEW b \in Profiles, Events!Capture(b) PROVE EventsInv'
  <2>1. /\ at' = [at EXCEPT ![b] = "done"] /\ UNCHANGED <<active, odd>>
    BY <1>10 DEF Events!Capture
  <2>2. PICK fault \in EventFaultKinds \cup {"none"} :
          \/ UNCHANGED <<Events!books, memo>>
          \/ Events!Refuse(b) /\ UNCHANGED memo
          \/ \E split \in Events!Splits(b) :
               /\ memo' = split
               /\ UNCHANGED Events!books \/ Events!Book(b, Events!ShareOf(split, b), fault)
    BY <1>10 DEF Events!Capture
  <2>3. UNCHANGED claims /\ memo' \in {memo} \cup Events!Splits(b)
    BY <2>2 DEF Events!books, Events!Refuse, Events!Book
  <2>4. memo' # Events!NoSplit => Events!SumFunction(memo') = Events!AccountQty
    BY <1>1, <2>3 DEF Events!Splits, Events!AddsUp
  <2>7. \A split \in Events!Splits(b) : \A c \in DOMAIN split : split[c] \in Int
    BY <1>1 DEF Events!Splits, Events!Shares, Events!Siblings
  <2>8. \A split \in Events!Splits(b) : Events!ShareOf(split, b) \in Int
    BY <2>7 DEF Events!ShareOf
  <2>9. \A c \in DOMAIN memo' : memo'[c] \in Int
    BY <2>3, <2>7
  <2>5. warned' \in {warned, warned \cup {b}}
    BY <2>2 DEF Events!books, Events!Refuse, Events!Book
  <2>6. booked' \in [Profiles -> Int]
    <3>1. CASE booked' = booked
      BY <3>1
    <3>2. CASE booked' # booked
      <4>1. PICK split \in Events!Splits(b) :
               booked' = [booked EXCEPT ![b] = @ + Events!ShareOf(split, b)]
        BY <2>2, <3>2 DEF Events!books, Events!Refuse, Events!Book
      <4> QED BY <2>8, <4>1
    <3> QED BY <3>1, <3>2
  <2> QED BY <1>1, <1>2, <2>1, <2>3, <2>4, <2>5, <2>6, <2>9 DEF Events!TypeOK
<1> QED BY <1>3, <1>4, <1>5, <1>6, <1>7, <1>8, <1>9, <1>10 DEF Events!Next

\* Books one of which is wrong do not add up to what the broker reports.
LEMMA WrongDoesNotAddUp ==
    ASSUME EventsInv, OneIsWrong, NEW b \in Profiles
    PROVE  ~Events!AddsUp(Events!Shares(b))
<1>1. own \in [Profiles -> Int] /\ claims \in [Profiles -> Int]
  BY DEF EventsInv, Events!TypeOK
<1>2. PICK w \in Profiles : /\ ~Right(w) /\ \A c \in Profiles \ {w} : Right(c)
                            /\ active = Profiles
  BY DEF OneIsWrong
<1>3. Events!Shares(b) = claims
  BY <1>1, <1>2 DEF Events!Shares, Events!Siblings
<1>4. Total(claims, Profiles) = Total(own, Profiles) + claims[w] - own[w]
  BY <1>1, <1>2, EventsGround, TotalUpdates DEF Right
<1>5. Total(own, Profiles) \in Int /\ Total(claims, Profiles) \in Int
  BY <1>1, EventsGround, TotalIsInt
<1>6. claims[w] # own[w] /\ claims[w] \in Int /\ own[w] \in Int
  BY <1>1, <1>2 DEF Right
<1>7. Total(claims, Profiles) # Total(own, Profiles)
  BY <1>4, <1>5, <1>6
<1>8. Events!SumFunction(claims) = Total(claims, Profiles) /\ Events!AccountQty = Total(own, Profiles)
  BY <1>1, SumIsTotal, AccountIs
<1> QED BY <1>3, <1>7, <1>8 DEF Events!AddsUp

LEMMA SplitsAreTrue ==
    ASSUME EventsInv, SplitInv, NEW b \in Profiles, NEW split \in Events!Splits(b)
    PROVE  Remembered(split)
<1>1. CASE split = memo
  BY <1>1 DEF SplitInv
<1>2. CASE split # memo
  <2>1. split = Events!Shares(b) /\ Events!AddsUp(Events!Shares(b))
    BY <1>2 DEF Events!Splits
  <2>2. \A c \in Profiles : Right(c)
    BY <2>1, WrongDoesNotAddUp DEF SplitInv
  <2>3. active \subseteq Profiles
    BY DEF EventsInv, Events!TypeOK
  <2> QED BY <2>1, <2>2, <2>3 DEF Remembered, Right, Events!Shares, Events!Siblings
<1> QED BY <1>1, <1>2

LEMMA SplitStays ==
    ASSUME EventsInv, SplitInv, [Events!Next]_Events!vars,
           MaxOdd <= 1, "blind" \notin EventFaultKinds
    PROVE  SplitInv'
<1> USE DEF SplitInv
<1>1. /\ own \in [Profiles -> {-1, 0, 1}] /\ claims \in [Profiles -> {-1, 0, 1}]
      /\ booked \in [Profiles -> Int] /\ odd \in Nat /\ MaxOdd \in Nat
  BY EventsGround DEF EventsInv, Events!TypeOK
<1>2. own' = own
  BY DEF Events!Next, Events!vars, Events!books, Events!Post, Events!Forget, Events!NewPass,
         Events!NewDay, Events!Repair, Events!Capture, Events!Switch
<1>3. Remembered(Events!NoSplit)
  BY EmptySeq DEF Remembered, Events!NoSplit
<1>4. CASE UNCHANGED <<claims, booked, active, odd>> /\ memo' \in {memo, Events!NoSplit}
  BY <1>2, <1>3, <1>4 DEF Right, OneIsWrong, Remembered, Events!SplitIsTrue
<1>5. CASE \/ UNCHANGED Events!vars \/ Events!Post \/ Events!Forget \/ Events!NewPass
           \/ Events!NewDay
  BY <1>4, <1>5 DEF Events!vars, Events!books, Events!Post, Events!Forget, Events!NewPass,
         Events!NewDay
<1>6. ASSUME NEW b \in Profiles, Events!Repair(b) PROVE SplitInv'
  <2>1. /\ claims' = [claims EXCEPT ![b] = own[b]] /\ UNCHANGED <<booked, active, odd, memo>>
        /\ ~Right(b)
    BY <1>6 DEF Events!Repair, Events!Wrong, Right
  <2>2. \A c \in Profiles \ {b} : Right(c)
    BY <2>1 DEF OneIsWrong
  <2>3. \A c \in Profiles : Right(c)'
    BY <1>1, <1>2, <2>1, <2>2 DEF Right
  <2> QED BY <1>2, <2>1, <2>3 DEF Remembered, Events!SplitIsTrue
<1>7. ASSUME NEW b \in Profiles, Events!Switch(b) PROVE SplitInv'
  <2>1. odd < MaxOdd /\ UNCHANGED <<claims, booked, memo>>
    BY <1>7 DEF Events!Switch, Events!books
  <2>2. \A c \in Profiles : Right(c)
    BY <1>1, <2>1 DEF OneIsWrong
  <2> QED BY <1>2, <2>1, <2>2 DEF Right, Remembered, Events!SplitIsTrue
<1>8. ASSUME NEW b \in Profiles, Events!Capture(b) PROVE SplitInv'
  <2>1. UNCHANGED <<active, odd>>
    BY <1>8 DEF Events!Capture
  <2>2. PICK fault \in EventFaultKinds \cup {"none"} :
          \/ UNCHANGED <<Events!books, memo>>
          \/ Events!Refuse(b) /\ UNCHANGED memo
          \/ /\ booked[b] = 0
             /\ \E split \in Events!Splits(b) :
                  /\ memo' = split
                  /\ UNCHANGED Events!books \/ Events!Book(b, Events!ShareOf(split, b), fault)
    BY <1>8 DEF Events!Capture
  <2>3. UNCHANGED claims
    BY <2>2 DEF Events!books, Events!Refuse, Events!Book
  <2>4. memo' = memo \/ memo' \in Events!Splits(b)
    BY <2>2
  <2>5. Remembered(memo)'
    BY <1>2, <2>4, SplitsAreTrue DEF Remembered
  <2>6. (\A c \in Profiles : Right(c)') \/ OneIsWrong'
    BY <1>2, <2>1, <2>3 DEF Right, OneIsWrong
  <2>7. Events!SplitIsTrue'
    <3>1. CASE booked' = booked
      BY <1>2, <3>1 DEF Events!SplitIsTrue
    <3>2. CASE booked' # booked
      <4>1. PICK split \in Events!Splits(b) :
               /\ booked[b] = 0
               /\ booked' = [booked EXCEPT ![b] = @ + Events!ShareOf(split, b)]
        BY <2>2, <3>2 DEF Events!books, Events!Refuse, Events!Book
      <4>2. Events!ShareOf(split, b) \in {0, own[b]}
        BY SplitsAreTrue DEF Remembered, Events!ShareOf
      <4>3. booked'[b] \in {0, own[b]}
        BY <1>1, <4>1, <4>2
      <4> QED BY <1>1, <1>2, <4>1, <4>3 DEF Events!SplitIsTrue
    <3> QED BY <3>1, <3>2
  <2> QED BY <2>5, <2>6, <2>7
<1> QED BY <1>5, <1>6, <1>7, <1>8 DEF Events!Next

-----------------------------------------------------------------------------

\* A leg's premium is realized once, by the capture or by the sweep, and what
\* the broker did reaches a book as cash or as shares; provided the write that
\* closes a captured leg does not fail, and the API rejects one of the names the
\* sweep asks for, as it does (options_lifecycle._fetch_expiry_activities).  A
\* book books an event of the account for what it held, if at most one thing is
\* odd and the question whether it is booked is answered
\* (activities_capture._attribute_account_event).
THEOREM ActivitiesAreBookedRight ==
    ASSUME "flip" \notin ExpiryFaultKinds, ~(Expiry!SweepTypes \subseteq Accepted),
           MaxOdd <= 1, "blind" \notin EventFaultKinds
    PROVE  Spec => []ActivitiesBookedRight
<1> DEFINE Inv == ExpiryInv /\ OneWriter /\ EventsInv /\ SplitInv
<1>1. Init => Inv
  BY ExpiryInit, EventsInit, SplitInit
<1>2. Inv /\ [Next]_vars => Inv'
  BY ExpiryMoves, EventsMove, ExpirySteps, OneWriterStays, EventsSteps, SplitStays
<1>3. Inv => ActivitiesBookedRight
  BY DEF OneWriter, SplitInv, ActivitiesBookedRight, Expiry!SettledOneWay
<1> QED BY <1>1, <1>2, <1>3, PTL DEF Spec

=============================================================================

------------------------------ MODULE Services ------------------------------
(* The components that stand beside the order path, side by side: on names   *)
(* the one that moves and never changes, the others rest in their initial    *)
(* state.  They share no variable, so the reachable states are the union of  *)
(* the components', and a property of one holds here exactly if it holds of  *)
(* it alone.  A constant has its component's name where only one has it.     *)
EXTENDS Integers, Sequences

CONSTANTS
    Components,     \* those that may move
    Profiles, Threads,
    Sectors, Correlated, BreadthHaltCount, ClearAfter,          \* RiskHalt
    Ttl, Unreachable,                                           \* ProfileHalts
    Models, Chain, FAIL_THRESHOLD, MAX_COOLDOWN,                \* ProviderCircuit
    Callers, Payer, Workers, MAX_QUEUE, Estimates, Ceiling, ShadowCap, Surcharge, ALERT_AT,
                                                                \* CostCap
    Orders, Bracket, NONTERMINAL_TTL, RATE_LIMIT_COOLDOWN, CACHE_MAX_ENTRIES,
                                                                \* OrderStatusCache
    Fleet, AlwaysOn, PoolSize, LoopDays, LoopFaults,            \* CycleLoop
    Watched, MaxRuns, MaxLocked, MaxCrashes, MaxUnsent,         \* TaskWatchdog
    BusEvents, Reactive, LIMIT, BusFaults,                      \* EventBus
    Window, MaxDay, MaxFaults,                                  \* OptionExpiry, AccountEvents
    Accepted, Grace, ExpiryFaultKinds,
    MaxOdd, EventFaultKinds,
    Starts, MaxEnds, MaxReplaced, SweepFaults, SweepFaultKinds  \* ProtectiveSweep

VARIABLES
    on,
    row, gateOn, riskStage, seen, since, scan,
    halt, diverged, breached, funded, lost, equity, stage,
    circuit, call, answering,
    ledger, shadow, spending, queue, job, alerted,
    status, linked, cache, poll, aged, cooldown,
    now, loop, shutdown, last, marker, clock, item, queued, running, work,
    mail, owed, snapped, dropped, loopUsed,
    rows, thread, alerting, process, unswept, watchUsed,
    subscriptions, table, handled, runs, tick, faults,
    held, traded, leg, removal, cash, shares, premium, outcome, close, gone, lists, age,
    pass, turn, slips,
    kind, own, claims, entry, booked, warned, active, memo, posted, day, at, odd, misses,
    shared, bracket, trailing, price, orders, lot, pending, listed, exit, task, ends,
    replaced, errors

risk == <<row, gateOn, riskStage, seen, since, scan>>
halts == <<halt, diverged, breached, funded, lost, equity, stage>>
providers == <<circuit, call, answering>>
costs == <<ledger, shadow, spending, queue, job, alerted>>
statuses == <<status, linked, cache, poll, aged, cooldown>>
cycle == <<now, loop, shutdown, last, marker, clock, item, queued, running, work,
           mail, owed, snapped, dropped, loopUsed>>
watch == <<rows, thread, alerting, process, unswept, watchUsed>>
bus == <<subscriptions, table, handled, runs, tick, faults>>
expiry == <<held, traded, leg, removal, cash, shares, premium, outcome, close, gone, lists,
            age, pass, turn, slips>>
events == <<kind, own, claims, entry, booked, warned, active, memo, posted, day, at, odd,
            misses>>
protect == <<shared, bracket, trailing, price, orders, lot, pending, listed, exit, task, ends,
             replaced, errors>>
rest == <<expiry, events, protect>>
vars == <<on, risk, halts, providers, costs, statuses, cycle, watch, bus, rest>>

Risk == INSTANCE RiskHalt WITH stage <- riskStage
Halts == INSTANCE ProfileHalts
Providers == INSTANCE ProviderCircuit WITH up <- answering
Costs == INSTANCE CostCap WITH call <- spending
Statuses == INSTANCE OrderStatusCache
Cycle == INSTANCE CycleLoop WITH
    Profiles <- Fleet, Workers <- PoolSize, MaxDay <- LoopDays, MaxFaults <- LoopFaults,
    used <- loopUsed
Watchdog == INSTANCE TaskWatchdog WITH Profiles <- Watched, up <- process, used <- watchUsed
Bus == INSTANCE EventBus WITH Events <- BusEvents, MaxFaults <- BusFaults
Expiry == INSTANCE OptionExpiry WITH
    Books <- Profiles, FaultKinds <- ExpiryFaultKinds,
    posted <- lists, day <- age, at <- turn, faults <- slips
Events == INSTANCE AccountEvents WITH
    Books <- Profiles, FaultKinds <- EventFaultKinds,
    rows <- claims, alerted <- warned, faults <- misses
Protect == INSTANCE ProtectiveSweep WITH
    MaxFaults <- SweepFaults, FaultKinds <- SweepFaultKinds

ASSUME ServicesAssumption ==
    /\ Components \subseteq {"risk", "halts", "providers", "costs", "statuses", "cycle", "watch",
                             "bus", "expiry", "events", "protect"}
    /\ Risk!RiskHaltAssumption
    /\ Halts!ProfileHaltsAssumption
    /\ Providers!ChainAssumption /\ Providers!LimitsAssumption
    /\ Costs!CostAssumption
    /\ Statuses!CacheAssumption
    /\ Cycle!LoopAssumption
    /\ Watchdog!WatchdogAssumption
    /\ Bus!BusAssumption
    /\ Expiry!ExpiryAssumption /\ Events!EventsAssumption
    /\ Protect!SweepAssumption

Init ==
    /\ on \in Components
    /\ Risk!Init /\ (on # "risk" => gateOn)
    /\ Halts!Init /\ Providers!Init /\ Costs!Init /\ Statuses!Init
    /\ Cycle!Init /\ Watchdog!Init /\ Bus!Init
    /\ Expiry!Init /\ (on # "expiry" => traded = {} /\ close = "otm"
                                        /\ \A b \in DOMAIN held : held[b] = 0)
    /\ Events!Init /\ (on # "events" => kind = "DIV"
                                        /\ \A b \in DOMAIN own : own[b] = 0 /\ claims[b] = 0)
    /\ Protect!Init /\ (on # "protect" => shared /\ trailing /\ lot.stop # Protect!None)

RiskStep == on = "risk" /\ Risk!Next
            /\ UNCHANGED <<on, halts, providers, costs, statuses, cycle, watch, bus, rest>>
HaltsStep == on = "halts" /\ Halts!Next
            /\ UNCHANGED <<on, risk, providers, costs, statuses, cycle, watch, bus, rest>>
ProvidersStep == on = "providers" /\ Providers!Next
            /\ UNCHANGED <<on, risk, halts, costs, statuses, cycle, watch, bus, rest>>
CostsStep == on = "costs" /\ Costs!Next
            /\ UNCHANGED <<on, risk, halts, providers, statuses, cycle, watch, bus, rest>>
StatusesStep == on = "statuses" /\ Statuses!Next
            /\ UNCHANGED <<on, risk, halts, providers, costs, cycle, watch, bus, rest>>
CycleStep == on = "cycle" /\ Cycle!Next
            /\ UNCHANGED <<on, risk, halts, providers, costs, statuses, watch, bus, rest>>
WatchStep == on = "watch" /\ Watchdog!Next
            /\ UNCHANGED <<on, risk, halts, providers, costs, statuses, cycle, bus, rest>>
BusStep == on = "bus" /\ Bus!Next
            /\ UNCHANGED <<on, risk, halts, providers, costs, statuses, cycle, watch, rest>>

ExpiryStep == on = "expiry" /\ Expiry!Next
              /\ UNCHANGED <<on, risk, halts, providers, costs, statuses, cycle, watch, bus,
                             events, protect>>
EventsStep == on = "events" /\ Events!Next
              /\ UNCHANGED <<on, risk, halts, providers, costs, statuses, cycle, watch, bus,
                             expiry, protect>>
ProtectStep == on = "protect" /\ Protect!Next
              /\ UNCHANGED <<on, risk, halts, providers, costs, statuses, cycle, watch, bus,
                             expiry, events>>

Next == RiskStep \/ HaltsStep \/ ProvidersStep \/ CostsStep \/ StatusesStep
        \/ CycleStep \/ WatchStep \/ BusStep \/ ExpiryStep \/ EventsStep
        \/ ProtectStep

Spec == Init /\ [][Next]_vars

\* The fairness of each component, for the one that moves.
HaltsFairness ==
    /\ \A p \in Profiles : /\ SF_halts(on = "halts" /\ Halts!Reconcile(p))
                           /\ SF_halts(on = "halts" /\ Halts!EnforceFunding(p))
                           /\ WF_halts(on = "halts" /\ Halts!Gate(p))
                           /\ WF_halts(on = "halts" /\ Halts!PipelineEnds(p))
    /\ SF_halts(on = "halts" /\ Halts!Tick)
ProvidersFairness ==
    /\ \A t \in Threads : WF_providers(on = "providers" /\ Providers!Step(t))
    /\ WF_providers(on = "providers" /\ Providers!Tick)
CycleFairness ==
    /\ WF_cycle(on = "cycle" /\ Cycle!Later) /\ WF_cycle(on = "cycle" /\ Cycle!NewDay)
    /\ WF_cycle(on = "cycle" /\ Cycle!Loop)
    /\ \A p \in Fleet : WF_cycle(on = "cycle" /\ Cycle!Thread(p))
WatchFairness ==
    /\ \A p \in Watched :
          /\ WF_watch(on = "watch" /\ Watchdog!Proceed(p))
          /\ WF_watch(on = "watch" /\ Watchdog!TaskEnds(p))
          /\ \A i \in 1..MaxRuns :
                WF_watch(on = "watch" /\ i \in Watchdog!Ids(p) /\ Watchdog!GrowsOld(p, i))
    /\ WF_watch(on = "watch" /\ Watchdog!NextCycle)
    /\ WF_watch(on = "watch" /\ Watchdog!Restart)
    /\ WF_watch(on = "watch" /\ Watchdog!Started)
BusFairness ==
    /\ \A p \in Profiles :
          /\ WF_bus(on = "bus" /\ Bus!Dispatch(p))
          /\ SF_bus(on = "bus" /\ Bus!ClearSubscriptions(p))
          /\ WF_bus(on = "bus" /\ (Bus!NotDue(p) \/ Bus!ClearSubscriptions(p)))
    /\ WF_bus(on = "bus" /\ Bus!NextCycle)

ExpiryFairness ==
    /\ \A p \in Profiles : WF_expiry(on = "expiry" /\ Expiry!Work(p))
    /\ SF_expiry(on = "expiry" /\ Expiry!NewDay)
    /\ \A a \in {"event", "settlement"} : WF_expiry(on = "expiry" /\ Expiry!Post(a))
EventsFairness ==
    /\ \A p \in Profiles : WF_events(on = "events" /\ Events!Capture(p))
    /\ SF_events(on = "events" /\ Events!NewDay)

ProtectFairness == WF_protect(on = "protect" /\ Protect!Cycle)

FairSpec == Spec /\ HaltsFairness /\ ProvidersFairness /\ CycleFairness
                 /\ WatchFairness /\ BusFairness /\ ExpiryFairness /\ EventsFairness
                 /\ ProtectFairness

-----------------------------------------------------------------------------
(* Each property is stated, and its source named, in the component's module. *)

\* The shape of every component's state.
TypesOK ==
    CASE on = "risk" -> Risk!TypeOK
      [] on = "halts" -> Halts!TypeOK
      [] on = "providers" -> Providers!TypeOK
      [] on = "costs" -> Costs!TypeOK
      [] on = "statuses" -> Statuses!TypeOK
      [] on = "cycle" -> Cycle!TypeOK
      [] on = "watch" -> Watchdog!TypeOK
      [] on = "bus" -> Bus!TypeOK
      [] on = "expiry" -> Expiry!TypeOK
      [] on = "events" -> Events!TypeOK
      [] on = "protect" -> Protect!TypeOK

\* Intraday risk halts: a macro event blocks entries; trouble in a sector stays
\* there, and a halt nobody refreshes ends.
RiskHaltsFit == /\ Risk!MacroEventBlocksEntries
                /\ Risk!TroubleStaysLocal /\ Risk!UnrefreshedHaltsEnd

\* Profile halts: missing money is noticed within a time to live, a breach waits
\* for the operator, and a halt that heals itself ends with its cause.
HaltsHold == Halts!MissingFundingIsNoticed /\ Halts!BreachSticks
HaltsHeal == Halts!FundingHaltEnds /\ Halts!SynthesisHaltEnds

\* AI providers: one back-off a cool-down, no blame on the wrong model, and a
\* model that recovered serves again.
OneBackoffPerCooldown == Providers!OneBackoffPerCooldown
ModelsAreJudgedRight == /\ Providers!InnocentStaysClosed
                        /\ on = "providers" => Providers!RecoveredServesAgain

\* Daily budget: concurrent calls, and shadow calls, pass their caps by a bounded
\* amount.
OverspendBounded == Costs!OverspendBounded /\ Costs!ShadowOverspendBounded

\* Order status cache: what is kept for ever is final, but for a part that was done
\* for the day and a leg that was linked after the answer; and what is served is no
\* older than the time to live.
CacheIsTrue == Statuses!ForeverIsFinal /\ Statuses!HitsAreFresh

\* Main loop: exits before scans, work that fell due is in the clocks, in hand or was
\* dropped by a failure or a stop, and no summary is mailed twice but for a lost
\* marker; and a snapshot every day, unless one of these dropped it that day.
CycleInOrder == Cycle!ExitsBeforeScans /\ Cycle!NothingForgotten /\ Cycle!SummaryOnce
EveryDaySnapshot == on = "cycle" => Cycle!EveryDaySnapshot

\* Task watchdog: no false alarm, none twice but for a row it could not mark, no
\* untrue final status, and no row that says running for ever.
RowsAreTrue == Watchdog!StalledWasLost /\ Watchdog!StatusIsTrue /\ Watchdog!AlertedOnce
NoZombieRow == on = "watch" => Watchdog!NoZombieRow

\* Event bus: a registry rewired by other threads multiplies the calls at most by
\* their number, events are handled in order, and every one at last by every handler.
CallsInOrder == Bus!CallsBounded /\ Bus!HandledInOrder
EventsAreHandled == []Bus!HandledInOrder /\ Bus!EventsAreHandled

\* Option expiry and account events: one premium and one way of settling a leg; a
\* book has its own share of an event or none.
ActivitiesBookedRight == /\ Expiry!PremiumOnce /\ Expiry!SettledOneWay
                         /\ Events!SplitIsTrue

\* Every expired leg ends and the cash of an assignment arrives; no owner is passed
\* over by an event in silence.
ActivitiesArrive ==
    /\ on = "expiry" => Expiry!ExpiredLegsEnd /\ Expiry!CashArrives
    /\ on = "events" => Events!BookedOrAlerted

\* Protective orders: the shares are reserved once, and the sweep takes no stop away
\* without another; a position that lost its stop has one again or is left, and
\* nothing rests for a closed one.
ProtectionHolds == []Protect!OneReservation /\ Protect!NeverUncovered
ProtectionComes == on = "protect" => Protect!NakedIsBrief /\ Protect!RestingOrdersGo
=============================================================================

# A verification development for QuantOpsAI

QuantOpsAI runs many trading profiles on a few Alpaca accounts. Each profile keeps a journal (an
SQLite file) of its own and believes only that; the account knows orders and one netted position
per symbol, and nothing of profiles. Almost every incident the source comments tell of is a
disagreement between the two. The modules here model that core, stock orders and option spreads
alike, to the expiry of the contracts; the events of the account as a whole; the halts and switches that
stop entries when something parts; and the machinery every cycle
leans on: the main loop, the task watchdog, the event bus, the caches and breakers in front of the
broker and the AI providers, and the budget.

## 1. The system

| component | state it keeps | hard behaviour | what makes it correct | module |
|---|---|---|---|---|
| shared account (Alpaca, external) | orders, netted position, reserved shares | fills in pieces, cancels that land late, no notion of a profile | - | AlpacaAccount |
| journal (`journal.py`) | `trades`, `submitted_orders`, freshness stamps | a row is lost after the broker accepted | the virtual quantity is the sum of the own fills | JournalBook, OrderLifecycle |
| order guard (`order_guard.py`) | none | reads the journal while orders are under way | a sibling's shares are never sold | OrderLifecycle |
| exits and entries (`trader.py`, `trade_pipeline.py`) | position in the thread | three steps with the broker in between | cancels only own orders; a filled entry is journaled | OrderLifecycle |
| protective orders (`bracket_orders.py`) | `pending_protective` rows, pointers | a stop fires while it is canceled; three views of what rests (rows, pointers, the broker's list) that lag | stop fills are never discarded; one reservation a position, never naked for long | OrderLifecycle, ProtectiveSweep |
| reconciler (`reconcile_journal_to_broker.py`) | none | rows and orders change under it | a fill is booked once, by its owner | OrderLifecycle, SpreadOrders |
| option spreads (`options_multileg.py`, `update_fills`, `phantom_sweep.py`) | rows of the legs, the executor's progress | half a spread filled, roll-back that fails half way | legs all on or all off; rows match their orders | SpreadOrders |
| expiry (`activities_capture.py`, `options_lifecycle.py`) | rows of the leg, the event, its cash, its shares | two writers that never ask each other, late postings, failed writes | one premium, one way of settling, every leg ends | OptionExpiry |
| events of the account (`activities_capture.py`) | rows of the event, a memo of the split | books that are wrong, siblings switched off, a window | each book its own share, or an alert | AccountEvents |
| kill switch and integrity gate (`kill_switch.py`, `multi_scheduler.py`) | one row, history of releases | four writers, ownership by the text of the reason | only a human ends a human's halt | KillSwitch |
| profile halts, funding guard (`halt_helpers.py`, `account_funding_guard.py`) | one reason per profile, equity cache | reasons overwritten, stale equity | a halt ends with its own cause | ProfileHalts |
| intraday risk halts (`intraday_risk_monitor.py`) | one row with an expiry | failed checks, an old row at the gate | a macro event blocks entries, local trouble stays local | RiskHalt |
| AI failover (`provider_circuit.py`, `ai_providers.py`) | a circuit per model | late reports, several probes | no model shut out for another's fault | ProviderCircuit |
| AI cost cap (`cost_guard.py`, `shadow_eval.py`) | two ledgers, the shadow pool's queue | check before, write after; a profile's specialists call side by side | the overspend is bounded | CostCap |
| order status cache (`order_status_cache.py`) | cached orders, 429 cool-down | answers stored out of order, legs linked late | only what is final is kept for ever | OrderStatusCache |
| main loop (`multi_scheduler.main_loop`) | run clocks, two pools, marker files | tasks that raise, failed cycles, SIGTERM, crash | no work lost beyond an interval, exits before scans, a snapshot a day | CycleLoop |
| task watchdog (`task_watchdog.py`) | `task_runs` rows | lost updates, crash | rows tell the truth and close | TaskWatchdog |
| event bus (`event_bus.py`, `event_handlers.py`) | shared registry, a table per profile | threads rewire it side by side, lost marks | every event handled, in order | EventBus |

The components interact through shared state, not through messages: the account; the master database
(switches, halts, ledgers); within one profile its journal; within the process the registries,
caches and circuits. A cycle is: bump the epoch; run the profiles that are due for exits in a pool
of threads; join; run the integrity gate; run the profiles due for a scan in a second pool; join.
Each thread runs the task list of `run_segment_cycle` in order, and `run_task` swallows what a task
raises.

`PROJECT.json` lists the components with what is left out of each, and the hazards with the line
where each bites and the properties that cover it.

## 2. The modules

```
AlpacaAccount   JournalBook
        \         /
       OrderLifecycle -- MCOrderLifecycle, MCLifecycle
        |           \
   OrderCustody      OrderLifecycleProofs -- OversellProofs
        |      \       /
        |  OrderCustodyProofs
        |
   SpreadOrders -- SpreadProofs
        |
   MCSpreadOrders -- MCSwitchAndSpreads -- KillSwitch -- MCKillSwitch, KillSwitchProofs

RiskHalt  ProfileHalts  ProviderCircuit  CostCap  OrderStatusCache  CycleLoop
TaskWatchdog  EventBus  OptionExpiry  AccountEvents  ProtectiveSweep
        \______________________________________________/
                           Services
                          /        \
                 MCServices        ServicesProofs -- SchedulerProofs, ProtectionProofs
```

**AlpacaAccount** is the external service: a sequence of orders (an id is a position), `Fill`,
`Terminate`, `AfterCancel`, `Accepts`. Two fields are ghosts no handler reads: `prof`, who placed
the order, and `canceler`, who asked for its cancellation. The statuses canceled, expired and
rejected are one.

**JournalBook** is the pure part of the journal: `Book`/`BookQty` is the netting of
`get_virtual_positions` (lots first in first out, closed lots dropped at the end, shorts from
over-sells), `FifoLotsFullyConsumed` the second walk, over priced rows only, by which
`update_fills` closes entries. The two disagree on purpose in the code; that they come to the same
end is what `OrderIdTruth` checks. Both are recursive functions, so that proofs may use the module.

**OrderLifecycle** composes them. Per profile: `trades`, `submitted`, `fresh` (the symbol is stamped
at the live epoch), `flight` (where the thread is inside an order), `halted`.

| action | code |
|---|---|
| `SubmitBuy`, `LogTrade`, `LoseJournalWrite` | BUY of `execute_trade`, the guarded `submit_order`, `log_trade` or its loss |
| `PollExit`, `PollExitDeferred`, `AiSell`, `ExitSubmit`, `ExitAbandoned` | `_process_exit_trigger`, SELL of `execute_trade`, `cancel_for_symbol`, the sell door |
| `Freshen`, `ReconcileTask` | `reconcile_and_stamp`; `_task_reconcile_trade_statuses` (same pass, other evidence excluded) |
| `UpdateFills(p, i)` | one row of the loop of `_task_update_fills` |
| `CancelStale`, `CancelOrphaned`, `SyncPending` | the tasks and sweeps of these names |
| `PlaceStop`, `HealPointer`, `RollBackStop`, `StopRefused` | the outcomes of `ensure_protective_stops` for the symbol |
| `CycleStart`, `ClearHalt`, `ExchangeStep` | `cycle_epoch.bump`, the settings page, the exchange |

A profile's cycle is one thread, so its tasks never overlap, but tasks may be skipped and
interrupted; the model lets an idle profile run any task at any time. That allows every order of
tasks the scheduler can produce and some it cannot, so a safety property that holds here holds for
the scheduler's order. Between the three steps of an exit and the two of an entry, the other
profiles, the exchange and the door's own `Freshen` may act.

**SpreadOrders** is one option spread of one profile, from the proposal to settled rows. `setup` says
which: the sides of its legs, the failures it meets and how many, how often it is proposed; it never
changes, and `Setups` is the set of those considered. The executor's place is `ex`: the duplicate guard (`Propose`), the combo with its retries
(`SubmitCombo`, `SendAgain`), the sequential fallback (`SubmitLeg`), the two ways of reversing legs
that were sent (`UndoThenJournal`, `UndoUnsent`, `UndoLeg`), the position-intent skip (`SkipLeg`),
journaling (`LogLeg`, `LogByIndex`) and its roll-back (`CancelOrder`, `CancelUnread`, `MarkLegs`).
Later tasks settle the rows: `StartUpdate`, `FillRow`, `FillReopened`, `VoidRow`, `PassRow` are
`_task_update_fills` row by row, with the roll-back of a dead leg's partners; `Resurrect` is
`resurrect_wrongly_voided`, the sweep at its tail; `Backstop` is the reconciler's option branch. A
fault is one of eight kinds: an order refused, or refused for its position intent; an answer lost
after the order was taken; a journal write, a cancel or a read of an order that fails; a market close
the day ends unfilled (`dies`); the journaling of a roll-back.

**OrderCustody** is the abstract promise of both: somebody answers for every order until the broker
has ended it empty, or the alarm is raised. OrderLifecycle implements it with the thread's hand,
the recovery ledger and the journal as the three who answer and with no alarm at all; SpreadOrders
with the executor's batch and the rows, the profile's halt being the alarm. The mappings are
`Custody` in OrderLifecycle and in SpreadOrders.

**KillSwitch** models the single row of the switch, the release latch, the gate in two steps (it
reads the switch, then writes by what it read) and the profile threads. A reason is a class of
text: the gate knows its own halt by a prefix. `OperatorMidGate`, `ReadsFail` and `CheckersFail`
say which failures an instance contains.

**OptionExpiry** is what becomes of one contract that some of the books of an account hold when it
expires. Two writers work on it: the capture, every hour even while the market is closed, and the
sweep, in a cycle. `Process` and `Post` are the broker, who knows the account's net only.

| action | code |
|---|---|
| `BookRemoval` | `_write_option_expiry_or_exercise`, with `close_leg_rows_for_occ` as its second write |
| `BookSettlement` | `_write_option_settlement`, gated by `OwnsRows` |
| `Sweep` | `sweep_expired_options` on one row: evidence (`Feed`, `Belt`, `Closes`, `StillHolds`), `Verdict`, equity leg |
| `NewPass`, `NewDay` | `_closed_market_housekeeping`, and the two tasks of a cycle |

**ProtectiveSweep** is the protection of one long position, from its filled entry to flat books, while
the cycle goes round: `task` is the next task of it, and between any two tasks the exchange may fill,
end or replace an order and the AI may sell. Three views of what rests at the broker lag behind it: the
pointers of the entry's row (`lot`), the `pending_protective` rows (`pending`), and the list of open
orders that `check_exits` has read (`listed`).

| action | code |
|---|---|
| `Freshen`, `Settle` | the reconciler and `_task_update_fills`, as far as they touch protective rows and the exit |
| `Snapshot`, `NoPosition` | `check_exits` reads positions, prices and `active_protective_coverage` |
| `Sweep` | `ensure_protective_stops`: bracket (`Healed`, `LiveChild`), take-profit (`Sunset`), newest row (`InForce`, `Marked`), list (`Cover`, `Relinked`), 429, placement (`Protected`, `Place`, `Freed`) |
| `Poll`, `AiSell` | `_process_exit_trigger`, unless `Deferred`; SELL of `execute_trade`; both through `cancel_for_symbol` (`Exit`) |
| `CancelOrphans`, `SyncPending` | the sweeps of these names |
| `TaskRaises` | `run_task` swallows an exception |
| `Fill`, `Terminate`, `Replace`, `FillExit`, `ExitDies` | the exchange |

**AccountEvents** is one dividend or cash merger of the account. `Capture` is one profile's
`_write_dividend` or `_write_cash_merger`: dedup, split of the event (`Splits`, from the memo or from the
rows of all books on the account), the sum check (`AddsUp`), the row, or the alert (`Refuse`). `Repair`
is the reconciler, `Switch` the operator who takes a profile out of `get_active_profiles`, `Forget` the
memo's hour or a restart.

**RiskHalt**: the three layers of `compute_halt_decision`, the single row with its age, the check
that may fail or be skipped (`CheckFails`), the gate of the scan. Ghosts remember what the last
finished check saw. **ProfileHalts**: one reason per profile with all its writers (reconciler,
funding guard, breach, operator) and the equity cache the profiles of an account share.
**ProviderCircuit**: question, request and report of `call_ai` as separate steps of concurrent
threads. **CostCap**: estimate, gate, call and ledger row of the calling threads (`Callers`: a profile
has several, for the ensemble asks its specialists in a pool, and `Payer` says whose ledger a thread's
calls go to), the dispatch to the shadow pool, its workers and its own cap, the alert.
**OrderStatusCache**: look into the cache, ask the broker, store, the lock held in the first and last
only; eviction and the 429 cool-down; the broker links a bracket's leg some time after the parent
(`Link`), and an order may come back from done_for_day (`PartMoves`). **CycleLoop**: due profiles,
contexts that cannot be built (`PassOver`), clocks stamped at the start and put back on a failed cycle
(`Fail`) but not for a task that raises (`Raise`) or is skipped (`Skip`), the two pools and their
barriers, the daily bundle with its stamp, marker file and late run, the summary mail with its marker,
SIGTERM, crash, restart. **TaskWatchdog**: rows from start to final status, lost updates, the stall scan,
which alerts also what it failed to mark, crash, the orphan sweep at the start.
**EventBus**: the shared registry that every profile's tick wipes and refills one type at a time,
dedup on emit, dispatch of the oldest `LIMIT` pending rows (a set of row ids), handlers before the mark, a
failed mark, a crash.

### Runs that hold several instances

MCLifecycle, SpreadOrders, MCSwitchAndSpreads and Services put several instances in one specification. A
variable that never changes (`scenario`, `setup`, `moving`, or `on` in Services) names the one that moves.
In the first two the instances of one module differ in their parameters and share the variables; in the
others the components have variables of their own, which share nothing, and all but one rest in their
initial state. The reachable states are therefore the union of the instances', not their product, and a
property guarded by the name says what it would say in a run of that instance alone. They assert the
assumptions of the instances, which INSTANCE does not. Where a run needs fairness, it is that of the
instance's own `FairSpec`, restated for the one that moves.

**Services** leaves every constant of its components open, so that theorems about it are theorems about
each component for all values; MCServices adds the two functions the .cfg files of `services` and
`services_live` refer to.

## 3. What TLC checks

| run | properties | shows |
|---|---|---|
| `lifecycle_repair` | `TypeOK` | two entries in flight, an exit and a stop that fill in pieces, the rows of entries and stops lost: every repair of the sweep and deferral of the exit happens |
| | `BookedOnce`, `FillsNeverWrittenOff` | in the same instance, lost writes and their reconstruction never book an order twice, and no task writes off an entry or exit that holds fills |
| | `NoOrphanOrder`, `KeepsCustody` | no order leaves thread, journal and recovery ledger before it has ended unfilled, and OrderCustody is implemented |
| `lifecycle_isolation` | `OrderIdOwnership`, `CancelsOnlyOwn`, `NoOversell` | two working profiles (exchangeable, so symmetric) stay apart and sell only what they hold, when orders fill whole and cancels land at once |
| `lifecycle_scenarios` | `FillsNeverWrittenOff` | *book*: the same with partial fills and late cancels of every kind |
| | `OrderIdTruth` | *truth*: the promise of docs/13, the virtual quantity is the signed sum of the own fills once nothing is left to do, with two exits filling in pieces |
| | `FilledEntriesJournaled` | *recovery*: every write may be lost, yet a filled entry is journaled in the end |
| `switch_and_spreads` | `TypeOK`, `DecisionStillFits`, `HumanHaltSticks`, `EntriesBlockedWhileDirty`, `CleanBooksEndOurHalt` | the gate between joined pools acts on what it read; halts end by the right hand, and do end |
| | `SpreadTypeOK`, `RowsFitOrders`, `KeepsCustody` | every spread, among them a vertical proposed twice with three failures (refused order, journal write, read, unfilled close) and the refused condor: rows are tied to the orders that carry their leg, no voided row has fills, every order has an owner or the profile is halted |
| | `BookIsTrue`, `OnlyOnce` | an iron condor, one leg refused: settled, the book has what the broker holds, and the spread is on at most once |
| | `RowsSettle` | a vertical, three failures of any kind: no row waits for its fill for ever |
| `services` | `TypesOK`, `OverspendBounded`, `CacheIsTrue`, `CycleInOrder`, `RowsAreTrue`, `CallsInOrder`, `ActivitiesBookedRight`, `RiskHaltsFit`, `HaltsHold`, `OneBackoffPerCooldown`, `ProtectionHolds` | the safety of eleven modules, see below |
| `services_live` | `HaltsHeal`, `ModelsAreJudgedRight`, `EveryDaySnapshot`, `NoZombieRow`, `EventsAreHandled`, `ActivitiesArrive`, `ProtectionComes` | eight of them in smaller instances, with failures and under fairness |

In `services`: a macro event that a recent check saw lets no scan open anything, and local trouble
stays local and ends (`RiskHaltsFit`); missing money is noticed
within one time to live and a lone breach waits for the operator (`HaltsHold`); late or doubled failures
lengthen no back-off (`OneBackoffPerCooldown`); concurrent
calls pass the ceiling by no more than one estimate and surcharge each (`OverspendBounded`); what is
cached for ever is final, but for a leg linked after the answer and a part done for the day, and what is
served no older than its time to live (`CacheIsTrue`); no scan
runs beside unfinished exits, work that fell due is in the clocks, in hand, or was dropped by a task that
raised or a stop until its interval elapses again, no mail doubled unless its marker was lost
(`CycleInOrder`); rows of the watchdog are true, no false alarm, and a second one only of a row a pass
failed to mark (`RowsAreTrue`); an event's handlers run at most once per profile and dispatch, in order
(`CallsInOrder`); a leg's premium is realized once, by the capture or by the sweep, and an assignment
reaches a book as cash or as shares, never as both, and a book has booked an event of
the account for what it held itself or not at all, though one book is wrong, one profile is switched
off, or one capture fails (`ActivitiesBookedRight`); one sell order at a time reserves the shares of a
position, exits included, and the sweep cancels no stop that it does not replace, whatever the list or
the broker answers (`ProtectionHolds`). In `services_live`: an expired leg ends closed or in front
of the operator, and the cash of an assignment arrives though the sweep closed the leg first,
and an owner books an event of the account or its operator hears of it (`ActivitiesArrive`); a position that
lost its stop has
one again or is left, and nothing rests at the broker for good once a position is closed, though a task
raises, a list or a write fails, or an order is refused (`ProtectionComes`); on each of two days a profile
has its snapshot, or its task raised, its context or cycle failed, or a stop passed it over that day
(`EveryDaySnapshot`: a crash, a marker that cannot be written, or a fault of the other day is no excuse);
every event is handled by all its
handlers, and with three events behind a limit of two, oldest first (`EventsAreHandled`).

**Bounds.** Two profiles are enough for a profile and a sibling that hides it on the account, for two
threads inside one window, and for exchanged registrations; two share lots are enough for a partial
fill; budgets of one or two orders of a kind are what the incidents of the source need (an entry,
its stop, an exit, a second exit). A vertical has the two leg sides, a condor the four legs and two
orders of a side. The cool-down doubles at least once before its cap; the cache holds fewer entries
than are asked for; two specialists of one profile and the cycle of another call at once, so all of them
pass the gate on the last money; the main loop's faults are one budget, `LoopFaults`, of whatever kind (a
task that raises, a context or a cycle that fails, a mail or a marker file that does not get through, a
SIGTERM, a crash), in `services_live` over two days, so a fault of the first day may bite on the second; the
watchdog may lose the update of a task and one or two of its own; the broker posts before and after the grace
of the sweep and the window of the capture have run out; the day turns while work is under way; a dispatch
leaves events for the next.
Every bound is a CONSTANT named in its module. The order runs set `CHECK_DEADLOCK FALSE` because their
budgets run out, `switch_and_spreads` because a settled spread is over, `services_live` because the loop is
parked after its last day.

### Where the code departs from what it says

The restrictions of a passing run are not there for convenience: six runs lift one each or look at the rule
itself and show
what then happens in the code. `PROJECT.json` quotes the comment or docstring each departs from.

| run | violates | story |
|---|---|---|
| `lifecycle_unfilled_entry_sold` | `NoOversell` | the own entry is unfilled, the sibling's shares make it look filled, the poll cancels it and sells (in `lifecycle_isolation` no entry is placed) |
| `lifecycle_stop_rearmed` | `StopFillsNeverWrittenOff` | the sweep marks a partly filled, canceled stop terminal by its status |
| `killswitch_blind_release` | `LiftedOnlyOffCleanBooks` | crashed checks read as clean books and release the halt |
| `spread_naked_leg` | `NoNakedLeg` | the reconciler, or the fill poll in an unlucky order, voids the dead leg and nobody closes its partner |
| `expiry_settled_twice` | `SettlementBookedOnce` | a book that once traded the contract, or holds a leg of its own, books the whole account's settlement beside the owner |
| `protect_target_missed` | `TargetIsTaken` | the sweep has placed a static stop and no take-profit order; the price stays at the profit target, and the poll leaves the exit to the "bracket", cycle after cycle |

More was met while modelling and reproduced with these modules (some with a bound or a ghost that has
been removed since); no run is kept for them:

- Orders. A cancel that is not confirmed does not abort the exit (`bracket_orders.py:2077`). A lost
  entry that fills in part and is then canceled leaves the recovery ledger on its status alone
  (`reconcile_journal_to_broker.py:1733`). An operator's halt that falls between the gate's read
  and its write is released by it (`multi_scheduler.py:3630`; the theorems assume it does not).
- Protective orders. A live static stop is never replaced by a trailing one: the checks of the newest row
  and of the list end the turn of the position before the trail is looked at (`bracket_orders.py:1259`,
  `1386`). A trailing stop that the broker has replaced is canceled by its old id, which does nothing, and
  the exit goes out beside the new one (`bracket_orders.py:1932`; the instance of `ProtectionHolds` has no
  replacements). A stop that fires between the cycle's freshen and its sweep stays unseen when the newest
  row is its canceled twin: the sweep marks that row and arms a stop for a position that is sold, if
  siblings' shares back it (`bracket_orders.py:1299`). The children of a bracket whose ids were never
  stamped are on no record while `check_exits` does not reach the sweep, and an AI sell goes out beside
  them. A pointer whose update fails after the placement is never healed while its order lives, for the
  newest row ends the turn first; an AI sell leaves that stop resting. When the parent of a live bracket
  cannot be read, the sweep takes its take-profit for a lingering one, the cancel takes the stop with it,
  and the list, older than the cancel, still shows the stop: naked until the next cycle.
- Spreads. A partner whose price the same sweep has not stamped yet is left on
  (`multi_scheduler.py:2242`). A pending sell is always taken for an exit, so the open row of a short
  leg is closed when it fills (`multi_scheduler.py:2004`); and a filled open may be taken for a
  buy-to-close (`multi_scheduler.py:1976`). The duplicate guard looks at open rows only
  (`options_multileg.py:815`). A failed cancel hides the fills the others read back
  (`options_multileg.py:2187`). A refused reversal after a position-intent skip leaves a filled leg
  without a row (`options_multileg.py:1118`). A combo whose answer is lost is sent again without a
  client order id (`options_multileg.py:532`). The rows of a combo that filled may be voided when its
  roll-back fails half way; the sweep that restores such rows within "at most one cycle"
  (`phantom_sweep.py:139`) stands at the end of `update_fills`, which returns early when nothing waits
  for a fill (`multi_scheduler.py:1634`).
- Expiry and events. When the update that closes the leg of an event, or the entry of a merger, fails, no
  later pass tries again, for the event's row is there (`journal.py` says of both "the idempotent
  activities pass retries"): the leg stays open, and the sweep realizes its premium a second time and, for
  an assignment, books shares beside the cash; the entry of a merger stays open for good. The dedup
  answers no when it cannot read (`activities_capture.py:367`), and a dividend may be booked twice. The
  sweep still asks for the type OPXRC, which the API rejects, so its own question to the broker is never
  answered and exercises never match (`options_lifecycle.py:226`); the name alone corrected, an
  assignment would be settled in cash and in shares. A crash between the sweep's update and its equity
  leg loses the shares (`options_lifecycle.py:632`). Two legs that net out between siblings get no event
  at all and end in front of the operator, if they ended in the money. A sibling that is switched off
  while it holds keeps the others from booking (`activities_capture.py:286`), and a wrong book beside it
  may make up the sum.
- Halts. A second halt overwrites the reason of the first, so a breach or a drift may be cleared with the
  cause that came later (`halt_helpers.py:101`, `account_funding_guard.py:112`); an unreachable
  broker counts as funded and clears the funding halt (`account_funding_guard.py:106`). The reconciler clears
  only a halt whose reason has its own prefix (`reconcile_journal_to_broker.py:2789`), as the model does; the
  docstring that it clears "unconditionally" is older (`halt_helpers.py:20`). A sector
  halted without a macro event is stored with action "pass" and never reaches the pipeline
  (`intraday_risk_monitor.py:568`).
- AI. Half-open lets every caller through until the first reports (`provider_circuit.py:94`);
  AIProviderUnavailable is also raised after providers were called (`ai_providers.py:1061`); the
  ceiling is passed by calls in flight (`ai_providers.py:750`), and not by one for each profile only: the
  ensemble asks its specialists in a thread pool (`ensemble.py:302`, `438`), and each passes the gate before
  any of them is written. `OverspendBounded` therefore counts calling threads. The budget alert is sent once in
  the life of a process (`multi_scheduler.py:2452`).
- Cycle. A late lookup replaces an entry that was cached for ever (`order_status_cache.py:159`). "Broker
  statuses that can never transition again" (`order_status_cache.py:47`) is not so of done_for_day, from which
  a good-till-canceled order comes back; and the broker links the children of a bracket some time after it
  took the parent (`trade_pipeline.py:1889`, `bracket_orders.py:1102`), so a nested lookup that finds the
  parent filled and no legs yet is immutable to `_is_immutable` and served for ever. `CacheIsTrue` names
  both as its exceptions. `run_task` swallows a task that raises (`multi_scheduler.py:156`), the cycle goes
  on and the clocks stay stamped: an exit check or a scan that raised waits for the next interval, a snapshot
  for the next day. The watchdog lists a row before it marks it (`task_watchdog.py:299`): when an update or
  the commit fails, nothing is marked, the rows listed are alerted all the same, and again on the next pass,
  though the docstring says "so we don't re-alert". A tick
  that wipes the registry lets another mark an event handled that no handler saw
  (`event_handlers.py:114`); two that interleave subscribe twice (`event_handlers.py:116`). After
  SIGTERM the rest of a daily bundle is skipped and its marker still written
  (`multi_scheduler.py:6622`), and a run after 16:00 stamps the snapshot for profiles that had none
  (`multi_scheduler.py:6614`; the instance of `EveryDaySnapshot` has no profile that runs around the clock).
  Two profiles may both send the weekly digest (`multi_scheduler.py:5383`), and a bundle that reaches it
  before 16:00 sends none (`multi_scheduler.py:5370`). A hung task hangs
  the watchdog that should see it (`multi_scheduler.py:427`).

### Fairness

- OrderLifecycle: a thread that has sent an order journals it or fails to (weak; a loss is a third,
  unforced outcome); the pools are joined because task lists are finite, so `CycleStart` recurs
  (strong, threads become busy again); a freshen that is run again and again succeeds in the end
  (strong). None of the exchange, the operator or any sweep.
- KillSwitch: gate steps are taken and threads finish (weak); pools are joined and the loop turns
  (strong).
- SpreadOrders: the day ends every order (weak, `Broker`); the cycle comes again (weak, `Settle`); an
  execution that has begun goes on (weak), none is forced to begin.
- ProfileHalts: every profile is reconciled and its scan reaches the funding guard again and again
  (strong, the cycle comes back), a scan ends (weak), time passes.
- OptionExpiry, AccountEvents: every book's next task is done (weak); the day turns again and again
  (strong: other passes come in between); the broker posts what it has done (weak).
- ProtectiveSweep: the cycle goes on (weak); the exchange, the AI and the faults are not forced.
- ProviderCircuit: every thread's steps and the clock (weak). A provider is never forced to recover.
- CycleLoop: time, the loop and the workers go on, a killed process is restarted by the service
  manager (weak). Crashes, stops and failures, a raising task among them, are bounded and never forced.
- TaskWatchdog: every task ends, cycles follow one another, a killed process comes back (weak).
- EventBus: threads go on and cycles follow (weak), a profile is due for a tick again and again
  (strong, the interval elapses).

## 4. What is proved

All theorems hold for every value of the constants that satisfies the named assumptions: any set of
profiles, any quantities and budgets, lost writes, partial fills and late cancels of every kind, any
number of threads, models, orders and prices. The assumptions are `AccountAssumption`,
`LifecycleAssumption`, `SpreadAssumption`, `KillSwitchAssumption` and `ServicesAssumption`, the
conjunction of the components' own; they say that constants are numbers and finite, non-empty sets. Where a theorem needs
more, its statement says so.

**OrderLifecycleProofs.** `JournalsNameOwnOrders`: `Spec => []OrderIdOwnership`;
`NobodyCancelsForASibling`: `Spec => []CancelsOnlyOwn`; `TypeCorrect`: `Spec => []TypeOK`.
Ownership alone is not inductive: a rebuilt row takes its id from the ledger, a logged row from the
thread, a link from a stop, an order to cancel from either. The invariant `OwnCustody` therefore says
that every path by which an order id travels inside a profile (rows, pointers, ledger, the order in
its thread) carries own orders only, and that the quantity an exit has decided to sell is one an
order can have. One lemma per action shows that it is kept, most of them by `RewriteSafe` (a row may
change status, price flag, quantity within range, and pointer to own orders) and the lemma of a
cancel; `Init` uses that the holders' orders are a bijection.

The second half of the module is about what becomes of orders whose journal writes are lost.

- `NothingBookedTwice`: `Spec => []BookedOnce`. That no two rows name one order needs to be known of the
  order a thread has sent, that it is in the ledger and in no row yet (`SentIsRecorded`), and of every
  order no row names and no thread holds, that its write was lost (`Unbooked`, `WriteLost`); with
  `BookedOnce` these make the invariant `Trail`. The reconstruction, the cancel of orphans and the sweep
  rebuild rows of unbooked orders only, each order once.
- `RecoveryImplementsPromise`: `Spec => Promise!Spec`, the refinement of OrderCustody step by step. A thread's
  hand takes an order the broker accepted, passes it to the rows or the ledger, and the tables drop only
  what is *forsaken*: canceled, and without fills, or with fills of a kind in `Leaky`. `Leaky` names the leak
  of the code exactly: a kind of order that may lose its write and fill in pieces (a stop must also be
  rolled back by a cancel that lands late), for the recovery decides such an order on its status alone.
- `OnlyForsakenForgotten` is what OrderCustody's own theorem makes of this refinement: every order is
  accounted for or forsaken.
- `RecoveryImplementsCustody` and `NoOrderOrphaned`: with `Leaky = {}` the lifecycle implements OrderCustody
  with the mapping the runs check, and no order is orphaned. The instance of `lifecycle_repair` has
  `Leaky = {}` with writes of entries and of stops lost; with late cancels or with entries that fill in
  pieces TLC finds both violated there, so the hypothesis is needed.
- `NoFillWrittenOff`: `Spec => FillsNeverWrittenOff`, without any hypothesis on failures. Three tasks do
  mark a `pending_protective` row by its order's status alone; the invariant is that such a row is always a
  stop's (`PendingIsStop`), and each action is shown to be `Careful`: the row keeps its order, and a row that
  becomes canceled had no fills or was a stop's. The code's own rule for stops
  (`StopFillsNeverWrittenOff`) is violated, see above.

**OversellProofs.** `NeverOversold`: `Spec => []NoOversell`, for any profiles, holdings and quantities, with
every task of every profile interleaved and the exchange between any two of their steps. No profile's own
orders ever sell more than they bought, so none sells what is a sibling's on the shared account.

- The door compares an exit with the profile's own journal. So the module first says what the book of a holding
  is: a journal whose first row is the holding's and whose other rows sell (`OfHolding`) is walked to one lot,
  less what each row sold, never below nothing (`BookOfHolding`); the quantity it answers and what its rows
  count as sold are together at most the holding (`QtyOfHolding`). The walk and the sums over rows and orders
  are folds, and what is needed of them (`FoldExists`, `FoldInjects`, `WalkExists`) is proved by smallest
  counterexamples.
- The property alone is not inductive. `Backing` says of every order that it is `Sound` and of every profile
  that it is `Backed`: each row but the holding's states at least what its order has sold or may still sell
  (`Exposure`), and all that is exposed is covered by the holding (`Exposed`). The one row the book does not
  count is the resting stop, `pending_protective`. `PendingRow` says why that is safe: there is at most one,
  the holding's row points to it while it can sell, and then no exit is about to be sent, for whoever decides
  on a sell has canceled it first. `SoldInBook` turns this into what the door needs: before an exit is sent,
  all that is exposed is in the book. `RoomForStop` is the counterpart for the sweep.
- An action is shown to keep `Backing` in one of four ways: it lets orders end or fill (`ExchangeBacking`),
  rewrites rows such that each still covers its order (`RewriteBacking`, `TaskBacking`), cancels
  (`CancelOnlyBacking`), or adds an order for which the book has room (`AddedBacking`).
- Four hypotheses, `Cautious`: no entry is placed, cancels land at once, stops do not fill in pieces, and no
  row of an exit is lost. `lifecycle_isolation` is an instance of them, and they leave open that entries' and
  stops' rows are lost and that exits fill in pieces. Each is needed: TLC finds `NoOversell` violated with
  entries (`lifecycle_unfilled_entry_sold`), with cancels that land late, with an exit's row lost, and with
  stops in pieces as soon as there may be two of them.

**SpreadProofs.** Spreads of any legs, any failures and any number of them.

- `SpreadTyped`: `SpreadSpec => []SpreadTypeOK`, and `RowsAlwaysFit`: `SpreadSpec => []RowsFitOrders`. The
  code passes order ids from the executor to the rows by the position of a leg, in two orders: the sequence
  in which legs are sent, closes of shorts first, and the strategy's own. `SpreadInv` says at each place of
  the executor how many orders it holds (`PlaceOK`) and whose they are (`HandOK`: the j-th sent is the open
  of the j-th leg of `Sequence`), so that the row `LogLeg` writes fits its order (`RowsFit`). That
  `Sequence` names every leg once is the first part of the module (`SortedLists`,
  `SequenceIsPermutation`). `VoidOK` follows the roll-back: an order it has been through has ended or is known to have
  filled, unless a cancel failed.
- `SpreadImplementsCustody`: `SpreadSpec => KeepsCustody`, and `NoSpreadOrderLost`, which OrderCustody's own
  theorem makes of it. `Sound` names the failures the code has no answer to: an answer lost, the row of a
  reversal that fails, a refused reversal after a position-intent skip, with each of which TLC finds an order
  nobody answers for (the stories are under "Spreads" above); and a cancel that fails, which is answered with
  a halt, but leaves voided rows of live orders, which the sweep may put on record again. What is needed beside
  `SpreadInv` is that what the executor is about to let go of is on record (`RecordOK`), and that a task
  that voids a row does so of a dead order.

**KillSwitchProofs.** `TypeCorrect` needs no assumption on failures: the latch bounds the
releases. `TheGateActsOnWhatItRead`, `OnlyTheOperatorEndsAHumanHalt` and `DirtyBooksBlockEntries`
assume `~OperatorMidGate` and `~ReadsFail`, the two windows the code leaves open. The argument:
`DecisionStillFits` is inductive with `TypeOK` because all threads are idle while the gate runs; the
two action properties follow from it action by action.

**OrderCustodyProofs.** `EveryOrderAnswered`: until the alarm every order that has not ended empty is
in a hand or on record; `OrdersAreGenuine`: neither hand nor record names an order the broker never
had. Both invariants are inductive as they stand. OrderLifecycle and SpreadOrders inherit them through
their refinements.

**ServicesProofs.** Since the components share no variable, a step of Services is a step of one component
and a stutter of the others (`RiskMoves`, `HaltsMove`, ...); each theorem is then about one component.

- `BackoffGrowsOncePerCooldown` (`OneBackoffPerCooldown`) and `ProvidersTyped`: any number of threads over
  chains of any length. A failure that lengthens the cool-down finds the circuit half open (`FailureCounts`).
- `HaltsHoldUntilMended` (`HaltsHold`), assuming `~Unreachable`: the code counts an unreachable broker as
  funded. The invariant `HaltsInv` adds to the types that a breach halt has a breach behind it, and that money
  that was there when the equity cache was filled has not been gone for longer than the entry is old
  (`CacheDatesLoss`): this is what bounds the delay however many profiles share and refill the cache.
  `BreachWaitsForOperator` needs no hypothesis.
- `RiskHaltsFitTheMarket` (`RiskHaltsFit`): the row is what the last finished check decided, and exactly as
  old, or that decision was to have none or has run out (`RowIsLastDecision`). Checks that fail or are
  skipped in between let it age and nothing else.
- `CachedStatusesAreTrue` (`CacheIsTrue`): what an entry, or the answer a thread carries between the two times
  it holds the lock, says is final is final at the broker; it covers the parts that were linked when the
  broker answered, is no younger than it claims, and is kept for ever only if no part of it was live
  (`EntriesHold`, `AnswersHold`); evictions take entries away and change none.
- `SpendingIsBounded` (`OverspendBounded`), for any number of profiles, of threads that call for each of
  them and of shadow workers, and any prices, through restarts and midnights. It is not inductive: a call in the air spends when it returns. The invariant
  `BudgetInv` counts what is in the air as owed from the moment it is let through (`Debt`): ledger and debts
  together stay within the ceiling, one dearest call for every other thread, and the surcharges. A call that is
  let through finds room for its estimate (`CallLetThrough`); a midnight leaves only debts, and each is of a
  call the whole ceiling could pay (`OwedAlone`). The sum over the profiles is a fold, of which a section
  proves what is needed: it exists, is an integer, is monotone, and changes by what one term
  changes. These are inductions over finite sets; the induction theorems of the library take an operator, which
  the provers cannot instantiate, so each takes a smallest counterexample instead (`LeastOf`, `SmallestOf`).
- `ActivitiesAreBookedRight` (`ActivitiesBookedRight`), for any number of books. Of the options: a leg that is
  open has realized nothing, and no activity the sweep can read tells it that shares have moved (`OneWriter`).
  This takes two hypotheses: a write that closes a captured leg does not fail, and the API rejects one of the
  types the sweep asks for, which empties its list. Of the account's events: what is remembered of a split
  until it is booked adds up (`Remembered`), and two books cannot be wrong such that it still does
  (`WrongDoesNotAddUp`). This takes `MaxOdd <= 1`, for of two odd books one may hide the other's error, and that
  the question whether an event is booked is answered. Each of the four is needed: TLC finds the property
  violated without it.

**SchedulerProofs.** The machinery of a cycle, for any number of profiles, workers, rows, lost updates and
crashes.

- `RowsTellTheTruth` (`RowsAreTrue`). The three properties are not inductive: a row that says running of a task
  that is over may be a lost update or wait for the sweep at the start, and only the first may be reported.
  `WatchInv` tells them apart (`RowFits`): the row of a live task says running and its thread is at the task;
  a running row of a dead task lost an update, unless the process is down or the start has not swept that
  profile yet (`AwaitsSweep`); what waits for its alert is stalled and had none, or was listed by a pass that
  failed to mark it, which is counted (`AlertsFit`).
- `CyclesRunInOrder` (`CycleInOrder`). What is in the pool belongs to the pass the loop is in (`PoolOrder`);
  what a profile owes is in its clocks, is known to have been dropped, or is among the tasks left of its
  running cycle (`OwedFits`; that the property's `item[p]` is enough is `WorkFits`): the stamp at the start is
  safe because the tasks take over what it clears, a task that raises or is skipped leaves its work among what
  was dropped, and the failed cycle puts back all the tasks could have held. What was dropped is never in a
  clock that has run out (`DroppedFits`), so the excuse ends with the interval. Whoever is at the summary
  mail has its task in hand (`MailsAtHand`), so it has one sender, and `SummariesFit` counts a mail that went
  out against its marker, the sender about to write it, or a marker that was lost.
- `HandlersAreCalledInOrder` (`CallsInOrder`), for any events, limit and number of profiles and faults. That a
  handler is called at most once for every profile follows from what the registry can hold: while ticks are
  under way, a handler stands in it at most as often as there are profiles whose tick is past subscribing it
  (`RegistryFits`, `WiredBy`); wipes only make it less. A dispatch that calls
  an event's handlers again lost its mark to a fault (`CallsFit`). The order follows from the rows a dispatch
  has read: they are pending, and whatever is older is handled or among them (`RowsArePending`).

**ProtectionProofs.** The protective orders of a position, over any number of cycles.

- `SweepIsTyped`: whatever fails, rows and pointers name orders that exist, a pointer one of its kind where the
  sweep relies on it, no order has two rows, and a replaced order names a later one. The last makes
  `walk_replace_chain_forward` come to an end, which the model's recursion `Tip` needs to be a function at all
  (`TipsExist`), and no two rows end in the same order (`ChainsApart`), or the sync would make them one.
- `ProtectionIsKept` (`ProtectionHolds`). What is at work at the broker is one order or the two children of one
  bracket (`OneAtWork`), and none beside a market exit. The code does not know that: it looks at rows, pointers
  and a list that may be empty. So `AtWorkIsKnown` says that an order at work has a row, the newest one unless
  it is a child, and a pointer, or its twin has; but for the children of a bracket the first sweep has not
  healed yet (`Fresh`). The newest row is what keeps the sweep from placing a second stop, the pointer what a
  sell cancels first. `SaleIsKnown` keeps the row of a child that has filled until the entry is closed, for
  between the two the shares are gone and the entry still open. After the drain, then, either nothing
  is at work or the newest row is in force (`DrainedIs`), and only with nothing at work is a stop placed.
  Four hypotheses: no trailing stop is replaced, no task raises, parents can be read, pointers are
  written. TLC finds `ProtectionHolds` violated without any one of them.
- `ComponentsAreTyped` (`TypesOK`) puts the components' types together, most of them parts of the invariants
  above. What is left is bounded by who may write it: a profile has one live row, for a thread that starts a
  task had none (`OneTask`); a worker is taken from the pool only while it has room, and gives back a profile
  with no task left (`PoolFits`); the dates of the bundle are days that have come (`DatesFit`).

Only model-checked:

- All liveness: fairness and ENABLED are beyond the prover.
- `OrderIdTruth`, `BookIsTrue`, `OnlyOnce`: they are about journals that buy more than once, and rest on what
  `Book` and the second walk compute for every journal, lot by lot. OversellProofs follows the walk of a
  journal with one lot; a state that is a sequence of lots, each of which a sell may split, is not covered by it.

## 5. What is abstracted, and what is left out

- **Stock orders.** One symbol, long only: no shorts or covers. A sell beyond the long is rejected by the
  account, as it would be without `intent="open_short"` on a flat book. One static stop per
  position, placed by the sweep; bracket children, trailing and take-profit orders and replace chains
  are in ProtectiveSweep, `revoke_unbacked_protective_orders` is in neither. `PollExit` may sell where the
  poll of the code defers, which allows more than the code does. Prices: only whether a row is priced. Cash is
  `EntryBudget`. P&L passes write no column the book reads. A crash between the submission and its
  ledger record is not modelled, nor the pruning of ledger records after two days
  (`journal.py:2233`). One reconcile pass is one step, `update_fills` one step per row; reads go to the
  broker directly, not through the status cache.
- **ProtectiveSweep.** One position and one entry of it; siblings are a flag that says their shares would
  back an order. Orders fill whole and cancels land at once. Statuses are read from the broker, not through
  the cache. The price is one of five places relative to the entry, the trail and the target. Left out: the
  conviction override, the DAY retry of a hard-to-borrow name, the second layer of
  `_detect_protective_fill`. The sweep is one step, and so are the poll's
  cancel and sell. The instance of `ProtectionHolds` is without replacements, tasks that raise, parents that
  cannot be read and lost pointers, for the reasons told above; that of `ProtectionComes` has them all.
- **Spreads.** Strike snapping, pricing and limits; siblings on the same contract; partial fills of an
  order; the row of a partner's market close that cannot be written after the close was submitted
  (`multi_scheduler.py:2304`); a crash in the middle of an execution; the freshness reconcile inside a submit; the voiding of
  orders the broker has not known for 24 hours; external close evidence; rolls and delta hedges.
- **OptionExpiry.** One contract, one unit of it a book, one outcome for all of it: no early or partial
  assignment. The event comes as a MISC row always and as a typed row perhaps, which the dedup makes one.
  Closing prices are in the money, out of it, or not to be had. The stock entries an equity leg consumes.
  A write that closes a leg fails in the
  instance of `services_live` only: what it does to the premium is told above. An activity's rows are posted on one day.
- **AccountEvents.** Whole shares, one a book, so that the tolerance of half a share is equality; the
  amounts in cents; events without a record date, which are refused. A book is wrong until the reconciler
  repairs it, which need not happen. Fees (`_write_fee`) and the alerts on reorganisations.
- **KillSwitch.** The write of the switch does not fail; books are clean, one fill behind, or drifted.
- **RiskHalt, ProfileHalts.** A failed read or write of the flag or the row; `Tick` waits for a scan that
  stands at the gate (a scan is short against the time to live).
- **ProviderCircuit, CostCap.** In-call retries are one request. A ledger row that cannot be written, the
  user's own ceiling, the quota stand-down of the shadow arms, profiles disabled during the day.
- **OrderStatusCache.** A status is live, done for the day or final; a bracket has one leg; `clear_cache` is
  a test hook.
- **CycleLoop.** The legacy segment mode, the prediction timer, the bundle's other tasks, the weekly digest
  among them, pre-open sweeps, weekends and holidays. A late bundle whose cycle raises ends the process and is
  a `Crash`. The clock waits for the loop
  where an iteration is short against the phase: a parked loop wakes before the phase changes, and a day
  ends only after the loop saw the close.
- **TaskWatchdog.** The row of the watchdog's own run; the text of the diagnosis.
- **EventBus.** What detectors look at (any event may be detected), what handlers answer.

Not modelled: the numeric and LLM side (analysis, strategies, meta-model, tuning, data feeds), the
dashboard pages and reports, database accessors and migrations, the audits that only read. They decide
which trades are tried or show what is there, and the models leave the first nondeterministic. The broker
health ring is fed only by profiles with an account of their own; the entry blacklist has one writer per
profile; the shared AI cache replaces its rows atomically. `PROJECT.json` has the list.

## 6. Plan

Done: the order core with its custody, the spreads, expiry and account events, the switches and halts,
the services.

1. Proofs: `OrderIdTruth`, from `Backing` and a walk over several lots.
2. More of the protective orders: revocation after a broker wipe, and ProtectiveSweep for two profiles on
   OrderLifecycle's account, with cancels that land late.
3. The status cache between OrderLifecycle and the account: which properties survive reads as old as the
   time to live.
4. Reference checks of JournalBook: the two walks against a declarative netting of all small journals.

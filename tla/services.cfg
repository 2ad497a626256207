\* Every component in its larger instance: safety.
CONSTANTS
    Components = {"risk", "halts", "providers", "costs", "statuses", "cycle", "watch", "bus",
                  "expiry", "events", "protect"}
    Profiles = {"p1", "p2"}
    Threads = {"p1", "p2"}
    \* Two primary halts make a macro event (three in the program), so that one
    \* hard fall with its spillover would look like one; an hour is two cycles.
    Sectors = {"tech", "comm", "health"}
    Correlated <- Spills
    BreadthHaltCount = 2
    ClearAfter = 2
    \* Two profiles of one account share the equity cache.
    Ttl = 2
    Unreachable = FALSE
    Models = {"m1", "m2"}
    Chain <- FailsOver
    FAIL_THRESHOLD = 2
    MAX_COOLDOWN = 3
    \* Dear and cheap calls of two specialists of p1 and a cycle of p2, two shadow workers.
    Callers = {"ensemble1", "ensemble2", "cycle"}
    Payer <- PaysFor
    Workers = {"w1", "w2"}
    MAX_QUEUE = 1
    Estimates = {1, 2}
    Ceiling = 3
    ShadowCap = 2
    Surcharge = 1
    ALERT_AT = 2
    \* Two threads look up one bracket order; the cache holds one entry.
    Orders = {"bracket"}
    Bracket = {"bracket"}
    NONTERMINAL_TTL = 1
    RATE_LIMIT_COOLDOWN = 1
    CACHE_MAX_ENTRIES = 1
    \* One worker, one of two profiles around the clock, and a fault of any kind.
    Fleet = {"p1", "p2"}
    AlwaysOn = {"p2"}
    PoolSize = 1
    LoopDays = 1
    LoopFaults = 1
    \* Updates lost, of a task and of the watchdog, a crash and a lost alert.
    Watched = {"p1"}
    MaxRuns = 3
    MaxLocked = 3
    MaxCrashes = 1
    MaxUnsent = 1
    \* Profiles tick side by side, and nothing is lost.
    BusEvents = {"filing"}
    Reactive = {"filing"}
    LIMIT = 1
    BusFaults = 0
    \* Two books of one account, one thing odd about them: a missing row or a switch.
    Window = 1
    MaxDay = 2
    MaxFaults = 1
    Accepted = {"OPEXP", "OPASN", "OPEXC"}
    Grace = 1
    ExpiryFaultKinds = {"skip"}
    MaxOdd = 1
    EventFaultKinds = {"skip", "lookup", "flip"}
    \* Any two orders end unfilled, and no pointer or look at the bracket fails.
    Starts = {"stamped", "unstamped", "plain", "lingering"}
    MaxEnds = 2
    MaxReplaced = 0
    SweepFaults = 2
    SweepFaultKinds = {"list", "limited", "refused", "row"}
SPECIFICATION Spec
INVARIANTS TypesOK OverspendBounded CacheIsTrue CycleInOrder RowsAreTrue CallsInOrder
           ActivitiesBookedRight
PROPERTIES RiskHaltsFit HaltsHold OneBackoffPerCooldown ProtectionHolds

\* The components with liveness properties, in their smaller instances.  The loop is
\* parked at the end of the last day.
CONSTANTS
    Components = {"halts", "providers", "cycle", "watch", "bus", "expiry", "events", "protect"}
    Profiles = {"p1"}
    Threads = {"p1", "p2"}
    \* Two primary halts make a macro event (three in the program), so that one
    \* hard fall with its spillover would look like one; an hour is two cycles.
    Sectors = {"tech", "comm", "health"}
    Correlated <- Spills
    BreadthHaltCount = 2
    ClearAfter = 2
    \* One profile, and the broker may fail to answer.
    Ttl = 2
    Unreachable = TRUE
    Models = {"m1", "m2"}
    Chain <- FailsOver
    FAIL_THRESHOLD = 2
    MAX_COOLDOWN = 1
    \* Dear and cheap calls of two specialists of p1, two shadow workers.
    Callers = {"ensemble1", "ensemble2"}
    Payer <- PaysFor
    Workers = {"w1", "w2"}
    MAX_QUEUE = 1
    Estimates = {1, 2}
    Ceiling = 3
    ShadowCap = 2
    Surcharge = 1
    ALERT_AT = 2
    \* Two threads look up one bracket order; the cache holds one entry.
    Orders = {"bracket"}
    Bracket = {"bracket"}
    NONTERMINAL_TTL = 1
    RATE_LIMIT_COOLDOWN = 1
    CACHE_MAX_ENTRIES = 1
    \* A profile of market hours, two days and a fault of any kind.
    Fleet = {"p1"}
    AlwaysOn = {}
    PoolSize = 1
    LoopDays = 2
    LoopFaults = 1
    \* Tasks that all end, two lost updates and a lost alert.
    Watched = {"p1"}
    MaxRuns = 2
    MaxLocked = 2
    MaxCrashes = 1
    MaxUnsent = 1
    \* A mark may fail, and the process may die.
    BusEvents = {"filing", "shock", "winner"}
    Reactive = {"filing", "shock"}
    LIMIT = 2
    BusFaults = 2
    \* One book, alone on its account.
    Window = 2
    MaxDay = 3
    MaxFaults = 1
    Accepted = {"OPEXP", "OPASN", "OPEXC"}
    Grace = 1
    ExpiryFaultKinds = {"skip", "flip", "shares"}
    MaxOdd = 1
    EventFaultKinds = {"skip", "lookup", "flip"}
    \* One order ends, one is replaced, and the children of a bracket are known.
    Starts = {"stamped"}
    MaxEnds = 1
    MaxReplaced = 1
    SweepFaults = 1
    SweepFaultKinds = {"list", "limited", "refused", "row", "task", "parent", "pointer"}
SPECIFICATION FairSpec
PROPERTIES HaltsHeal ModelsAreJudgedRight EveryDaySnapshot NoZombieRow EventsAreHandled
           ActivitiesArrive ProtectionComes
CHECK_DEADLOCK FALSE

-------------------------- MODULE OrderStatusCache --------------------------
(***************************************************************************)
(* The process-wide cache of broker order lookups and its 429 breaker      *)
(* (order_status_cache.py).                                                *)
(*                                                                         *)
(* An order has its parts, a parent and perhaps a leg; of the status of a  *)
(* part what matters is whether it is in TERMINAL_STATUSES, and whether it *)
(* is done_for_day, which is in that set and from which a good-till-       *)
(* canceled order comes back.  The broker links the leg of a bracket to    *)
(* its parent some time after it accepted it; a lookup that is nested sees *)
(* it from then on, one that is not never does, and is cached under a key  *)
(* of its own.  A thread looks into the cache, asks the broker and stores  *)
(* the answer in three steps, and holds the lock in none of them but the   *)
(* first and the last.                                                     *)
(***************************************************************************)
EXTENDS Integers, FiniteSets, FiniteSetsExt, Functions

CONSTANTS Threads, Orders,
          Bracket,                  \* the orders that get a leg
          NONTERMINAL_TTL, RATE_LIMIT_COOLDOWN,   \* in ticks
          CACHE_MAX_ENTRIES

CacheAssumption ==
    /\ Orders # {} /\ Bracket \subseteq Orders
    /\ {NONTERMINAL_TTL, RATE_LIMIT_COOLDOWN, CACHE_MAX_ENTRIES} \subseteq Nat \ {0}

VARIABLES
    status,     \* order -> part -> how it is at the broker
    linked,     \* the brackets whose leg the broker has linked to the parent
    cache,      \* key -> entry, for the keys that have one
    poll,       \* thread -> the lookup it is in
    aged,       \* ghost, thread -> whether its last answer was too old
    cooldown    \* ticks until rate_limited() is FALSE again

vars == <<status, linked, cache, poll, aged, cooldown>>
broker == <<status, linked>>

-----------------------------------------------------------------------------
Parts == {"parent", "leg"}
Keys == Orders \X BOOLEAN

\* Live, done_for_day, or one of the statuses that last.
Standings == {"live", "day", "final"}

PartsAt(o) == IF o \in linked THEN Parts ELSE {"parent"}

\* The parts a lookup under a key sees, and what it is told of them.
Seen(k) == IF k[2] THEN PartsAt(k[1]) ELSE {"parent"}
View(k) == [part \in Seen(k) |-> status[k[1]][part]]
Views == UNION {[S -> Standings] : S \in SUBSET Parts}

\* _is_immutable that looks at the parent alone.
ParentDone(view) == view["parent"] # "live"

\* _is_immutable: the parent and every leg that came with it.
IsImmutable(view) == \A part \in DOMAIN view : view[part] # "live"

RateLimited == cooldown > 0

(* An entry: what was seen, the time since the lookup began (fetched_at, up  *)
(* to the TTL), and, which only the properties read, since it was true.      *)
Stored(p) == [view |-> p.view, age |-> p.age, since |-> p.since,
                 forever |-> IsImmutable(p.view)]

With(k, entry) ==
    [j \in DOMAIN cache \cup {k} |-> IF j = k THEN entry ELSE cache[j]]

Older(n) == Min({n + 1, NONTERMINAL_TTL})

\* Over the cap, the oldest tenth of the entries goes, and one at least.
Evictions(c) ==
    IF Cardinality(DOMAIN c) <= CACHE_MAX_ENTRIES THEN {c}
    ELSE LET n == Max({1, Cardinality(DOMAIN c) \div 10})
             Victims == {V \in SUBSET DOMAIN c :
                            /\ Cardinality(V) = n
                            /\ \A v \in V, w \in DOMAIN c \ V : c[v].age >= c[w].age}
         IN  {Restrict(c, DOMAIN c \ V) : V \in Victims}

-----------------------------------------------------------------------------
Resting == [step |-> "idle", key |-> CHOOSE k \in Keys : TRUE, age |-> 0, since |-> 0, view |-> <<>>]

Usable(k) == cache[k].forever \/ cache[k].age < NONTERMINAL_TTL

TooOld(k) == ~cache[k].forever /\ ~RateLimited /\ cache[k].since >= NONTERMINAL_TTL

\* What the properties need to know of an answer: whether it was older than the
\* TTL without the breaker as excuse.
Return(t, old) == aged' = [aged EXCEPT ![t] = old]

\* A fresh hit, or an old one while the breaker is open.
Hit(t, k) ==
    /\ poll[t].step = "idle" /\ k \in DOMAIN cache
    /\ Usable(k) \/ RateLimited
    /\ Return(t, TooOld(k))
    /\ UNCHANGED <<broker, cache, poll, cooldown>>

\* RateLimitCooldown is raised.
Refuse(t, k) ==
    /\ poll[t].step = "idle" /\ k \notin DOMAIN cache /\ RateLimited
    /\ Return(t, FALSE)
    /\ UNCHANGED <<broker, cache, poll, cooldown>>

Ask(t, k) ==
    /\ poll[t].step = "idle" /\ ~RateLimited
    /\ k \in DOMAIN cache => ~Usable(k)
    /\ poll' = [poll EXCEPT ![t] = [Resting EXCEPT !.step = "asking", !.key = k]]
    /\ UNCHANGED <<broker, cache, aged, cooldown>>

BrokerAnswers(t) ==
    /\ poll[t].step = "asking"
    /\ poll' = [poll EXCEPT ![t] = [@ EXCEPT !.step = "told", !.view = View(poll[t].key), !.since = 0]]
    /\ UNCHANGED <<broker, cache, aged, cooldown>>

\* The broker does not answer, or answers 429, which opens the breaker.
BrokerFails(t) ==
    /\ poll[t].step = "asking"
    /\ cooldown' \in {cooldown, RATE_LIMIT_COOLDOWN}
    /\ poll' = [poll EXCEPT ![t] = Resting]
    /\ Return(t, FALSE)
    /\ UNCHANGED <<broker, cache>>

Store(t) ==
    LET p == poll[t] IN
    /\ p.step = "told"
    /\ cache' \in Evictions(With(p.key, Stored(p)))
    /\ Return(t, FALSE)
    /\ poll' = [poll EXCEPT ![t] = Resting]
    /\ UNCHANGED <<broker, cooldown>>

\* note_rate_limit from a submission that was refused.
SubmitLimited ==
    /\ cooldown' = RATE_LIMIT_COOLDOWN
    /\ UNCHANGED <<broker, cache, poll, aged>>

-----------------------------------------------------------------------------
Tick ==
    /\ cache' = [k \in DOMAIN cache |-> [cache[k] EXCEPT !.age = Older(@), !.since = Older(@)]]
    /\ poll' = [t \in Threads |->
                  IF poll[t].step = "idle" THEN poll[t]
                  ELSE [poll[t] EXCEPT !.age = Older(@), !.since = IF poll[t].step = "told" THEN Older(@) ELSE @]]
    /\ cooldown' = Max({0, cooldown - 1})
    /\ UNCHANGED <<broker, aged>>

\* A part is filled, canceled, expired or rejected, or done for the day, from
\* which it may come back.
PartMoves(o) ==
    /\ \E part \in PartsAt(o), s \in Standings :
          /\ status[o][part] \notin {"final", s}
          /\ status' = [status EXCEPT ![o][part] = s]
    /\ UNCHANGED <<linked, cache, poll, aged, cooldown>>

\* The children of a bracket appear under it, even after the parent filled.
Link(o) ==
    /\ o \in Bracket \ linked
    /\ linked' = linked \cup {o}
    /\ UNCHANGED <<status, cache, poll, aged, cooldown>>

Init ==
    /\ status = [o \in Orders |-> [part \in Parts |-> "live"]]
    /\ linked = {}
    /\ cache = <<>>
    /\ poll = [t \in Threads |-> Resting]
    /\ aged = [t \in Threads |-> FALSE]
    /\ cooldown = 0

Lookup(t, k) == Hit(t, k) \/ Refuse(t, k) \/ Ask(t, k)

Next ==
    \/ \E t \in Threads : \/ \E k \in Keys : Lookup(t, k)
                          \/ BrokerAnswers(t) \/ BrokerFails(t) \/ Store(t)
    \/ \E o \in Orders : PartMoves(o) \/ Link(o)
    \/ SubmitLimited \/ Tick

Spec == Init /\ [][Next]_vars

-----------------------------------------------------------------------------
Ticks == 0..NONTERMINAL_TTL

\* Every part of the state has its shape, and the cache its bound.
TypeOK ==
    /\ status \in [Orders -> [Parts -> Standings]] /\ linked \subseteq Bracket
    /\ DOMAIN cache \subseteq Keys /\ Cardinality(DOMAIN cache) <= CACHE_MAX_ENTRIES
    /\ \A k \in DOMAIN cache : cache[k] \in [view : Views, age : Ticks, since : Ticks, forever : BOOLEAN]
    /\ poll \in [Threads -> [step : {"idle", "asking", "told"}, key : Keys, age : Ticks,
                             since : Ticks, view : Views]]
    /\ aged \in [Threads -> BOOLEAN]
    /\ cooldown \in 0..RATE_LIMIT_COOLDOWN

\* What is kept for ever is over at the broker for good: a parent that is done is
\* not, while a leg it came with may still fill.  Two parts escape: a leg that was
\* linked after the answer, and a part that was done for the day.
ForeverIsFinal ==
    \A k \in DOMAIN cache : cache[k].forever =>
        \A part \in Seen(k) : \/ status[k[1]][part] = "final"
                               \/ part \notin DOMAIN cache[k].view
                               \/ cache[k].view[part] = "day"

\* Whoever is served, with the breaker closed, an entry that is not kept for ever
\* learns something that was true less than the TTL ago, however long the lookup
\* that brought it was on its way.
HitsAreFresh == \A t \in Threads : ~aged[t]
=============================================================================

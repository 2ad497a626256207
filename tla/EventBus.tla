------------------------------ MODULE EventBus ------------------------------
(***************************************************************************)
(* The in-process event bus (event_bus.py, event_handlers.py) under the    *)
(* event tick of every profile's cycle (multi_scheduler._task_event_tick). *)
(*                                                                         *)
(* The events table is the profile's own, the subscription registry is the *)
(* process's.  A tick clears the registry, subscribes the default          *)
(* handlers one type at a time, lets the detectors emit, and dispatches    *)
(* what is pending; the ticks of a cycle run on a thread each, with no     *)
(* lock around the registry.  A cycle starts when every thread of the last *)
(* one has ended.                                                          *)
(***************************************************************************)
EXTENDS Integers, Sequences, FiniteSets, FiniteSetsExt, Functions

CONSTANTS Profiles, Events,
          Reactive,     \* the filings and price shocks: the ensemble reacts
          LIMIT,        \* rows one dispatch takes
          MaxFaults     \* crashes and failed updates in a behaviour

BusAssumption ==
    /\ IsFiniteSet(Profiles) /\ Profiles # {}
    /\ Reactive \subseteq Events
    /\ LIMIT \in Nat \ {0} /\ MaxFaults \in Nat

VARIABLES
    subscriptions,  \* type -> the handlers subscribed to it, in order
    table,          \* profile -> its events in the order they were detected
    handled,        \* profile -> its events whose handled_at is set
    runs,           \* profile -> event -> handler -> how often it was called
    tick,           \* profile -> where its event tick stands
    faults          \* crashes and failed updates so far

vars == <<subscriptions, table, handled, runs, tick, faults>>

-----------------------------------------------------------------------------
Types == {"reactive", "plain"}
TypeOf(e) == IF e \in Reactive THEN "reactive" ELSE "plain"

Handlers == {"log_activity", "fire_ensemble"}
Wanted(e) == IF e \in Reactive THEN Handlers ELSE {"log_activity"}

\* The subscriptions register_default_handlers makes, in its order.
Wiring == << <<"log_activity", "reactive">>, <<"log_activity", "plain">>,
             <<"fire_ensemble", "reactive">> >>

NoSubscriptions == [t \in Types |-> <<>>]

(* A tick: at is the stage, n the next subscription to make, rows the ids    *)
(* (places in the table) dispatch_pending read and has not marked yet, todo  *)
(* the handlers left of the oldest of them.                                  *)
At(s, n, rows, todo) == [at |-> s, n |-> n, rows |-> rows, todo |-> todo]
Idle == At("idle", 1, {}, <<>>)
Done == At("done", 1, {}, <<>>)

Pending(p) == {i \in DOMAIN table[p] : table[p][i] \notin handled[p]}

\* PendingRows that limits before it looks at handled_at.
PendingOfFirst(p) == {i \in Pending(p) : i <= LIMIT}

\* The unhandled events, oldest first, at most LIMIT of them.
PendingRows(p) == {i \in Pending(p) : Cardinality({j \in Pending(p) : j < i}) < LIMIT}

\* The event a dispatch is at.
AtHand(p) == table[p][Min(tick[p].rows)]

Init ==
    /\ subscriptions = NoSubscriptions
    /\ table = [p \in Profiles |-> <<>>]
    /\ handled = [p \in Profiles |-> {}]
    /\ runs = [p \in Profiles |-> [e \in Events |-> [h \in Handlers |-> 0]]]
    /\ tick = [p \in Profiles |-> Idle]
    /\ faults = 0

-----------------------------------------------------------------------------
\* ClearSubscriptions that is left out.
KeepSubscriptions(p) ==
    /\ tick[p].at = "idle"
    /\ tick' = [tick EXCEPT ![p] = At("wire", 1, {}, <<>>)]
    /\ UNCHANGED <<subscriptions, table, handled, runs, faults>>

\* The tick begins: register_default_handlers wipes the registry.
ClearSubscriptions(p) ==
    /\ tick[p].at = "idle"
    /\ subscriptions' = NoSubscriptions
    /\ tick' = [tick EXCEPT ![p] = At("wire", 1, {}, <<>>)]
    /\ UNCHANGED <<table, handled, runs, faults>>

\* A profile with no scan due has no tick in this cycle.
NotDue(p) ==
    /\ tick[p].at = "idle"
    /\ tick' = [tick EXCEPT ![p] = Done]
    /\ UNCHANGED <<subscriptions, table, handled, runs, faults>>

Subscribe(p) ==
    /\ tick[p].at = "wire"
    /\ LET w == Wiring[tick[p].n] IN
         subscriptions' = [subscriptions EXCEPT ![w[2]] = Append(@, w[1])]
    /\ tick' = [tick EXCEPT ![p] =
                  IF tick[p].n = Len(Wiring) THEN At("detect", 1, {}, <<>>)
                                             ELSE At("wire", @.n + 1, {}, <<>>)]
    /\ UNCHANGED <<table, handled, runs, faults>>

\* A detector sees a trigger; dedup_key is UNIQUE, so it emits once.
Emit(p, e) ==
    /\ tick[p].at = "detect"
    /\ e \notin Range(table[p])
    /\ table' = [table EXCEPT ![p] = Append(@, e)]
    /\ UNCHANGED <<subscriptions, handled, runs, tick, faults>>

Select(p) ==
    /\ tick[p].at = "detect"
    /\ tick' = [tick EXCEPT ![p] = IF PendingRows(p) = {} THEN Done
                                   ELSE At("row", 1, PendingRows(p), <<>>)]
    /\ UNCHANGED <<subscriptions, table, handled, runs, faults>>

\* handlers_for: a copy of the list as it stands now.
LookUp(p) ==
    /\ tick[p].at = "row"
    /\ tick' = [tick EXCEPT ![p].at = "handlers",
                            ![p].todo = subscriptions[TypeOf(AtHand(p))]]
    /\ UNCHANGED <<subscriptions, table, handled, runs, faults>>

\* One handler is called; what it raises is caught and counted.
Handle(p) ==
    /\ tick[p].at = "handlers"
    /\ tick[p].todo # <<>>
    /\ runs' = [runs EXCEPT ![p][AtHand(p)][Head(tick[p].todo)] = @ + 1]
    /\ tick' = [tick EXCEPT ![p].todo = Tail(@)]
    /\ UNCHANGED <<subscriptions, table, handled, faults>>

\* handled_at is set and committed, whatever the handlers answered.
Mark(p) ==
    /\ tick[p].at = "handlers"
    /\ tick[p].todo = <<>>
    /\ handled' = [handled EXCEPT ![p] = @ \cup {AtHand(p)}]
    /\ tick' = [tick EXCEPT ![p] = LET left == @.rows \ {Min(@.rows)} IN
                                   IF left = {} THEN Done ELSE At("row", 1, left, <<>>)]
    /\ UNCHANGED <<subscriptions, table, runs, faults>>

\* The UPDATE raises: the tick ends, the row stays pending.
MarkFails(p) ==
    /\ faults < MaxFaults
    /\ tick[p].at = "handlers"
    /\ tick[p].todo = <<>>
    /\ tick' = [tick EXCEPT ![p] = Done]
    /\ faults' = faults + 1
    /\ UNCHANGED <<subscriptions, table, handled, runs>>

\* The process dies and is restarted: the tables are all that is left.
Crash ==
    /\ faults < MaxFaults
    /\ subscriptions' = NoSubscriptions
    /\ tick' = [p \in Profiles |-> Idle]
    /\ faults' = faults + 1
    /\ UNCHANGED <<table, handled, runs>>

NextCycle ==
    /\ \A p \in Profiles : tick[p] = Done
    /\ tick' = [p \in Profiles |-> Idle]
    /\ UNCHANGED <<subscriptions, table, handled, runs, faults>>

-----------------------------------------------------------------------------
Dispatch(p) == Subscribe(p) \/ Select(p) \/ LookUp(p) \/ Handle(p) \/ Mark(p)

Next ==
    \/ \E p \in Profiles :
         \/ ClearSubscriptions(p) \/ NotDue(p)
         \/ Subscribe(p) \/ Select(p) \/ LookUp(p) \/ Handle(p) \/ Mark(p)
         \/ MarkFails(p)
         \/ \E e \in Events : Emit(p, e)
    \/ Crash
    \/ NextCycle

(* Every thread goes on, the loop starts the next cycle, and a profile is    *)
(* due again and again.                                                      *)
Fairness ==
    /\ \A p \in Profiles : WF_vars(Dispatch(p)) /\ SF_vars(ClearSubscriptions(p))
                           /\ WF_vars(NotDue(p) \/ ClearSubscriptions(p))
    /\ WF_vars(NextCycle)

Spec == Init /\ [][Next]_vars
FairSpec == Spec /\ Fairness

-----------------------------------------------------------------------------
(* The table holds an event once, a dispatch holds at most LIMIT rows, and   *)
(* what is handled was emitted.                                              *)
TypeOK ==
    /\ subscriptions \in [Types -> Seq(Handlers)]
    /\ table \in [Profiles -> Seq(Events)]
    /\ handled \in [Profiles -> SUBSET Events]
    /\ runs \in [Profiles -> [Events -> [Handlers -> Nat]]]
    /\ tick \in [Profiles -> [at : {"idle", "wire", "detect", "row", "handlers", "done"},
                              n : DOMAIN Wiring, rows : SUBSET Nat, todo : Seq(Handlers)]]
    /\ \A p \in Profiles :
         /\ IsInjective(table[p]) /\ handled[p] \subseteq Range(table[p])
         /\ tick[p].rows \subseteq DOMAIN table[p] /\ Cardinality(tick[p].rows) <= LIMIT
         /\ (tick[p].at \in {"row", "handlers"}) = (tick[p].rows # {})
    /\ faults \in 0..MaxFaults

(* Events are handled in the order they were detected: no event is marked    *)
(* while an older one of its profile is pending, whatever was interrupted    *)
(* (dispatch_pending, ORDER BY detected_at ASC).                             *)
HandledInOrder ==
    \A p \in Profiles : \A i, j \in DOMAIN table[p] :
        i < j /\ table[p][j] \in handled[p] => table[p][i] \in handled[p]

(* However the threads' registrations mix, a handler is called at most once  *)
(* per profile for each time an event is dispatched, and an event is         *)
(* dispatched again only when its mark was lost (register_default_handlers,  *)
(* dispatch_pending).                                                        *)
CallsBounded ==
    \A p \in Profiles : \A e \in Events : \A h \in Handlers :
        runs[p][e][h] <= Cardinality(Profiles) * (1 + faults)

(* With no other thread at the registry, every event the detectors put into  *)
(* the table is marked handled at last, and every handler wired to its type  *)
(* was called for it (dispatch_pending, LIMIT rows at a time).               *)
EventsAreHandled ==
    \A p \in Profiles : \A e \in Events :
        e \in Range(table[p])
            ~> (e \in handled[p] /\ \A h \in Wanted(e) : runs[p][e][h] > 0)
=============================================================================

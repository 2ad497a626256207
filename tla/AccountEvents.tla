--------------------------- MODULE AccountEvents ---------------------------
(***************************************************************************)
(* An event of the whole account, a dividend (DIV) or a cash merger (MA),  *)
(* split across the books that share the account (activities_capture.py).  *)
(* The broker reports the net of all books; every hour each profile's      *)
(* capture works the split out of all the books as they stand, or takes it *)
(* from the memo of the process, and books its own share if the shares add *)
(* up to what the broker says.                                             *)
(*                                                                         *)
(* A book may be wrong when the event comes, a row lost on an entry or an  *)
(* exit, until the reconciler puts it right.                               *)
(***************************************************************************)
EXTENDS Integers, FiniteSets, Functions

CONSTANTS Books,
          Window,       \* the days a capture looks back
          MaxDay,
          MaxOdd,       \* books wrong at first, and profiles switched on or off
          FaultKinds, MaxFaults

EventsAssumption ==
    /\ IsFiniteSet(Books)
    /\ {Window, MaxDay, MaxOdd, MaxFaults} \subseteq Nat
    /\ FaultKinds \subseteq {"skip", "lookup", "blind", "flip"}

VARIABLES
    kind,       \* DIV or MA
    own,        \* book -> shares it held at the broker's entitlement instant
    rows,       \* book -> what its rows say it held
    entry,      \* book -> its entry rows still say open
    booked,     \* book -> shares it has booked the event for
    alerted,    \* the books with an audit alert for the event
    active,     \* the profiles that are switched on
    memo,       \* the split the process remembers, or NoSplit
    posted,     \* the day the event was posted, or Never
    day, at,
    odd,        \* books wrong at first, and switches, so far
    faults

books == <<rows, entry, booked, alerted>>
vars == <<kind, own, books, active, memo, posted, day, at, odd, faults>>

Never == -1
NoSplit == <<>>

-----------------------------------------------------------------------------
AccountQty == SumFunction(own)

\* get_activities: the event was posted within the window.
Seen == posted # Never /\ day - posted <= Window

\* _sibling_db_paths: the active books of the account, and the own one.
Siblings(b) == active \cup {b}

\* What every sibling's book says it held (_own_stock_qty_at).
Shares(b) == [s \in Siblings(b) |-> rows[s]]

\* AddsUp with room for one share.
AddsUpNearly(split) == SumFunction(split) - AccountQty \in -1..1

\* The shares must add up to what the broker reports.
AddsUp(split) == SumFunction(split) = AccountQty

\* _attribute_account_event: the split that b's capture finds, if any.
Splits(b) == IF memo # NoSplit THEN {memo} ELSE {s \in {Shares(b)} : AddsUp(s)}

\* The own share; a book the split does not name has none.
ShareOf(split, b) == IF b \in DOMAIN split THEN split[b] ELSE 0

\* The live position: a booked merger has taken it.
LiveQty(b) == IF kind = "MA" /\ booked[b] # 0 THEN 0 ELSE rows[b]

\* What may fail in one capture.
Fault(f) == \/ f = "none" /\ UNCHANGED faults
            \/ f \in FaultKinds /\ faults < MaxFaults /\ faults' = faults + 1

\* A book is right, or it misses its entry, or an exit.
Wrong(b) == rows[b] # own[b]

Init ==
    /\ kind \in {"DIV", "MA"}
    /\ own \in [Books -> {-1, 0, 1}]
    /\ rows \in [Books -> {-1, 0, 1}]
    /\ odd = Cardinality({b \in Books : Wrong(b)}) /\ odd <= MaxOdd
    /\ \A b \in Books : Wrong(b) => 0 \in {own[b], rows[b]}
    /\ entry = [b \in Books |-> rows[b] # 0]
    /\ booked = [b \in Books |-> 0]
    /\ alerted = {} /\ active = Books
    /\ memo = NoSplit /\ posted = Never
    /\ day = 0 /\ at = [b \in Books |-> "done"]
    /\ faults = 0

-----------------------------------------------------------------------------
Post ==
    /\ posted = Never /\ AccountQty # 0
    /\ posted' = day
    /\ UNCHANGED <<kind, own, books, active, memo, day, at, odd, faults>>

\* The reconciler rebuilds the row that is missing.
Repair(b) ==
    /\ Wrong(b) /\ booked[b] = 0
    /\ rows' = [rows EXCEPT ![b] = own[b]]
    /\ entry' = [entry EXCEPT ![b] = own[b] # 0]
    /\ UNCHANGED <<kind, own, booked, alerted, active, memo, posted, day, at, odd, faults>>

\* Refuse that only writes the log.
RefuseQuietly(b) == UNCHANGED <<rows, entry, booked, alerted>>

\* _refuse, _alert_once.
Refuse(b) == alerted' = alerted \cup {b} /\ UNCHANGED <<rows, entry, booked>>

(* The share is written; a merger is refused when the live book has moved,   *)
(* and also closes the entry rows, a second write that may fail ("flip").    *)
Book(b, share, fault) ==
    IF kind = "MA" /\ LiveQty(b) # share THEN Refuse(b)
    ELSE /\ booked' = [booked EXCEPT ![b] = @ + share]
         /\ entry' = [entry EXCEPT ![b] = @ /\ (kind = "DIV" \/ fault = "flip")]
         /\ UNCHANGED <<rows, alerted>>

(* One profile's capture of the event (_write_dividend, _write_cash_merger): *)
(* once a book, unless the question whether it is there fails ("blind"); the *)
(* split is found, remembered, and booked; or refused with an alert when the *)
(* books do not add up or one cannot be read ("lookup").  A fetch or a write *)
(* that fails leaves it to the next pass ("skip").                           *)
Capture(b) ==
    /\ at[b] = "todo" /\ b \in active
    /\ at' = [at EXCEPT ![b] = "done"]
    /\ \E fault \in FaultKinds \cup {"none"} :
         /\ Fault(fault)
         /\ \/ /\ ~Seen \/ (booked[b] # 0 /\ fault # "blind") \/ fault = "skip"
               /\ UNCHANGED <<books, memo>>
            \/ /\ Seen /\ (booked[b] = 0 \/ fault = "blind") /\ fault # "skip"
               /\ IF Splits(b) = {} \/ (fault = "lookup" /\ memo = NoSplit)
                  THEN Refuse(b) /\ UNCHANGED memo
                  ELSE \E split \in Splits(b) :
                         /\ memo' = split
                         /\ IF ShareOf(split, b) = 0 THEN UNCHANGED books
                            ELSE Book(b, ShareOf(split, b), fault)
    /\ UNCHANGED <<kind, own, active, posted, day, odd>>

\* The memo is an hour old, or the process has been restarted.
Forget ==
    /\ memo # NoSplit
    /\ memo' = NoSplit
    /\ UNCHANGED <<kind, own, books, active, posted, day, at, odd, faults>>

\* The operator switches a profile off or on.
Switch(b) ==
    /\ odd < MaxOdd
    /\ odd' = odd + 1
    /\ active' = IF b \in active THEN active \ {b} ELSE active \cup {b}
    /\ UNCHANGED <<kind, own, books, memo, posted, day, at, faults>>

PassIsOver == \A b \in active : at[b] = "done"

NewPass ==
    /\ PassIsOver
    /\ at' = [b \in Books |-> "todo"]
    /\ UNCHANGED <<kind, own, books, active, memo, posted, day, odd, faults>>

NewDay ==
    /\ PassIsOver
    /\ day' = IF day < MaxDay THEN day + 1 ELSE day
    /\ memo' = NoSplit
    /\ at' = [b \in Books |-> "todo"]
    /\ UNCHANGED <<kind, own, books, active, posted, odd, faults>>

Next ==
    \/ Post \/ Forget \/ NewPass \/ NewDay
    \/ \E b \in Books : Repair(b) \/ Capture(b) \/ Switch(b)

\* The passes are run and the days go by.
Fairness == (\A b \in Books : WF_vars(Capture(b))) /\ SF_vars(NewDay)

Spec == Init /\ [][Next]_vars
FairSpec == Spec /\ Fairness

-----------------------------------------------------------------------------
TypeOK ==
    /\ kind \in {"DIV", "MA"} /\ active \subseteq Books /\ alerted \subseteq Books
    /\ own \in [Books -> {-1, 0, 1}] /\ rows \in [Books -> {-1, 0, 1}]
    /\ memo # NoSplit => SumFunction(memo) = AccountQty
    /\ at \in [Books -> {"todo", "done"}]

(* A book has booked an account's event for what it held itself, or not at   *)
(* all, though another book may be wrong while the split is worked out       *)
(* (_attribute_account_event fails closed).                                  *)
SplitIsTrue == \A b \in Books : booked[b] \in {0, own[b]}

(* An event is booked by every book that holds of it, or that book's         *)
(* operator hears of it (_write_dividend, _write_cash_merger, _alert_once).  *)
BookedOrAlerted ==
    \A b \in Books : posted # Never /\ own[b] # 0
                     ~> booked[b] # 0 \/ b \in alerted \/ b \notin active
=============================================================================

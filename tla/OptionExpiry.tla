---------------------------- MODULE OptionExpiry ----------------------------
(***************************************************************************)
(* The end of an option contract in the books of one shared account: the   *)
(* hourly capture of the broker's activities (the option writers of        *)
(* activities_capture.py) and the sweep of expired rows                    *)
(* (options_lifecycle.sweep_expired_options), two writers of one outcome   *)
(* that never ask each other.                                              *)
(*                                                                         *)
(* One contract, one unit of it a book.  The broker knows the net of the   *)
(* account only; it posts what became of it (OPEXP, OPASN, OPEXC) when it  *)
(* likes, and the cash of an assignment or exercise as a row of its own,   *)
(* the same day.                                                           *)
(***************************************************************************)
EXTENDS Integers, FiniteSets, Functions

CONSTANTS Books,        \* the profiles' journals on the account
          Accepted,     \* the activity types the broker's API takes
          Grace,        \* ASSIGNMENT_CONFIRM_GRACE_DAYS
          Window,       \* the days a capture looks back
          MaxDay,       \* days after the expiry
          FaultKinds, MaxFaults

ExpiryAssumption ==
    /\ IsFiniteSet(Books)
    /\ {Grace, Window, MaxDay, MaxFaults} \subseteq Nat
    /\ FaultKinds \subseteq {"skip", "flip", "shares"}

VARIABLES
    held,       \* book -> contracts when it expired: -1 (short), 0 or 1
    traded,     \* the books that held the contract and closed it earlier
    leg,        \* book -> its row: none, open, closed or needs_review
    removal,    \* the books that have the row of the broker's event
    cash,       \* book -> how often it has the settlement
    shares,     \* the books that have the equity leg
    premium,    \* book -> how often the leg's premium was realized
    outcome,    \* what the broker did with the account's contracts
    close,      \* where the last bar puts the option: itm or otm
    gone,       \* the contract has left the account
    posted,     \* activity -> the day it was posted, or Never
    day,        \* days since the expiry
    pass,       \* cycle, or night: the housekeeping while the market is closed
    at,         \* book -> its next task of the pass
    faults

books == <<leg, removal, cash, shares, premium>>
broker == <<held, traded, outcome, close, gone, posted>>
vars == <<books, broker, day, pass, at, faults>>

Never == -1
Activities == {"event", "settlement"}

-----------------------------------------------------------------------------
Net == SumFunction(held)

Outcomes == CASE Net < 0 -> {"OPEXP", "OPASN"}
              [] Net > 0 -> {"OPEXP", "OPEXC"}
              [] OTHER -> {"none"}

\* get_activities: what was posted within the window.
Seen(a) == posted[a] # Never /\ day - posted[a] <= Window

\* LiveNet that counts closed rows too.
AnyNet(b) == IF leg[b] = "none" THEN 0 ELSE held[b]

\* _own_occ_net: live rows only.
LiveNet(b) == IF leg[b] = "open" THEN held[b] ELSE 0

\* OwnsRows that asks for a live row.
OwnsLive(b) == leg[b] = "open"

\* The own-book gate of a settlement: any row of the contract that is not dead.
OwnsRows(b) == leg[b] # "none" \/ b \in traded \/ b \in removal

\* _EXPIRY_ACTIVITY_TYPES of the sweep, one name of which the API rejects.
SweepTypes == {"OPEXP", "OPASN", "OPXRC"}

(* _fetch_expiry_activities: no answer at all unless every type is answered. *)
Feed == IF SweepTypes \subseteq Accepted /\ posted["event"] # Never
        THEN {outcome} \cap SweepTypes ELSE {}

\* _journal_expiry_activities: what the own journal has captured.
Belt(b) == IF b \in removal THEN {outcome} \cap {"OPEXP", "OPASN", "OPXRC"} ELSE {}

\* find_expired_open_options; what the last bar and the positions of the account say
\* of the contract, when they can be had.
Expired(b) == leg[b] = "open" /\ day > 0
Closes == {close, "unknown"}
StillHolds == {~gone, FALSE}

\* What _resolve_expired_option makes of a row.
MovesShares(b, acts) == \/ held[b] < 0 /\ "OPASN" \in acts
                        \/ held[b] > 0 /\ "OPXRC" \in acts
Verdict(b, acts, estimate, holds) ==
    CASE MovesShares(b, acts) -> "shares"
      [] ~MovesShares(b, acts)
         /\ ("OPEXP" \in acts \/ (estimate = "otm" /\ ~holds)) -> "worthless"
      [] OTHER -> IF day <= Grace THEN "deferred" ELSE "needs_review"

Fault(kind) ==
    /\ kind \in FaultKinds /\ faults < MaxFaults
    /\ faults' = faults + 1
NoFault == UNCHANGED faults

Init ==
    /\ held \in [Books -> {-1, 0, 1}]
    /\ traded \in SUBSET {b \in Books : held[b] = 0}
    /\ leg = [b \in Books |-> IF held[b] = 0 THEN "none" ELSE "open"]
    /\ removal = {} /\ shares = {}
    /\ cash = [b \in Books |-> 0] /\ premium = [b \in Books |-> 0]
    /\ outcome \in Outcomes /\ close \in {"itm", "otm"}
    /\ gone = (Net = 0)
    /\ posted = [a \in Activities |-> Never]
    /\ day = 0 /\ pass = "night"
    /\ at = [b \in Books |-> "done"]
    /\ faults = 0

-----------------------------------------------------------------------------
\* The broker works through the expiry, and posts.
Process ==
    /\ ~gone
    /\ gone' = TRUE
    /\ UNCHANGED <<books, held, traded, outcome, close, posted, day, pass, at, faults>>

Post(a) ==
    /\ gone /\ Net # 0 /\ posted[a] = Never
    /\ a = "settlement" => outcome # "OPEXP"
    /\ posted' = [posted EXCEPT ![a] = day]
    /\ UNCHANGED <<books, held, traded, outcome, close, gone, day, pass, at, faults>>

(* _write_option_expiry_or_exercise, for the typed and the MISC row of the   *)
(* event alike: once, and for a live leg; the row is written with the        *)
(* premium, then the leg's own row is closed.  When that second write fails  *)
(* ("flip") the row stays open.  A fetch, a read or the first write that     *)
(* fails leaves it to the next pass ("skip").                                *)
BookRemoval(b) ==
    /\ at[b] = "removal"
    /\ at' = [at EXCEPT ![b] = "settlement"]
    /\ IF Seen("event") /\ b \notin removal /\ LiveNet(b) # 0
       THEN \/ /\ removal' = removal \cup {b}
               /\ premium' = [premium EXCEPT ![b] = @ + 1]
               /\ \/ leg' = [leg EXCEPT ![b] = "closed"] /\ NoFault
                  \/ Fault("flip") /\ UNCHANGED leg
            \/ Fault("skip") /\ UNCHANGED <<removal, premium, leg>>
       ELSE NoFault /\ UNCHANGED <<removal, premium, leg>>
    /\ UNCHANGED <<cash, shares, broker, day, pass>>

(* _write_option_settlement: the whole amount of the row, once a book, when  *)
(* the event it is grouped with is in the same batch and the book has rows   *)
(* of the contract.                                                          *)
BookSettlement(b) ==
    /\ at[b] = "settlement"
    /\ at' = [at EXCEPT ![b] = IF pass = "cycle" THEN "sweep" ELSE "done"]
    /\ IF Seen("settlement") /\ Seen("event") /\ cash[b] = 0 /\ OwnsRows(b)
       THEN \/ cash' = [cash EXCEPT ![b] = @ + 1] /\ NoFault
            \/ Fault("skip") /\ UNCHANGED cash
       ELSE NoFault /\ UNCHANGED cash
    /\ UNCHANGED <<leg, removal, shares, premium, broker, day, pass>>

(* sweep_expired_options on one row: the verdict is written, then the equity *)
(* leg, once a row, unless the process dies in between ("shares").  Bars and *)
(* positions may be out of reach, and so may the feed.                       *)
Sweep(b) ==
    /\ at[b] = "sweep"
    /\ at' = [at EXCEPT ![b] = "done"]
    /\ \/ /\ Expired(b)
          /\ \E fed \in {{}, Feed}, estimate \in Closes, holds \in StillHolds :
             LET verdict == Verdict(b, fed \cup Belt(b), estimate, holds) IN
             \/ /\ verdict \in {"shares", "worthless"}
                /\ leg' = [leg EXCEPT ![b] = "closed"]
                /\ premium' = [premium EXCEPT ![b] = @ + 1]
                /\ IF verdict = "shares"
                   THEN \/ shares' = shares \cup {b} /\ NoFault
                        \/ Fault("shares") /\ UNCHANGED shares
                   ELSE NoFault /\ UNCHANGED shares
             \/ /\ verdict = "needs_review"
                /\ leg' = [leg EXCEPT ![b] = "needs_review"]
                /\ NoFault /\ UNCHANGED <<premium, shares>>
             \/ /\ verdict = "deferred"
                /\ NoFault /\ UNCHANGED <<leg, premium, shares>>
       \/ /\ ~Expired(b)
          /\ NoFault /\ UNCHANGED <<leg, premium, shares>>
       \/ Fault("skip") /\ UNCHANGED <<leg, premium, shares>>
    /\ UNCHANGED <<removal, cash, broker, day, pass>>

\* The hourly housekeeping, or the next cycle, runs every profile again.
NewPass(kind) ==
    /\ \A b \in Books : at[b] = "done"
    /\ at' = [b \in Books |-> "removal"]
    /\ pass' = kind
    /\ UNCHANGED <<books, broker, day, faults>>

\* The day turns; the event and its settlement are posted on one day.
NewDay ==
    /\ \A b \in Books : at[b] = "done"
    /\ Net # 0 /\ outcome # "OPEXP" => (posted["event"] = Never <=> posted["settlement"] = Never)
    /\ day' = IF day < MaxDay THEN day + 1 ELSE day
    /\ at' = [b \in Books |-> "removal"]
    /\ pass' = "cycle"
    /\ UNCHANGED <<books, broker, faults>>

Next ==
    \/ Process
    \/ \E a \in Activities : Post(a)
    \/ \E b \in Books : BookRemoval(b) \/ BookSettlement(b) \/ Sweep(b)
    \/ \E kind \in {"cycle", "night"} : NewPass(kind)
    \/ NewDay

Work(b) == BookRemoval(b) \/ BookSettlement(b) \/ Sweep(b)

(* The passes are run, and the days go by (other passes may come in between, *)
(* and half of a posting).                                                   *)
Fairness == (\A b \in Books : WF_vars(Work(b))) /\ SF_vars(NewDay)
            /\ WF_vars(Post("event")) /\ WF_vars(Post("settlement"))

Spec == Init /\ [][Next]_vars
FairSpec == Spec /\ Fairness

-----------------------------------------------------------------------------
(* A leg that the broker's event has closed is closed, and only a leg that   *)
(* was held has an outcome in its book.                                      *)
TypeOK ==
    /\ leg \in [Books -> {"none", "open", "closed", "needs_review"}]
    /\ \A b \in Books : leg[b] = "none" <=> held[b] = 0
    /\ removal \cup shares \subseteq {b \in Books : held[b] # 0}
    /\ cash \in [Books -> 0..1] /\ premium \in [Books -> 0..2]
    /\ at \in [Books -> {"removal", "settlement", "sweep", "done"}]
    /\ faults \in 0..MaxFaults

(* The premium of a leg is realized once, by the capture or by the sweep,    *)
(* whichever sees the end first (the pnl of both writers).                   *)
PremiumOnce == \A b \in Books : premium[b] <= 1

(* An assignment or exercise reaches a book as the broker's cash or as a     *)
(* movement of shares, never both (_write_option_settlement,                 *)
(* _book_equity_leg).                                                        *)
SettledOneWay == \A b \in shares : cash[b] = 0

(* A settlement of the account belongs to one book.                          *)
SettlementBookedOnce == SumFunction(cash) <= 1

(* Every expired leg ends closed or in front of the operator                 *)
(* (sweep_expired_options), and the cash of an assignment arrives in a book. *)
ExpiredLegsEnd == \A b \in Books : leg[b] = "open" ~> leg[b] # "open"
CashArrives == posted["settlement"] # Never ~> \E b \in Books : cash[b] > 0
=============================================================================

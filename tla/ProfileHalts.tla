----------------------------- MODULE ProfileHalts -----------------------------
(***************************************************************************)
(* The halt of one profile's new entries (halt_helpers.py): a flag and one  *)
(* reason text on the profile's row of the master database.  Three writers  *)
(* set it: the reconciler when a journal would need synthesized rows, the   *)
(* funding guard when the broker account's money is gone, and the paths     *)
(* that sent an order they could not journal (a breach).  The first two     *)
(* clear it again, and know their own halt by a prefix of the reason; the   *)
(* operator clears anything.  There is one reason only, so a halt that is   *)
(* set for a second cause forgets the first.                                *)
(*                                                                          *)
(* The funding guard reads the equity of the account, shared by several     *)
(* profiles, through a cache with a time to live.                           *)
(***************************************************************************)
EXTENDS Integers

CONSTANTS
  Profiles,    \* the profiles that trade through one account
  Ttl,         \* _CACHE_TTL_SECONDS of the equity cache, in ticks
  Unreachable  \* may the broker fail to answer?

ProfileHaltsAssumption == Ttl \in Nat \ {0} /\ Unreachable \in BOOLEAN

VARIABLES
  halt,      \* halt[p]: whose prefix halt_reason starts with, "none" if not halted
  diverged,  \* diverged[p]: reconciling would synthesize journal rows
  breached,  \* ghost, breached[p]: a breach the operator has not acknowledged
  funded,    \* the account has the money its profiles expect
  lost,      \* ghost: ticks since the funding vanished
  equity,    \* _equity_cache of the account: verdict and age
  stage      \* stage[p]: where the profile's scan is

vars == <<halt, diverged, breached, funded, lost, equity, stage>>

Cause == {"none", "funding", "synthesis", "breach"}
NoEquity == [known |-> FALSE, funded |-> TRUE, age |-> 0]

Init ==
  /\ halt = [p \in Profiles |-> "none"]
  /\ diverged = [p \in Profiles |-> FALSE]
  /\ breached = [p \in Profiles |-> FALSE]
  /\ funded = TRUE
  /\ lost = 0
  /\ equity = NoEquity
  /\ stage = [p \in Profiles |-> "idle"]

-----------------------------------------------------------------------------
(* halt_helpers.py                                                          *)

\* halt_profile overwrites the reason of a halt that is up.
Halted(p, cause) == [halt EXCEPT ![p] = cause]
\* Mutant: only the reconciler's halt is recognised by its prefix.
ClearedIfSynthesis(p, cause) ==
  IF halt[p] = cause /\ cause = "synthesis" THEN [halt EXCEPT ![p] = "none"] ELSE halt

\* is_halted, then clear_halt if the reason has the caller's prefix.
ClearedIf(p, cause) ==
  IF halt[p] = cause THEN [halt EXCEPT ![p] = "none"] ELSE halt

-----------------------------------------------------------------------------
(* The reconciler and the breaches.                                         *)

\* reconcile_with_ctx, to its end.  A pass that does not reach the broker changes
\* nothing here.
Reconcile(p) ==
  /\ stage[p] = "idle"
  /\ halt' = IF diverged[p] THEN Halted(p, "synthesis") ELSE ClearedIf(p, "synthesis")
  /\ UNCHANGED <<diverged, breached, funded, lost, equity, stage>>

\* An exit, or a leg of an option order, is live and could not be journaled.  The
\* journal is now behind the account.
Breach(p) ==
  /\ stage[p] \in {"idle", "pipeline"}
  /\ ~breached[p]
  /\ halt' = Halted(p, "breach")
  /\ breached' = [breached EXCEPT ![p] = TRUE]
  /\ diverged' \in {diverged, [diverged EXCEPT ![p] = TRUE]}
  /\ UNCHANGED <<funded, lost, equity, stage>>

\* The journal falls behind the account, or catches up with it.
BooksChange(p) ==
  /\ diverged' = [diverged EXCEPT ![p] = ~@]
  /\ UNCHANGED <<halt, breached, funded, lost, equity, stage>>

\* The operator clears the halt on the settings page.
OperatorClears(p) ==
  /\ halt[p] # "none"
  /\ halt' = [halt EXCEPT ![p] = "none"]
  /\ breached' = [breached EXCEPT ![p] = FALSE]
  /\ UNCHANGED <<diverged, funded, lost, equity, stage>>

-----------------------------------------------------------------------------
(* account_funding_guard.py                                                 *)

CacheFresh == equity.known /\ equity.age < Ttl

\* Mutant: an entry is renewed when it is served.
SlidingEquity ==
  IF CacheFresh THEN {[verdict |-> IF equity.funded THEN "funded" ELSE "short",
                       cache |-> [equity EXCEPT !.age = 0]]}
  ELSE {[verdict |-> IF funded THEN "funded" ELSE "short",
         cache |-> [known |-> TRUE, funded |-> funded, age |-> 0]]}

\* _broker_equity and funding_status: what a call may answer, with the cache it
\* leaves behind.  Nothing is cached when the broker does not answer.
FundingStatus ==
  IF CacheFresh
  THEN {[verdict |-> IF equity.funded THEN "funded" ELSE "short", cache |-> equity]}
  ELSE {[verdict |-> IF funded THEN "funded" ELSE "short",
         cache |-> [known |-> TRUE, funded |-> funded, age |-> 0]]}
       \cup (IF Unreachable THEN {[verdict |-> "unreachable", cache |-> equity]} ELSE {})

\* enforce_funding at the top of the scan: an unreachable broker counts as funded.
EnforceFunding(p) ==
  /\ stage[p] = "idle"
  /\ \E s \in FundingStatus :
       /\ equity' = s.cache
       /\ halt' = IF s.verdict = "short" THEN Halted(p, "funding") ELSE ClearedIf(p, "funding")
       /\ stage' = [stage EXCEPT ![p] = IF s.verdict = "short" THEN "idle" ELSE "gate"]
  /\ UNCHANGED <<diverged, breached, funded, lost>>

\* The halt gate before the trade pipeline.
Gate(p) ==
  /\ stage[p] = "gate"
  /\ stage' = [stage EXCEPT ![p] = IF halt[p] = "none" THEN "pipeline" ELSE "idle"]
  /\ UNCHANGED <<halt, diverged, breached, funded, lost, equity>>

PipelineEnds(p) ==
  /\ stage[p] = "pipeline"
  /\ stage' = [stage EXCEPT ![p] = "idle"]
  /\ UNCHANGED <<halt, diverged, breached, funded, lost, equity>>

-----------------------------------------------------------------------------
(* The account and the clock.                                               *)

FundingChanges ==
  /\ funded' = ~funded
  /\ lost' = 0
  /\ UNCHANGED <<halt, diverged, breached, equity, stage>>

\* A scan takes less than the time to live of the equity.
Tick ==
  /\ \A p \in Profiles : stage[p] # "gate"
  /\ lost' = IF funded \/ lost > Ttl THEN lost ELSE lost + 1
  /\ equity' = IF equity.age < Ttl THEN [equity EXCEPT !.age = @ + 1] ELSE equity
  /\ UNCHANGED <<halt, diverged, breached, funded, stage>>

Next ==
  \/ \E p \in Profiles : \/ Reconcile(p) \/ Breach(p) \/ BooksChange(p) \/ OperatorClears(p)
                         \/ EnforceFunding(p) \/ Gate(p) \/ PipelineEnds(p)
  \/ FundingChanges \/ Tick

\* Every profile is reconciled and scanned again and again, a scan ends, and time
\* passes.
Fairness ==
  /\ \A p \in Profiles : /\ SF_vars(Reconcile(p))
                         /\ SF_vars(EnforceFunding(p))
                         /\ WF_vars(Gate(p))
                         /\ WF_vars(PipelineEnds(p))
  /\ SF_vars(Tick)

Spec == Init /\ [][Next]_vars /\ Fairness

-----------------------------------------------------------------------------
(* Properties.                                                              *)

TypeOK ==
  /\ halt \in [Profiles -> Cause]
  /\ diverged \in [Profiles -> BOOLEAN]
  /\ breached \in [Profiles -> BOOLEAN]
  /\ funded \in BOOLEAN
  /\ lost \in 0..(Ttl + 1)
  /\ equity \in [known : BOOLEAN, funded : BOOLEAN, age : 0..Ttl]
  /\ stage \in [Profiles -> {"idle", "gate", "pipeline"}]

\* Missing funding is noticed within one time to live, however many profiles ask
\* the shared cache meanwhile: with a broker that answers, no scan gets past the
\* guard once the money has been gone that long.
MissingFundingIsNoticed ==
  [][\A p \in Profiles :
       stage[p] = "idle" /\ stage'[p] = "gate" => funded \/ lost < Ttl]_vars

\* A breach that is the profile's only trouble is ended by the operator alone:
\* neither a clean reconcile pass nor a funded scan takes it for its own.
BreachSticks ==
  [][\A p \in Profiles :
       halt[p] = "breach" /\ halt'[p] = "none" => breached[p] /\ ~breached'[p]]_vars

\* Once the account stays funded, no profile stays halted for funding.
FundingHaltEnds ==
  \A p \in Profiles : <>[]funded => <>[](halt[p] # "funding")

\* Once the journal agrees with the account for good, the reconciler's halt ends.
SynthesisHaltEnds ==
  \A p \in Profiles : <>[](~diverged[p]) => <>[](halt[p] # "synthesis")
==============================================================================

--------------------------- MODULE MCSpreadOrders ---------------------------
(* Setups for SpreadOrders: credit verticals and iron condors.             *)
EXTENDS SpreadOrders

Vertical == <<"sell", "buy">>
Condor == <<"buy", "sell", "sell", "buy">>

\* A credit vertical proposed twice, three failures of the kinds the code handles.
Failures == [legs |-> Vertical, faults |-> {"reject", "log", "read", "dies"},
             maxFaults |-> 3, maxAttempts |-> 2]
\* An iron condor proposed twice, one order of it refused.
Refusal == [legs |-> Condor, faults |-> {"reject"}, maxFaults |-> 1, maxAttempts |-> 2]
\* A credit vertical proposed once, three failures of any kind.
Anything == [legs |-> Vertical, faults |-> Kinds, maxFaults |-> 3, maxAttempts |-> 1]
\* A credit vertical proposed once, one order of it refused.
OneRefused == [legs |-> Vertical, faults |-> {"reject"}, maxFaults |-> 1,
               maxAttempts |-> 1]

ThreeSetups == {Failures, Refusal, Anything}
NakedSetups == {OneRefused}
=============================================================================

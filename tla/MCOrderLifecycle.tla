-------------------------- MODULE MCOrderLifecycle --------------------------
(* Small instances of OrderLifecycle: two profiles on one account.           *)
EXTENDS OrderLifecycle
CONSTANTS p1, p2

\* p1 starts flat beside a sibling that holds one share.
SiblingHolds == [p \in Profiles |-> IF p = p1 THEN 0 ELSE 1]
\* p1 holds two shares, its sibling one.
BothHold == [p \in Profiles |-> IF p = p1 THEN 2 ELSE 1]
OneEach == [p \in Profiles |-> 1]

\* The profiles may be exchanged when they start alike and both work.
Exchangeable == Permutations(Profiles)
==============================================================================

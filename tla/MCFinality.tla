------------------------------- MODULE MCFinality -------------------------------
(* Small instances of ClaimFinality: missed slots, a ring buffer that wraps    *)
(* round, a registry that changes, and finality close behind the head or not.  *)
EXTENDS ClaimFinality

CONSTANTS v1, v2, alice

MCEpoch == {0, 1, 2}
MCFarFuture == 2
MCTerms == {[maxEpoch |-> 1, rewardAmount |-> 1, minClaimDelay |-> 1, owner |-> alice]}
Val(p, to, e) == [creds |-> [prefix |-> p, addr |-> to], activation |-> e]
\* v1 is pending but has no address yet, v2 has one but is neither activated nor pending.
MCGenesis == [s \in Index |-> IF s = v1 THEN Val(0, This, 0) ELSE Val(1, alice, 2)]
================================================================================

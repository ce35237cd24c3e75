------------------------------- MODULE MCContract -------------------------------
(* Small instances of ConsolidationIncentives. *)
EXTENDS ContractInvariant, RewardsRefinement

CONSTANTS v1, v2, alice, bob

Val(p, to, e) == [creds |-> [prefix |-> p, addr |-> to], activation |-> e]

MCEpoch == {0, 1, 2}
MCFarFuture == 2
Terms(delay) == [maxEpoch |-> 1, rewardAmount |-> 1, minClaimDelay |-> delay, owner |-> alice]

\* v1 and v2 are eligible from the start and pay to different accounts.
ReentrancyGenesis == [s \in Index |-> IF s = v1 THEN Val(1, alice, 0) ELSE Val(2, bob, 0)]
\* v2 pays to the contract itself.
SelfGenesis == [s \in Index |-> IF s = v1 THEN Val(1, alice, 0) ELSE Val(1, This, 0)]

TermsNoDelay == {Terms(0)}
TermsTwo == {Terms(0), [Terms(1) EXCEPT !.owner = bob]}
================================================================================

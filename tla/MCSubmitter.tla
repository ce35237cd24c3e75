------------------------------ MODULE MCSubmitter ------------------------------
\* The submitter on a small instance: one validator, which is in the queue and
\* eligible from the start, two calls for it, one other account.
EXTENDS Submitter, TLC

CONSTANT alice, v1

MCEpoch == {1, 3}
MCGenesis == v1 :> [creds |-> [prefix |-> 1, addr |-> alice], activation |-> 1]
MCDeployParams == {[maxEpoch |-> 2, rewardAmount |-> 1, minClaimDelay |-> 1, owner |-> alice]}
=============================================================================

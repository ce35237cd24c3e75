----------------------------- MODULE ClaimFinality -----------------------------
(***************************************************************************)
(* The contract beside the finality of the beacon chain it reads.  The     *)
(* contract sees block.timestamp and roots, never finality: minClaimDelay  *)
(* stands for it.                                                          *)
(***************************************************************************)
EXTENDS ConsolidationIncentives

CONSTANT MaxFinalityLag  \* slots finality may trail the current block

ASSUME LagAssumption == MaxFinalityLag \in Nat

VARIABLE finalized       \* the time of the last finalized block

fvars == <<vars, finalized>>

FInit == Init /\ finalized = 0

\* Each block may finalize more of the chain, up to itself.
Finalize ==
  \/ /\ now' # now
     /\ finalized' \in finalized..now'
     /\ now' - finalized' <= MaxFinalityLag
  \/ now' = now /\ UNCHANGED finalized

FNext == Next /\ Finalize

FSpec == FInit /\ [][FNext]_fvars

\* A reward is only ever paid for a consolidation that a finalized block holds,
\* so no reorganisation of the beacon chain can take its reason away.
RewardedAreFinal == \A s \in st.rewarded : entered[s] <= finalized

\* The delay the deployer chose outlasts the lag of finality.  One slot of it is
\* to spare: the root stored at a time is the state of an earlier block.
DelayCoversLag == \A p \in DeployParams : MaxFinalityLag <= p.minClaimDelay + 1
================================================================================

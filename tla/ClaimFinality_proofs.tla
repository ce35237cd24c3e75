-------------------------- MODULE ClaimFinality_proofs --------------------------
(***************************************************************************)
(* Proof that the finality delay does what it is for: with a delay that    *)
(* covers the lag of finality, rewards rest on finalized consolidations.   *)
(***************************************************************************)
EXTENDS ClaimFinality, ConsolidationIncentives_proofs

\* Finality trails the current block by no more than the bound, and the terms
\* are those a deployer chose.
LagIsBounded ==
  /\ finalized \in 0..now
  /\ now - finalized <= MaxFinalityLag
  /\ params \in DeployParams \cup {NotDeployed}

\* At genesis finality has nothing to trail.
LEMMA LagInit == FInit => LagIsBounded
BY LagAssumption DEF FInit, Init, LagIsBounded

\* Blocks and transactions keep finality within the bound.
LEMMA LagNext == TypeOK /\ TypeOK' /\ LagIsBounded /\ [FNext]_fvars => LagIsBounded'
<1> SUFFICES ASSUME TypeOK, TypeOK', LagIsBounded, [FNext]_fvars PROVE LagIsBounded'
  OBVIOUS
<1>1. now \in Nat /\ now' \in Nat /\ finalized \in 0..now /\ now - finalized <= MaxFinalityLag
  BY DEF TypeOK, LagIsBounded
<1>2. now' >= now
  <2>1. [Next]_vars
    BY DEF FNext, fvars
  <2>2. (\E t \in 1..MaxTime : NewBlock(t)) \/ UNCHANGED chain
    BY <2>1, OnlyBlocksMoveTheChain
  <2> QED BY <1>1, <2>2 DEF NewBlock, chain
<1>3. params' \in DeployParams \cup {NotDeployed}
  <2>1. (\E p \in DeployParams : Deploy(p)) \/ params' = params
    BY DEF FNext, Next, fvars, vars, BeginTx, ClaimReward, Withdraw, TransferOwnership,
       UpgradeTo, Receive, Return, Revert, NewBlock
  <2> QED BY <2>1 DEF Deploy, Initialize, LagIsBounded
<1>4. finalized' \in 0..now' /\ now' - finalized' <= MaxFinalityLag
  <2>1. CASE Finalize
    BY <1>1, <1>2, <2>1 DEF Finalize
  <2>2. CASE UNCHANGED fvars
    BY <1>1, <2>2 DEF fvars, vars
  <2> QED BY <2>1, <2>2 DEF FNext
<1> QED BY <1>3, <1>4 DEF LagIsBounded

\* Beside a chain that finalizes, the contract does what it does anyway.
LEMMA FinalityOnlyWatches == FSpec => Spec
<1>1. FInit => Init
  BY DEF FInit
<1>2. [FNext]_fvars => [Next]_vars
  BY DEF FNext, fvars
<1> QED BY <1>1, <1>2, PTL DEF FSpec, Spec

\* Finality never falls further behind than the bound.
THEOREM LagIsBoundedHolds == FSpec => []LagIsBounded
<1>1. FSpec => []TypeOK
  BY FinalityOnlyWatches, TypeCorrect
<1> QED BY <1>1, LagInit, LagNext, PTL DEF FSpec

\* With a delay that covers the lag, whatever is paid rests on a consolidation
\* that a finalized block holds: claimReward never sees finality, yet respects it.
THEOREM RewardedAreFinalHolds ==
  ASSUME DelayCoversLag
  PROVE  FSpec => []RewardedAreFinal
<1>1. /\ TypeOK /\ CallsAreConsistent /\ RewardedAreEntitled /\ LagIsBounded
      => RewardedAreFinal
  <2> SUFFICES ASSUME TypeOK, CallsAreConsistent, RewardedAreEntitled, LagIsBounded,
                      NEW s \in st.rewarded
               PROVE  entered[s] <= finalized
    BY DEF RewardedAreFinal
  <2>1. params # NotDeployed
    BY CurrentIsConsistent DEF Balanced
  <2>2. params \in DeployParams /\ params.minClaimDelay \in Nat
    BY <2>1 DEF LagIsBounded, TypeOK, Params
  <2>3. MaxFinalityLag <= params.minClaimDelay + 1
    BY <2>2 DEF DelayCoversLag
  <2>4. entered[s] + params.minClaimDelay < now
    BY DEF RewardedAreEntitled
  <2>5. now \in Nat /\ entered[s] \in Int /\ finalized \in Int /\ now - finalized <= MaxFinalityLag
    BY DEF TypeOK, ContractState, LagIsBounded
  <2> QED BY <2>2, <2>3, <2>4, <2>5, LagAssumption
<1> QED BY <1>1, FinalityOnlyWatches, TypeCorrect, ConsistencyHolds,
           RewardedAreEntitledHolds, LagIsBoundedHolds, PTL
================================================================================

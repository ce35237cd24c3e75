--------------------------- MODULE RewardsRefinement ---------------------------
(***************************************************************************)
(* The contract, with all its calls and callbacks, implements              *)
(* AbstractRewards: seen from outside, a transaction is one step, whatever *)
(* was called, reentered or reverted inside it.                            *)
(***************************************************************************)
EXTENDS ConsolidationIncentives

\* The mark of a programme not launched yet is no amount.
ASSUME NotDeployedIsNoAmount == NotDeployed \notin Nat

\* Who may be paid for s at this moment, read off the present beacon state.
Entitled(s) ==
  LET v == head.validators[s]
  IN  IF /\ params # NotDeployed
         /\ entered[s] >= 0
         /\ entered[s] + params.minClaimDelay < now
         /\ v.activation < params.maxEpoch
         /\ v.creds.prefix # 0
      THEN {v.creds.addr}
      ELSE {}

Abstract == INSTANCE AbstractRewards WITH
  reward   <- IF params = NotDeployed THEN NotDeployed ELSE params.rewardAmount,
  hasOwner <- Committed.owner # NoOne,
  entitled <- [s \in Index |-> Entitled(s)],
  paidTo   <- Committed.payee,
  pot      <- Committed.balance,
  funded   <- Committed.funded,
  drawn    <- Committed.drawn

\* Transactions of the contract are settlements of the abstract programme:
\* nobody is paid twice, or by an address the beacon chain does not name, and
\* nothing leaves the pot by any other way, however calls nest and fail.
ImplementsAbstractRewards == Abstract!Spec
================================================================================

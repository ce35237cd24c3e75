--------------------------- MODULE ContractInvariant ---------------------------
(***************************************************************************)
(* The inductive invariant of the reward contract: what holds of its state *)
(* now and of every state a revert of a frame on the call stack would      *)
(* bring back.  ConsolidationIncentives_proofs.tla proves it and derives   *)
(* the contract's safety properties from it.                               *)
(***************************************************************************)
EXTENDS ConsolidationIncentives

\* The states of the contract within reach when stk is on the stack and c is
\* current: those the frames saved, the outermost first, then c itself.
At(stk, c, i) == IF i <= Len(stk) THEN stk[i].saved ELSE c

\* The validators whose claimReward is waiting in the n outermost frames.
Opens(stk, n) == {s \in Index : \E j \in 1..n : s \in stk[j].opens}

\* In c a validator is marked when it was paid, and that was once.
Marked(c) ==
  \A s \in Index :
    /\ c.paid[s] = IF s \in c.rewarded THEN 1 ELSE 0
    /\ c.payee[s] = NoOne <=> s \notin c.rewarded

\* In c, under the terms p, the contract can account for its balance; before it
\* has terms it has nothing and belongs to nobody.
Balanced(p, c) ==
  IF p = NotDeployed
  THEN c.balance = 0 /\ c.drawn = 0 /\ c.funded = 0 /\ c.rewarded = {} /\ c.owner = NoOne
  ELSE /\ c.balance >= 0
       /\ c.balance + c.drawn + p.rewardAmount * Cardinality(PaidOutside(c)) = c.funded

\* d keeps the rewards of c, the value that came and went, and what c settled by
\* renouncing ownership.
Continues(c, d) ==
  /\ \A s \in c.rewarded : s \in d.rewarded /\ d.payee[s] = c.payee[s]
  /\ c.funded <= d.funded /\ c.drawn <= d.drawn
  /\ c.owner = NoOne => d.owner = NoOne /\ d.impl = c.impl /\ d.drawn = c.drawn

\* Every state within reach is marked and balanced, has logged its rewards but
\* those of the claims still waiting, and continues the last committed state.
Consistent(p, stk, c) ==
  \A i \in 1..Len(stk) + 1 :
    /\ Marked(At(stk, c, i))
    /\ Balanced(p, At(stk, c, i))
    /\ At(stk, c, i).rewarded = At(stk, c, i).logged \cup Opens(stk, i - 1)
    /\ Continues(At(stk, c, 1), At(stk, c, i))

\* Whatever mixture of calls, callbacks, returns and reverts has run, also in
\* the middle of claimReward and withdraw.
CallsAreConsistent == Consistent(params, stack, st)
================================================================================

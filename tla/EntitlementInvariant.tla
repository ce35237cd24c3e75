------------------------- MODULE EntitlementInvariant -------------------------
(***************************************************************************)
(* Why a reward paid against an old root is still due today: what the      *)
(* roots in the oracle say of the present beacon state.  The inductive     *)
(* invariant behind RewardedAreEntitled, UsableBeforeEviction and          *)
(* RewardedAreFinal; ConsolidationIncentives_proofs.tla proves it.         *)
(***************************************************************************)
EXTENDS ContractInvariant

\* A validator w is what v may have become: an address once set and an
\* activation once scheduled stay.
Extends(v, w) ==
  /\ v.creds.prefix # 0 => w.creds.prefix # 0 /\ w.creds.addr = v.creds.addr
  /\ v.activation # FarFuture => w.activation = v.activation

\* The entry e of the ring buffer was stored under its own timestamp; what it
\* holds pending was there before its block, and the registry has grown from it.
Truthful(i, e) ==
  /\ e.ts <= now /\ e.ts % BufferLength = i
  /\ \A s \in Index :
       /\ s \in e.root.pending => 0 <= entered[s] /\ entered[s] < e.ts
       /\ Extends(e.root.validators[s], head.validators[s])

\* The chain remembers when each pending validator entered, and the oracle's
\* roots are states of this chain's past.
ChainIsTruthful ==
  /\ \A s \in Index : /\ entered[s] \in -1..now
                      /\ s \in head.pending => entered[s] >= 0
  /\ \A i \in DOMAIN oracle : oracle[i] # NoEntry => Truthful(i, oracle[i])

\* The rewards that c holds are due on the present chain.
Due(c) ==
  \A s \in c.rewarded :
    /\ entered[s] >= 0
    /\ entered[s] + params.minClaimDelay < now
    /\ head.validators[s].activation < params.maxEpoch
    /\ head.validators[s].creds.prefix # 0
    /\ c.payee[s] = head.validators[s].creds.addr

\* So are those of every state a revert may bring back.
RewardsAreDue ==
  /\ ChainIsTruthful
  /\ \A i \in 1..Len(stack) + 1 : Due(At(stack, st, i))

\* The last committed state keeps the books and holds only rewards that are due.
CommittedIsSound ==
  /\ Committed \in ContractState
  /\ Marked(Committed)
  /\ Balanced(params, Committed)
  /\ Due(Committed)
================================================================================

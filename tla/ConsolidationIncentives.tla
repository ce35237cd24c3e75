------------------------ MODULE ConsolidationIncentives ------------------------
(***************************************************************************)
(* The reward contract (contracts/src/ConsolidationIncentives.sol behind   *)
(* its proxy, set up by contracts/script/Deploy.s.sol) and the chain it    *)
(* lives on: the beacon state whose roots it reads, and the EIP-4788 ring  *)
(* buffer it reads them from.                                              *)
(*                                                                         *)
(* Every external call is a frame of "stack".  claimReward and withdraw    *)
(* hand control to another account in the middle, so between the step that *)
(* enters them and the step that leaves them that account may call the     *)
(* contract again; a frame that fails restores the contract state it saved *)
(* when it was entered.  A call whose checks fail reverts with no effect,  *)
(* so it is no step: the order of the checks cannot be observed here.      *)
(*                                                                         *)
(* A Merkle proof is abstracted to what it proves: a branch for a leaf     *)
(* exists exactly when the state behind the root has that leaf at that     *)
(* place, which is what SSZMerkle.tla checks of the verifier.  The unit of *)
(* time is one slot (5 seconds on Gnosis Chain).                           *)
(***************************************************************************)
EXTENDS Integers, Sequences, FiniteSets

CONSTANTS
  Index,         \* validator indices a claim may name
  Account,       \* addresses with code or keys outside the contract
  This,          \* the address of the contract (the proxy)
  NoOne,         \* no account: an owner that renounced, no payee
  NotDeployed,   \* the parameters before Deploy has run
  NoEntry,       \* a slot of the ring buffer never written
  Epoch,         \* activation epochs, FAR_FUTURE_EPOCH among them
  FarFuture,     \* FAR_FUTURE_EPOCH: the validator is not activated
  Genesis,       \* the validator registry at time 0
  GenesisQueue,  \* the sources of pending_consolidations at time 0
  DeployParams,  \* what the deployer may pass to initialize
  Impl,          \* implementations the owner may upgrade to
  BufferLength,  \* HISTORY_BUFFER_LENGTH of the oracle (8191)
  Amount,        \* amounts funded or withdrawn in one call
  MaxFunded,     \* bound: value ever sent to the contract
  MaxTime,       \* bound: the last slot
  MaxGap,        \* bound: slots between two blocks (missed slots + 1)
  MaxDepth       \* bound: frames on the call stack

Address == Account \cup {This}
Credentials == [prefix : 0..2, addr : Address]
Validator == [creds : Credentials, activation : Epoch]
BeaconState == [pending : SUBSET Index, validators : [Index -> Validator]]
Params == [maxEpoch : 0..FarFuture, rewardAmount : Nat, minClaimDelay : Nat, owner : Account]

ASSUME ConstantsAssumption ==
  /\ IsFiniteSet(Index)
  /\ This \notin Account /\ NoOne \notin Address
  /\ NotDeployed \notin Params
  /\ NoEntry \notin [ts : Nat, root : BeaconState]
  /\ FarFuture \in Nat /\ FarFuture \in Epoch /\ Epoch \subseteq 0..FarFuture
  /\ Genesis \in [Index -> Validator] /\ GenesisQueue \subseteq Index
  /\ DeployParams \subseteq Params
  /\ Impl # {}
  /\ BufferLength \in Nat \ {0}
  /\ Amount \subseteq Nat
  /\ MaxFunded \in Nat /\ MaxTime \in Nat /\ MaxGap \in Nat /\ MaxDepth \in Nat

VARIABLES
  params,   \* maxEpoch, rewardAmount, minClaimDelay as initialize stored them
  st,       \* the revertible state: contract storage, balances, logs
  stack,    \* the call frames, the innermost last
  now,      \* block.timestamp of the current block
  head,     \* the beacon state after the current block
  entered,  \* when each validator entered pending_consolidations (-1: not yet)
  oracle    \* the EIP-4788 ring buffer

vars == <<params, st, stack, now, head, entered, oracle>>
chain == <<now, head, entered, oracle>>

\* Contract storage (owner, impl, rewarded) and balance, then the traces that
\* calls leave outside the contract: paid and payee count and name the reward
\* transfers per validator, logged has the RewardClaimed events, funded and
\* drawn are the value that came in and that withdraw took out.
ContractState ==
  [owner : Account \cup {NoOne}, impl : Impl, rewarded : SUBSET Index, balance : Nat,
   paid : [Index -> Nat], payee : [Index -> Address \cup {NoOne}],
   logged : SUBSET Index, funded : Nat, drawn : Nat]

\* callee: the account that holds control (NoOne: the code of the transaction);
\* opens: the validator whose claimReward is waiting on that account, if any.
Frame == [callee : Address \cup {NoOne}, opens : SUBSET Index, saved : ContractState]

TypeOK ==
  /\ params \in Params \cup {NotDeployed}
  /\ st \in ContractState
  /\ stack \in Seq(Frame)
  /\ now \in Nat
  /\ head \in BeaconState
  /\ entered \in [Index -> Int]
  /\ oracle \in [0..BufferLength - 1 -> [ts : Nat, root : BeaconState] \cup {NoEntry}]

Init ==
  /\ params = NotDeployed
  /\ \E i \in Impl :
       st = [owner |-> NoOne, impl |-> i, rewarded |-> {}, balance |-> 0,
             paid |-> [s \in Index |-> 0], payee |-> [s \in Index |-> NoOne],
             logged |-> {}, funded |-> 0, drawn |-> 0]
  /\ stack = <<>>
  /\ now = 0
  /\ head = [pending |-> GenesisQueue, validators |-> Genesis]
  /\ entered = [s \in Index |-> IF s \in GenesisQueue THEN 0 ELSE -1]
  /\ oracle = [i \in 0..BufferLength - 1 |-> NoEntry]

-----------------------------------------------------------------------------
\* Calls and the state they save.

Top == stack[Len(stack)]
Push(callee, opens) ==
  /\ Len(stack) < MaxDepth
  /\ stack' = Append(stack, [callee |-> callee, opens |-> opens, saved |-> st])
Pop == stack' = SubSeq(stack, 1, Len(stack) - 1)

\* Code outside the contract is running; receive() calls nobody.
Running == stack # <<>> /\ Top.callee # This

\* The state as of the last completed transaction.
Committed == IF stack = <<>> THEN st ELSE stack[1].saved

-----------------------------------------------------------------------------
\* Deployment.

\* initialize: the initializer modifier lets it run once.
Initialize(p) ==
  /\ params = NotDeployed
  /\ params' = p
  /\ st' = [st EXCEPT !.owner = p.owner]

\* Deploy.run: implementation, proxy and initialize in one transaction.
Deploy(p) ==
  /\ stack = <<>>
  /\ p.maxEpoch > 0
  /\ p.rewardAmount > 0
  /\ Initialize(p)
  /\ UNCHANGED <<stack, chain>>

-----------------------------------------------------------------------------
\* The checks of claimReward on its arguments a.

TooRecent_Doubled(ts) == now < ts + 2 * params.minClaimDelay
TooRecent_FromNow(ts) == now < ts

\* Check 2: the finality delay.
TooRecent(ts) == now < ts + params.minClaimDelay

Found(ts) == LET e == oracle[ts % BufferLength] IN e # NoEntry /\ e.ts = ts

\* Check 3, _getBeaconBlockRoot: the entry whose stored timestamp is ts.
Root(ts) == oracle[ts % BufferLength].root

\* Checks 4 to 7: branches of the required lengths prove the three leaves.
Proves(root, a) ==
  /\ a.sourceIndex \in root.pending
  /\ root.validators[a.sourceIndex].creds = a.sourceCredentials
  /\ root.validators[a.sourceIndex].activation = a.activationEpoch

Eligible_Inclusive(a) == a.activationEpoch <= params.maxEpoch /\ a.sourceCredentials.prefix \in {1, 2}

\* Checks 8 and 9: activated before maxEpoch, withdrawal address set.
Eligible(a) == a.activationEpoch < params.maxEpoch /\ a.sourceCredentials.prefix \in {1, 2}

CanClaim_Twice(a) ==
  /\ ~TooRecent(a.beaconTimestamp)
  /\ Found(a.beaconTimestamp) /\ Proves(Root(a.beaconTimestamp), a)
  /\ Eligible(a)
  /\ st.balance >= params.rewardAmount

CanClaim_Unfunded(a) ==
  /\ a.sourceIndex \notin st.rewarded
  /\ ~TooRecent(a.beaconTimestamp)
  /\ Found(a.beaconTimestamp) /\ Proves(Root(a.beaconTimestamp), a)
  /\ Eligible(a)

\* Checks 1 to 10, in the order of the source.
CanClaim(a) ==
  /\ a.sourceIndex \notin st.rewarded
  /\ ~TooRecent(a.beaconTimestamp)
  /\ Found(a.beaconTimestamp) /\ Proves(Root(a.beaconTimestamp), a)
  /\ Eligible(a)
  /\ st.balance >= params.rewardAmount

ClaimArgs ==
  [beaconTimestamp : 0..MaxTime, sourceIndex : Index,
   activationEpoch : Epoch, sourceCredentials : Credentials]

\* The value an external call moves out of the contract: nothing when it calls itself.
Outgoing(to, value) == IF to = This THEN 0 ELSE value

\* Checks, effects and the transfer of claimReward; control is now at the recipient.
ClaimReward(a) ==
  LET s  == a.sourceIndex
      to == a.sourceCredentials.addr
  IN  /\ params # NotDeployed
      /\ Running
      /\ CanClaim(a)
      /\ st' = [st EXCEPT !.rewarded = @ \cup {s},
                          !.balance = @ - Outgoing(to, params.rewardAmount),
                          !.paid[s] = @ + 1,
                          !.payee[s] = to]
      /\ Push(to, {s})
      /\ UNCHANGED <<params, chain>>

-----------------------------------------------------------------------------
\* Administration.

\* onlyOwner: nobody passes it once the owner has renounced.
OnlyOwner(caller) == caller = st.owner

\* withdraw up to its external call.
Withdraw(caller, to, amount) ==
  /\ params # NotDeployed
  /\ Running
  /\ OnlyOwner(caller)
  /\ amount <= st.balance
  /\ st' = [st EXCEPT !.balance = @ - Outgoing(to, amount), !.drawn = @ + Outgoing(to, amount)]
  /\ Push(to, {})
  /\ UNCHANGED <<params, chain>>

\* transferOwnership, or renounceOwnership when the new owner is NoOne.
TransferOwnership(caller, newOwner) ==
  /\ params # NotDeployed
  /\ Running
  /\ OnlyOwner(caller)
  /\ st' = [st EXCEPT !.owner = newOwner]
  /\ UNCHANGED <<params, stack, chain>>

UpgradeTo_LosesMarks(caller, newImplementation) ==
  /\ params # NotDeployed
  /\ Running
  /\ OnlyOwner(caller)
  /\ st' = [st EXCEPT !.impl = newImplementation, !.rewarded = {}]
  /\ UNCHANGED <<params, stack, chain>>

UpgradeTo_Anyone(caller, newImplementation) ==
  /\ params # NotDeployed
  /\ Running
  /\ st' = [st EXCEPT !.impl = newImplementation]
  /\ UNCHANGED <<params, stack, chain>>

\* upgradeToAndCall, authorized by _authorizeUpgrade: storage stays.
UpgradeTo(caller, newImplementation) ==
  /\ params # NotDeployed
  /\ Running
  /\ OnlyOwner(caller)
  /\ st' = [st EXCEPT !.impl = newImplementation]
  /\ UNCHANGED <<params, stack, chain>>

\* receive(): anybody funds the contract.
Receive(amount) ==
  /\ params # NotDeployed
  /\ Running
  /\ st.funded + amount <= MaxFunded
  /\ st' = [st EXCEPT !.balance = @ + amount, !.funded = @ + amount]
  /\ UNCHANGED <<params, stack, chain>>

-----------------------------------------------------------------------------
\* The ends of frames.

\* A transaction starts.
BeginTx ==
  /\ stack = <<>>
  /\ Push(NoOne, {})
  /\ UNCHANGED <<params, st, chain>>

Return_NoEvent == stack # <<>> /\ Pop /\ UNCHANGED <<params, st, chain>>

\* The callee returns: claimReward emits RewardClaimed, withdraw and the
\* transaction just end.
Return ==
  /\ stack # <<>>
  /\ st' = [st EXCEPT !.logged = @ \cup Top.opens]
  /\ Pop
  /\ UNCHANGED <<params, chain>>

Revert_CallOnly ==
  /\ stack # <<>>
  /\ st' = [st EXCEPT !.rewarded = @ \ Top.opens]
  /\ Pop
  /\ UNCHANGED <<params, chain>>

\* The callee fails (TransferFailed), or the frame runs out of gas: the frame
\* is undone, whatever was called inside it included.
Revert ==
  /\ stack # <<>>
  /\ st' = Top.saved
  /\ Pop
  /\ UNCHANGED <<params, chain>>

-----------------------------------------------------------------------------
\* The chain.

\* What one block may do to a validator or to the queue of consolidations:
\* credentials gain an address once and keep it, activation is set once, and a
\* validator is the source of a consolidation at most once.
CredentialChange(s) ==
  \E p \in 1..2, to \in Address :
    /\ p > head.validators[s].creds.prefix
    /\ head.validators[s].creds.prefix > 0 => to = head.validators[s].creds.addr
    /\ head' = [head EXCEPT !.validators[s].creds = [prefix |-> p, addr |-> to]]
    /\ UNCHANGED entered

Activation(s) ==
  \E e \in Epoch :
    /\ head.validators[s].activation = FarFuture
    /\ head' = [head EXCEPT !.validators[s].activation = e]
    /\ UNCHANGED entered

ConsolidationRequest(s) ==
  /\ entered[s] = -1
  /\ head' = [head EXCEPT !.pending = @ \cup {s}]
  /\ entered' = [entered EXCEPT ![s] = now']

ConsolidationDone(s) ==
  /\ s \in head.pending
  /\ head' = [head EXCEPT !.pending = @ \ {s}]
  /\ UNCHANGED entered

\* EIP-4788: the block at time t stores its parent's root under t.
OracleWrite(t) == [oracle EXCEPT ![t % BufferLength] = [ts |-> t, root |-> head]]

\* A block at time t, at most MaxGap slots after its parent.
NewBlock(t) ==
  /\ stack = <<>>
  /\ now < t /\ t <= now + MaxGap /\ t <= MaxTime
  /\ now' = t
  /\ \/ UNCHANGED <<head, entered>>
     \/ \E s \in Index : \/ CredentialChange(s)
                         \/ Activation(s)
                         \/ ConsolidationRequest(s)
                         \/ ConsolidationDone(s)
  /\ oracle' = OracleWrite(t)
  /\ UNCHANGED <<params, st, stack>>

-----------------------------------------------------------------------------
Next ==
  \/ \E p \in DeployParams : Deploy(p)
  \/ BeginTx
  \/ \E a \in ClaimArgs : ClaimReward(a)
  \/ \E c \in Account, to \in Address, v \in Amount : Withdraw(c, to, v)
  \/ \E c \in Account, o \in Account \cup {NoOne} : TransferOwnership(c, o)
  \/ \E c \in Account, i \in Impl : UpgradeTo(c, i)
  \/ \E v \in Amount : Receive(v)
  \/ Return
  \/ Revert
  \/ \E t \in 1..MaxTime : NewBlock(t)

Spec == Init /\ [][Next]_vars

-----------------------------------------------------------------------------
(* Properties. *)

\* Validators whose reward left the contract in state c.
PaidOutside(c) == {s \in Index : c.payee[s] \in Account}

\* At every instant, inside callbacks too, a validator has been paid at most
\* once, and it is marked exactly when it has been paid: the mark is set before
\* the recipient runs (claimReward, step 11) and both go when the transfer fails.
NoDoubleReward ==
  \A s \in Index : st.paid[s] = IF s \in st.rewarded THEN 1 ELSE 0

\* Every unit that came in is in the contract, was withdrawn by the owner or is
\* one reward of one marked validator; the contract never owes more than it has.
Solvency ==
  params # NotDeployed =>
    /\ st.balance >= 0
    /\ st.balance + st.drawn + params.rewardAmount * Cardinality(PaidOutside(st)) = st.funded

\* Between transactions the RewardClaimed log, which the dashboards read, names
\* exactly the validators claimReward refuses to pay again.
LogMatchesMarks == stack = <<>> => st.logged = st.rewarded

\* Whatever root it was proved against, a reward went to a validator whose
\* consolidation was on chain longer than minClaimDelay ago, that was activated
\* before maxEpoch, and to the withdrawal address the validator has today.
RewardedAreEntitled ==
  \A s \in st.rewarded :
    /\ entered[s] >= 0
    /\ entered[s] + params.minClaimDelay < now
    /\ head.validators[s].activation < params.maxEpoch
    /\ head.validators[s].creds.prefix # 0
    /\ st.payee[s] = head.validators[s].creds.addr

\* A reward a completed transaction paid stays paid, to the same address: no
\* later transaction, failed callback or upgrade takes a mark back.
RewardsArePermanent ==
  [][\A s \in Committed.rewarded :
       s \in Committed'.rewarded /\ Committed'.payee[s] = Committed.payee[s]]_vars

\* Once a completed transaction has renounced ownership nothing is withdrawn,
\* upgraded or taken over any more, even by a transaction whose callbacks fail.
RenouncedIsFinal ==
  [][params # NotDeployed /\ Committed.owner = NoOne =>
       /\ Committed'.owner = NoOne
       /\ Committed'.impl = Committed.impl
       /\ Committed'.drawn = Committed.drawn]_vars

\* With a delay that fits the oracle's window, a root is overwritten only after a
\* block in which the contract accepted it: no proof expires before it is usable.
UsableBeforeEviction ==
  [][params # NotDeployed /\ params.minClaimDelay + MaxGap <= BufferLength =>
       \A i \in DOMAIN oracle :
         oracle[i] # NoEntry /\ oracle'[i] # oracle[i] => ~TooRecent(oracle[i].ts)]_vars
================================================================================

-------------------- MODULE ConsolidationIncentives_proofs --------------------
(***************************************************************************)
(* Proofs about the reward contract and the chain it reads, for every set  *)
(* of validators, accounts and implementations, every bound and every      *)
(* genesis: first of the contract's own state, then of the chain (whoever  *)
(* was paid is still entitled to it, and no root goes before it is usable).*)
(***************************************************************************)
EXTENDS EntitlementInvariant, FiniteSetTheorems, SequenceTheorems, TLAPS

\* Popping a frame leaves a sequence of frames.
LEMMA PopType ==
  ASSUME stack \in Seq(Frame), stack # <<>>
  PROVE  /\ SubSeq(stack, 1, Len(stack) - 1) \in Seq(Frame)
         /\ Len(stack) \in Nat \ {0}
         /\ Top \in Frame
BY DEF Top

\* Popping keeps every other frame in its place.
LEMMA PopKeeps ==
  ASSUME NEW stk \in Seq(Frame), stk # <<>>
  PROVE  LET new == SubSeq(stk, 1, Len(stk) - 1)
         IN  Len(new) = Len(stk) - 1 /\ \A i \in 1..Len(stk) - 1 : new[i] = stk[i]
<1> DEFINE n == Len(stk)
<1>1. n \in Nat /\ n > 0
  OBVIOUS
<1>2. 1 \in Int /\ n - 1 \in Int /\ \A i \in 1..n - 1 : stk[i] \in Frame
  BY <1>1
<1> HIDE DEF n
<1>3. /\ Len(SubSeq(stk, 1, n - 1)) = IF 1 <= n - 1 THEN n - 1 - 1 + 1 ELSE 0
      /\ \A i \in 1..n - 1 - 1 + 1 : SubSeq(stk, 1, n - 1)[i] = stk[1 + i - 1]
  BY <1>2, SubSeqProperties
<1>4. Len(SubSeq(stk, 1, n - 1)) = n - 1 /\ \A i \in 1..n - 1 : SubSeq(stk, 1, n - 1)[i] = stk[i]
  BY <1>1, <1>3
<1> QED BY <1>4 DEF n

\* The value that leaves the contract is a natural number, at most the one sent.
LEMMA OutgoingType ==
  ASSUME NEW to, NEW v \in Nat
  PROVE  Outgoing(to, v) \in Nat /\ Outgoing(to, v) <= v
BY DEF Outgoing

\* No step leaves the types.
LEMMA TypeNext == TypeOK /\ [Next]_vars => TypeOK'
<1> SUFFICES ASSUME TypeOK, [Next]_vars PROVE TypeOK'
  OBVIOUS
<1> USE ConstantsAssumption
<1>1. ASSUME NEW p \in DeployParams, Deploy(p) PROVE TypeOK'
  BY <1>1 DEF Deploy, Initialize, TypeOK, ContractState, Params, chain
<1>2. CASE BeginTx
  BY <1>2 DEF BeginTx, Push, TypeOK, Frame, chain
<1>3. ASSUME NEW a \in ClaimArgs, ClaimReward(a) PROVE TypeOK'
  <2> DEFINE s == a.sourceIndex
             to == a.sourceCredentials.addr
             out == Outgoing(to, params.rewardAmount)
  <2>1. s \in Index /\ to \in Address
    BY DEF ClaimArgs, Credentials
  <2>2. params.rewardAmount \in Nat
    BY <1>3 DEF ClaimReward, TypeOK, Params
  <2>3. out \in Nat /\ out <= params.rewardAmount /\ params.rewardAmount <= st.balance
    BY <1>3, <2>2, OutgoingType DEF ClaimReward, CanClaim
  <2>4. st' = [st EXCEPT !.rewarded = @ \cup {s}, !.balance = @ - out,
                         !.paid[s] = @ + 1, !.payee[s] = to]
    BY <1>3 DEF ClaimReward
  <2>5. st' \in ContractState
    <3> HIDE DEF s, to, out
    <3>1. /\ st.rewarded \cup {s} \in SUBSET Index
          /\ st.balance - out \in Nat
          /\ [st.paid EXCEPT ![s] = @ + 1] \in [Index -> Nat]
          /\ [st.payee EXCEPT ![s] = to] \in [Index -> Address \cup {NoOne}]
      BY <2>1, <2>2, <2>3 DEF TypeOK, ContractState
    <3> QED BY <2>4, <3>1 DEF TypeOK, ContractState
  <2>6. stack' \in Seq(Frame)
    BY <1>3, <2>1 DEF ClaimReward, Push, TypeOK, Frame
  <2> QED BY <1>3, <2>5, <2>6 DEF ClaimReward, TypeOK, chain
<1>4. ASSUME NEW c \in Account, NEW to \in Address, NEW v \in Amount, Withdraw(c, to, v)
      PROVE  TypeOK'
  <2>1. v \in Nat /\ Outgoing(to, v) \in Nat /\ Outgoing(to, v) <= v
    BY OutgoingType
  <2>2. st' \in ContractState
    <3>1. st.balance - Outgoing(to, v) \in Nat /\ st.drawn + Outgoing(to, v) \in Nat
      <4>1. v <= st.balance
        BY <1>4 DEF Withdraw
      <4> QED BY <2>1, <4>1 DEF TypeOK, ContractState
    <3> QED BY <1>4, <3>1 DEF Withdraw, TypeOK, ContractState
  <2>3. stack' \in Seq(Frame)
    BY <1>4 DEF Withdraw, Push, TypeOK, Frame
  <2> QED BY <1>4, <2>2, <2>3 DEF Withdraw, TypeOK, chain
<1>5. ASSUME NEW c \in Account, NEW o \in Account \cup {NoOne}, TransferOwnership(c, o)
      PROVE  TypeOK'
  BY <1>5 DEF TransferOwnership, TypeOK, ContractState, chain
<1>6. ASSUME NEW c \in Account, NEW i \in Impl, UpgradeTo(c, i) PROVE TypeOK'
  BY <1>6 DEF UpgradeTo, TypeOK, ContractState, chain
<1>7. ASSUME NEW v \in Amount, Receive(v) PROVE TypeOK'
  <2>1. v \in Nat /\ st.balance + v \in Nat /\ st.funded + v \in Nat
    BY DEF TypeOK, ContractState
  <2> QED BY <1>7, <2>1 DEF Receive, TypeOK, ContractState, chain
<1>8. CASE Return
  BY <1>8, PopType DEF Return, Pop, TypeOK, ContractState, Frame, chain
<1>9. CASE Revert
  BY <1>9, PopType DEF Revert, Pop, TypeOK, Frame, chain
<1>10. ASSUME NEW t \in 1..MaxTime, NewBlock(t) PROVE TypeOK'
  <2>1. head' \in BeaconState /\ entered' \in [Index -> Int]
    <3>1. now' \in Int
      BY <1>10 DEF NewBlock
    <3>2. ASSUME NEW s \in Index, CredentialChange(s)
          PROVE  head' \in BeaconState /\ entered' \in [Index -> Int]
      <4>1. PICK p \in 1..2, to \in Address :
              /\ head' = [head EXCEPT !.validators[s].creds = [prefix |-> p, addr |-> to]]
              /\ entered' = entered
        BY <3>2 DEF CredentialChange
      <4>2. [prefix |-> p, addr |-> to] \in Credentials
        BY DEF Credentials
      <4>3. [head.validators EXCEPT ![s].creds = [prefix |-> p, addr |-> to]] \in [Index -> Validator]
        BY <4>2 DEF TypeOK, BeaconState, Validator
      <4> QED BY <4>1, <4>3 DEF TypeOK, BeaconState
    <3>3. ASSUME NEW s \in Index, Activation(s)
          PROVE  head' \in BeaconState /\ entered' \in [Index -> Int]
      <4>1. PICK e \in Epoch :
              /\ head' = [head EXCEPT !.validators[s].activation = e]
              /\ entered' = entered
        BY <3>3 DEF Activation
      <4>2. [head.validators EXCEPT ![s].activation = e] \in [Index -> Validator]
        BY DEF TypeOK, BeaconState, Validator
      <4> QED BY <4>1, <4>2 DEF TypeOK, BeaconState
    <3>4. ASSUME NEW s \in Index, ConsolidationRequest(s)
          PROVE  head' \in BeaconState /\ entered' \in [Index -> Int]
      BY <3>1, <3>4 DEF ConsolidationRequest, TypeOK, BeaconState
    <3>5. ASSUME NEW s \in Index, ConsolidationDone(s)
          PROVE  head' \in BeaconState /\ entered' \in [Index -> Int]
      BY <3>5 DEF ConsolidationDone, TypeOK, BeaconState
    <3> QED BY <1>10, <3>2, <3>3, <3>4, <3>5 DEF NewBlock, TypeOK
  <2>2. oracle' \in [0..BufferLength - 1 -> [ts : Nat, root : BeaconState] \cup {NoEntry}]
    BY <1>10 DEF NewBlock, OracleWrite, TypeOK
  <2> QED BY <1>10, <2>1, <2>2 DEF NewBlock, TypeOK
<1>11. CASE UNCHANGED vars
  BY <1>11 DEF vars, TypeOK
<1> QED BY <1>1, <1>2, <1>3, <1>4, <1>5, <1>6, <1>7, <1>8, <1>9, <1>10, <1>11 DEF Next

\* The contract's state, the call stack and the chain never leave their types.
THEOREM TypeCorrect == Spec => []TypeOK
<1>1. Init => TypeOK
  BY ConstantsAssumption DEF Init, TypeOK, ContractState, BeaconState
<1> QED BY <1>1, TypeNext, PTL DEF Spec

-----------------------------------------------------------------------------
(* The steps that change the contract's state, on that state alone. *)

\* Every state continues itself ...
LEMMA ContinuesItself ==
  ASSUME NEW c \in ContractState PROVE Continues(c, c)
BY DEF Continues, ContractState

\* ... and what continues its continuation.
LEMMA ContinuesTransitive ==
  ASSUME NEW b \in ContractState, NEW c \in ContractState, NEW d \in ContractState,
         Continues(b, c), Continues(c, d)
  PROVE  Continues(b, d)
BY DEF Continues, ContractState

\* The states within reach are states of the contract.
LEMMA AtType ==
  ASSUME NEW stk \in Seq(Frame), NEW c \in ContractState, NEW i \in 1..Len(stk) + 1
  PROVE  At(stk, c, i) \in ContractState
<1>1. ASSUME i <= Len(stk) PROVE stk[i] \in Frame
  BY <1>1
<1> QED BY <1>1 DEF At, Frame

\* A claim keeps marks and balance in step, and opens its validator.
LEMMA ClaimKeepsBooks ==
  ASSUME TypeOK, Marked(st), Balanced(params, st),
         NEW a \in ClaimArgs, ClaimReward(a)
  PROVE  /\ Marked(st') /\ Balanced(params, st') /\ Continues(st, st')
         /\ st'.rewarded = st.rewarded \cup {a.sourceIndex}
         /\ st'.logged = st.logged
<1> USE ConstantsAssumption
<1> DEFINE s == a.sourceIndex
           to == a.sourceCredentials.addr
           out == Outgoing(to, params.rewardAmount)
<1>1. /\ s \in Index /\ to \in Address /\ s \notin st.rewarded
      /\ to # NoOne
      /\ params # NotDeployed /\ params.rewardAmount \in Nat
      /\ st.balance >= params.rewardAmount
  BY DEF ClaimArgs, Credentials, ClaimReward, CanClaim, TypeOK, Params
<1>2. st' = [st EXCEPT !.rewarded = @ \cup {s}, !.balance = @ - out,
                       !.paid[s] = @ + 1, !.payee[s] = to]
  BY DEF ClaimReward
<1> HIDE DEF s, to
<1>3. /\ st'.rewarded = st.rewarded \cup {s}
      /\ st'.balance = st.balance - out
      /\ st'.paid = [st.paid EXCEPT ![s] = @ + 1]
      /\ st'.payee = [st.payee EXCEPT ![s] = to]
      /\ st'.logged = st.logged /\ st'.owner = st.owner /\ st'.impl = st.impl
      /\ st'.funded = st.funded /\ st'.drawn = st.drawn
  BY <1>2 DEF TypeOK, ContractState
<1>4. st.paid \in [Index -> Nat] /\ st.payee \in [Index -> Address \cup {NoOne}]
  BY DEF TypeOK, ContractState
<1>5. Marked(st')
  BY <1>1, <1>3, <1>4 DEF Marked
<1>6. Continues(st, st')
  BY <1>1, <1>3, <1>4 DEF Continues, TypeOK, ContractState
<1>7. Balanced(params, st')
  <2>1. PaidOutside(st') = IF to = This THEN PaidOutside(st) ELSE PaidOutside(st) \cup {s}
    BY <1>1, <1>3, <1>4 DEF PaidOutside, Address, Marked
  <2>2. s \notin PaidOutside(st)
    BY <1>1 DEF PaidOutside, Marked, Address
  <2>3. IsFiniteSet(PaidOutside(st))
    BY FS_Subset DEF PaidOutside
  <2>4. Cardinality(PaidOutside(st)) \in Nat
    BY <2>3, FS_CardinalityType
  <2>5. Cardinality(PaidOutside(st')) = Cardinality(PaidOutside(st)) + IF to = This THEN 0 ELSE 1
    <3>1. CASE to = This
      BY <2>1, <2>4, <3>1
    <3>2. CASE to # This
      BY <2>1, <2>2, <2>3, <3>2, FS_AddElement
    <3> QED BY <3>1, <3>2
  <2> DEFINE r == params.rewardAmount
             n == Cardinality(PaidOutside(st))
  <2>6. r * (n + 1) = r * n + r
    <3> HIDE DEF r, n
    <3> SUFFICES ASSUME r \in Nat, n \in Nat PROVE r * (n + 1) = r * n + r
      BY <1>1, <2>4 DEF r, n
    <3> QED OBVIOUS
  <2>7. r * n \in Nat
    BY <1>1, <2>4
  <2>8. out = IF to = This THEN 0 ELSE r
    BY DEF Outgoing
  <2>9. /\ st.balance \in Nat /\ st.drawn \in Nat /\ st.funded \in Nat
        /\ st.balance >= 0 /\ st.balance + st.drawn + r * n = st.funded
    BY <1>1 DEF Balanced, TypeOK, ContractState
  <2> HIDE DEF r, n, out
  <2>10. CASE to = This
    BY <1>1, <1>3, <2>4, <2>5, <2>7, <2>8, <2>9, <2>10 DEF Balanced, r, n
  <2>11. CASE to # This
    <3>1. r * Cardinality(PaidOutside(st')) = r * n + r
      BY <2>5, <2>6, <2>11 DEF n
    <3>2. r \in Nat /\ st.balance >= r
      BY <1>1 DEF r
    <3>3. st'.balance >= 0
      BY <1>3, <2>8, <2>9, <2>11, <3>2
    <3>4. st'.balance + st'.drawn + r * Cardinality(PaidOutside(st')) = st'.funded
      BY <1>3, <2>7, <2>8, <2>9, <2>11, <3>1, <3>2
    <3> QED BY <1>1, <3>3, <3>4 DEF Balanced, r
  <2> QED BY <2>10, <2>11
<1> QED BY <1>3, <1>5, <1>6, <1>7 DEF s

\* What the owner or a funder does leaves marks, payees and the log alone.
LEMMA AdminKeepsBooks ==
  ASSUME TypeOK, Marked(st), Balanced(params, st),
         \/ \E c \in Account, to \in Address, v \in Amount : Withdraw(c, to, v)
         \/ \E c \in Account, o \in Account \cup {NoOne} : TransferOwnership(c, o)
         \/ \E c \in Account, i \in Impl : UpgradeTo(c, i)
         \/ \E v \in Amount : Receive(v)
  PROVE  /\ Marked(st') /\ Balanced(params, st') /\ Continues(st, st')
         /\ st'.rewarded = st.rewarded /\ st'.logged = st.logged
<1> USE ConstantsAssumption
<1> DEFINE card == Cardinality(PaidOutside(st))
<1>1. st \in ContractState /\ params # NotDeployed /\ params.rewardAmount \in Nat
  BY DEF TypeOK, Params, Withdraw, TransferOwnership, UpgradeTo, Receive
<1>2. params.rewardAmount * card \in Int
  <2>1. IsFiniteSet(PaidOutside(st))
    BY FS_Subset DEF PaidOutside
  <2> QED BY <1>1, <2>1, FS_CardinalityType
<1>3. st.balance >= 0
  BY <1>1 DEF Balanced
<1>4. SUFFICES
        /\ st'.rewarded = st.rewarded /\ st'.logged = st.logged
        /\ st'.paid = st.paid /\ st'.payee = st.payee
        /\ st'.balance >= 0 /\ st'.balance + st'.drawn - st'.funded = st.balance + st.drawn - st.funded
        /\ st'.balance \in Nat /\ st'.drawn \in Nat /\ st'.funded \in Nat
        /\ st.funded <= st'.funded /\ st.drawn <= st'.drawn
        /\ st.owner = NoOne => st'.owner = NoOne /\ st'.impl = st.impl /\ st'.drawn = st.drawn
  <2>1. PaidOutside(st') = PaidOutside(st)
    BY <1>4 DEF PaidOutside
  <2> HIDE DEF card
  <2>2. st'.balance + st'.drawn + params.rewardAmount * card = st'.funded
    <3>1. st.balance + st.drawn + params.rewardAmount * card = st.funded
      BY <1>1 DEF Balanced, card
    <3>2. st.balance \in Nat /\ st.drawn \in Nat /\ st.funded \in Nat
      BY <1>1 DEF ContractState
    <3> QED BY <1>2, <1>4, <3>1, <3>2 DEF card
  <2>3. Balanced(params, st')
    BY <1>1, <1>4, <2>1, <2>2 DEF Balanced, card
  <2> QED BY <1>4, <2>3 DEF Marked, Continues
<1>5. ASSUME NEW c \in Account, NEW to \in Address, NEW v \in Amount, Withdraw(c, to, v)
      PROVE  <1>4!1
  <2>1. v \in Nat /\ Outgoing(to, v) \in Nat /\ Outgoing(to, v) <= v /\ v <= st.balance
    <3>1. v \in Nat
      OBVIOUS
    <3>2. v <= st.balance
      BY <1>5 DEF Withdraw
    <3> QED BY <3>1, <3>2 DEF Outgoing
  <2>2. st.owner # NoOne
    BY <1>5 DEF Withdraw, OnlyOwner, Address
  <2> DEFINE out == Outgoing(to, v)
  <2>3. st' = [st EXCEPT !.balance = @ - out, !.drawn = @ + out]
    BY <1>5 DEF Withdraw
  <2> HIDE DEF out
  <2>4. /\ st'.balance = st.balance - out /\ st'.drawn = st.drawn + out
        /\ st'.funded = st.funded /\ st'.paid = st.paid /\ st'.payee = st.payee
        /\ st'.rewarded = st.rewarded /\ st'.logged = st.logged
    BY <1>1, <2>3 DEF ContractState
  <2>5. st.balance \in Nat /\ st.drawn \in Nat /\ st.funded \in Nat
    BY <1>1 DEF ContractState
  <2> QED BY <1>3, <2>1, <2>2, <2>4, <2>5 DEF out
<1>6. ASSUME NEW c \in Account, NEW o \in Account \cup {NoOne}, TransferOwnership(c, o)
      PROVE  <1>4!1
  <2>1. st.owner # NoOne
    BY <1>6 DEF TransferOwnership, OnlyOwner, Address
  <2> QED BY <1>1, <1>3, <1>6, <2>1 DEF TransferOwnership, ContractState
<1>7. ASSUME NEW c \in Account, NEW i \in Impl, UpgradeTo(c, i)
      PROVE  <1>4!1
  <2>1. st.owner # NoOne
    BY <1>7 DEF UpgradeTo, OnlyOwner, Address
  <2> QED BY <1>1, <1>3, <1>7, <2>1 DEF UpgradeTo, ContractState
<1>8. ASSUME NEW v \in Amount, Receive(v)
      PROVE  <1>4!1
  <2>1. v \in Nat
    OBVIOUS
  <2>2. /\ st'.balance = st.balance + v /\ st'.funded = st.funded + v
        /\ st'.drawn = st.drawn /\ st'.paid = st.paid /\ st'.payee = st.payee
        /\ st'.rewarded = st.rewarded /\ st'.logged = st.logged
        /\ st'.owner = st.owner /\ st'.impl = st.impl
    BY <1>1, <1>8 DEF Receive, ContractState
  <2>3. st.balance \in Nat /\ st.drawn \in Nat /\ st.funded \in Nat
    BY <1>1 DEF ContractState
  <2> QED BY <1>3, <2>1, <2>2, <2>3
<1> QED BY <1>5, <1>6, <1>7, <1>8

-----------------------------------------------------------------------------
(* The three ways a step moves the states within reach. *)

\* A call that returns at once: only the current state moves.
LEMMA PlainStep ==
  ASSUME NEW p, NEW stk \in Seq(Frame), stk # <<>>,
         NEW c \in ContractState, NEW d \in ContractState, Consistent(p, stk, c),
         Marked(d), Balanced(p, d), Continues(c, d),
         d.rewarded = c.rewarded, d.logged = c.logged
  PROVE  Consistent(p, stk, d)
<1> DEFINE n == Len(stk)
<1>1. n \in Nat /\ n > 0
  OBVIOUS
<1>2. /\ \A i \in 1..n : At(stk, d, i) = At(stk, c, i)
      /\ At(stk, c, n + 1) = c /\ At(stk, d, n + 1) = d
  BY <1>1 DEF At
<1>3. c.rewarded = c.logged \cup Opens(stk, n) /\ Continues(At(stk, c, 1), c)
  BY <1>1, <1>2 DEF Consistent
<1>4. Continues(At(stk, d, 1), d)
  <2>1. At(stk, c, 1) \in ContractState
    BY <1>1, AtType
  <2> QED BY <1>1, <1>2, <1>3, <2>1, ContinuesTransitive
<1>5. SUFFICES ASSUME NEW i \in 1..n + 1
               PROVE  /\ Marked(At(stk, d, i)) /\ Balanced(p, At(stk, d, i))
                      /\ At(stk, d, i).rewarded = At(stk, d, i).logged \cup Opens(stk, i - 1)
                      /\ Continues(At(stk, d, 1), At(stk, d, i))
  BY DEF Consistent
<1>6. CASE i \in 1..n
  BY <1>1, <1>2, <1>6 DEF Consistent
<1>7. CASE i = n + 1
  BY <1>1, <1>2, <1>3, <1>4, <1>7
<1> QED BY <1>1, <1>6, <1>7

\* A call that waits: the state before it is saved in the new frame.
LEMMA PushStep ==
  ASSUME NEW p, NEW stk \in Seq(Frame),
         NEW c \in ContractState, NEW d \in ContractState, Consistent(p, stk, c),
         NEW f \in Frame, f.saved = c,
         Marked(d), Balanced(p, d), Continues(c, d),
         d.rewarded = c.rewarded \cup f.opens, d.logged = c.logged
  PROVE  Consistent(p, Append(stk, f), d)
<1> DEFINE n == Len(stk)
           new == Append(stk, f)
<1>1. n \in Nat
  OBVIOUS
<1>2. /\ \A i \in 1..n : new[i] = stk[i]
      /\ new[n + 1] = f
      /\ Len(new) = n + 1
  OBVIOUS
<1> HIDE DEF new
<1>3. /\ \A i \in 1..n + 1 : At(new, d, i) = At(stk, c, i)
      /\ At(stk, c, n + 1) = c /\ At(new, d, n + 2) = d
  BY <1>1, <1>2 DEF At
<1>4. \A i \in 0..n : Opens(new, i) = Opens(stk, i)
  BY <1>1, <1>2 DEF Opens
<1>5. Opens(new, n + 1) = Opens(stk, n) \cup f.opens
  BY <1>1, <1>2 DEF Opens, Frame
<1>6. c.rewarded = c.logged \cup Opens(stk, n) /\ Continues(At(stk, c, 1), c)
  BY <1>1, <1>3 DEF Consistent
<1>7. Continues(At(new, d, 1), d)
  <2>1. At(stk, c, 1) \in ContractState
    BY <1>1, AtType
  <2> QED BY <1>1, <1>3, <1>6, <2>1, ContinuesTransitive
<1>8. SUFFICES ASSUME NEW i \in 1..n + 2
               PROVE  /\ Marked(At(new, d, i)) /\ Balanced(p, At(new, d, i))
                      /\ At(new, d, i).rewarded = At(new, d, i).logged \cup Opens(new, i - 1)
                      /\ Continues(At(new, d, 1), At(new, d, i))
  BY <1>1, <1>2 DEF Consistent, new
<1>9. CASE i \in 1..n + 1
  BY <1>1, <1>3, <1>4, <1>9 DEF Consistent
<1>10. CASE i = n + 2
  BY <1>1, <1>3, <1>5, <1>6, <1>7, <1>10
<1> QED BY <1>1, <1>9, <1>10

\* A frame that ends leaves its caller's states as they were.
LEMMA PopStep ==
  ASSUME NEW p, NEW stk \in Seq(Frame), stk # <<>>,
         NEW c \in ContractState, NEW d \in ContractState, Consistent(p, stk, c),
         Marked(d), Balanced(p, d), Continues(At(stk, c, 1), d),
         d.rewarded = d.logged \cup Opens(stk, Len(stk) - 1)
  PROVE  Consistent(p, SubSeq(stk, 1, Len(stk) - 1), d)
<1> DEFINE n == Len(stk)
           new == SubSeq(stk, 1, n - 1)
<1>1. n \in Nat /\ n > 0
  OBVIOUS
<1>2. Len(new) = n - 1 /\ \A i \in 1..n - 1 : new[i] = stk[i]
  BY PopKeeps
<1> HIDE DEF new, n
<1>3. (\A i \in 1..n - 1 : At(new, d, i) = At(stk, c, i)) /\ At(new, d, n) = d
  BY <1>1, <1>2 DEF At, n
<1>4. \A i \in 0..n - 1 : Opens(new, i) = Opens(stk, i)
  BY <1>1, <1>2 DEF Opens
<1>5. Continues(At(new, d, 1), d)
  <2>1. CASE n = 1
    BY <1>3, <2>1, ContinuesItself
  <2>2. CASE n > 1
    BY <1>1, <1>3, <2>2
  <2> QED BY <1>1, <2>1, <2>2
<1>6. SUFFICES ASSUME NEW i \in 1..n
               PROVE  /\ Marked(At(new, d, i)) /\ Balanced(p, At(new, d, i))
                      /\ At(new, d, i).rewarded = At(new, d, i).logged \cup Opens(new, i - 1)
                      /\ Continues(At(new, d, 1), At(new, d, i))
  BY <1>1, <1>2 DEF Consistent, new, n
<1>7. CASE i \in 1..n - 1
  BY <1>1, <1>3, <1>4, <1>7 DEF Consistent, n
<1>8. CASE i = n
  BY <1>1, <1>3, <1>4, <1>5, <1>8 DEF n
<1> QED BY <1>1, <1>7, <1>8

-----------------------------------------------------------------------------
(* The inductive invariant and what follows from it. *)

\* The current state is the last one within reach.
LEMMA CurrentIsConsistent ==
  ASSUME TypeOK, CallsAreConsistent
  PROVE  /\ Marked(st) /\ Balanced(params, st)
         /\ st.rewarded = st.logged \cup Opens(stack, Len(stack))
         /\ Continues(At(stack, st, 1), st)
<1>1. Len(stack) \in Nat
  BY DEF TypeOK
<1>2. Len(stack) + 1 \in 1..Len(stack) + 1 /\ At(stack, st, Len(stack) + 1) = st
  BY <1>1 DEF At
<1> QED BY <1>1, <1>2 DEF CallsAreConsistent, Consistent

\* An empty ledger under new terms is balanced.
LEMMA EmptyLedger ==
  ASSUME NEW c \in ContractState, Marked(c), Balanced(NotDeployed, c), NEW p \in Params
  PROVE  Balanced(p, c)
<1>1. c.balance = 0 /\ c.drawn = 0 /\ c.funded = 0 /\ c.rewarded = {}
  BY DEF Balanced
<1>2. PaidOutside(c) = {}
  BY <1>1, ConstantsAssumption DEF Marked, PaidOutside, Address
<1>3. p.rewardAmount * Cardinality(PaidOutside(c)) = 0
  <2>1. Cardinality(PaidOutside(c)) = 0
    BY <1>2, FS_EmptySet
  <2>2. p.rewardAmount \in Nat
    BY DEF Params
  <2> QED BY <2>1, <2>2
<1>4. p # NotDeployed
  BY ConstantsAssumption
<1> QED BY <1>1, <1>3, <1>4 DEF Balanced

\* The invariant holds before the deployment ...
LEMMA ConsistentInit == Init => CallsAreConsistent
<1> SUFFICES ASSUME Init PROVE Consistent(params, stack, st)
  BY DEF CallsAreConsistent
<1>1. /\ params = NotDeployed /\ stack = <<>>
      /\ st.balance = 0 /\ st.drawn = 0 /\ st.funded = 0
      /\ st.rewarded = {} /\ st.logged = {} /\ st.owner = NoOne
      /\ st.paid = [s \in Index |-> 0] /\ st.payee = [s \in Index |-> NoOne]
  BY DEF Init
<1>2. Marked(st) /\ Balanced(params, st)
  BY <1>1 DEF Marked, Balanced
<1>3. \A i \in 1..Len(stack) + 1 : i = 1 /\ At(stack, st, i) = st
  BY <1>1 DEF At
<1>4. Opens(stack, 0) = {}
  BY DEF Opens
<1>5. Continues(st, st)
  BY <1>1 DEF Continues
<1> QED BY <1>1, <1>2, <1>3, <1>4, <1>5 DEF Consistent

\* ... and every action keeps it.
LEMMA ConsistentNext ==
  TypeOK /\ TypeOK' /\ CallsAreConsistent /\ [Next]_vars => CallsAreConsistent'
<1> SUFFICES ASSUME TypeOK, TypeOK', CallsAreConsistent, [Next]_vars
             PROVE  Consistent(params', stack', st')
  BY DEF CallsAreConsistent
<1> DEFINE n == Len(stack)
<1>1. /\ stack \in Seq(Frame) /\ st \in ContractState /\ st' \in ContractState /\ n \in Nat
      /\ Consistent(params, stack, st)
  BY DEF TypeOK, CallsAreConsistent
<1>2. /\ Marked(st) /\ Balanced(params, st) /\ Continues(st, st)
      /\ st.rewarded = st.logged \cup Opens(stack, n) /\ Continues(At(stack, st, 1), st)
  BY <1>1, CurrentIsConsistent, ContinuesItself
<1>3. ASSUME NEW p \in DeployParams, Deploy(p) PROVE Consistent(params', stack', st')
  <2>1. /\ stack = <<>> /\ stack' = stack /\ params = NotDeployed /\ params' = p
        /\ st' = [st EXCEPT !.owner = p.owner]
    BY <1>3 DEF Deploy, Initialize
  <2>2. /\ st'.paid = st.paid /\ st'.payee = st.payee /\ st'.rewarded = st.rewarded
        /\ st'.logged = st.logged /\ st'.balance = st.balance
        /\ st'.drawn = st.drawn /\ st'.funded = st.funded
    BY <1>1, <2>1 DEF ContractState
  <2>3. p \in Params
    BY ConstantsAssumption
  <2>4. Marked(st')
    BY <1>2, <2>2 DEF Marked
  <2>5. Balanced(p, st')
    <3>1. Balanced(p, st)
      BY <1>1, <1>2, <2>1, <2>3, EmptyLedger
    <3>2. PaidOutside(st') = PaidOutside(st)
      BY <2>2 DEF PaidOutside
    <3>3. p # NotDeployed
      BY <2>3, ConstantsAssumption
    <3> QED BY <2>2, <3>1, <3>2, <3>3 DEF Balanced
  <2>6. \A i \in 1..Len(stack') + 1 : i = 1 /\ At(stack', st', i) = st'
    BY <2>1 DEF At
  <2>7. st'.rewarded = st'.logged \cup Opens(stack', 0)
    BY <1>2, <2>1, <2>2 DEF Opens
  <2>8. Continues(st', st') /\ 1 \in 1..Len(stack') + 1
    BY <1>1, <2>1, ContinuesItself
  <2>9. Consistent(p, stack', st')
    BY <2>4, <2>5, <2>6, <2>7, <2>8 DEF Consistent
  <2> QED BY <2>1, <2>9
<1>4. CASE BeginTx
  <2> DEFINE f == [callee |-> NoOne, opens |-> {}, saved |-> st]
  <2>1. stack' = Append(stack, f) /\ st' = st /\ params' = params
    BY <1>4 DEF BeginTx, Push
  <2>2. f \in Frame
    BY <1>1 DEF Frame
  <2>3. st.rewarded = st.rewarded \cup f.opens /\ f.saved = st
    OBVIOUS
  <2> HIDE DEF f
  <2>4. Consistent(params, Append(stack, f), st)
    BY <1>1, <1>2, <2>2, <2>3, PushStep
  <2> QED BY <2>1, <2>4
<1>5. ASSUME NEW a \in ClaimArgs, ClaimReward(a) PROVE Consistent(params', stack', st')
  <2> DEFINE f == [callee |-> a.sourceCredentials.addr, opens |-> {a.sourceIndex}, saved |-> st]
  <2>1. stack' = Append(stack, f) /\ params' = params
    BY <1>5 DEF ClaimReward, Push
  <2>2. f \in Frame
    BY <1>1 DEF Frame, ClaimArgs, Credentials
  <2>3. f.opens = {a.sourceIndex} /\ f.saved = st
    OBVIOUS
  <2> HIDE DEF f
  <2>4. Consistent(params, Append(stack, f), st')
    BY <1>1, <1>2, <1>5, <2>2, <2>3, ClaimKeepsBooks, PushStep
  <2> QED BY <2>1, <2>4
<1>6. ASSUME NEW c \in Account, NEW to \in Address, NEW v \in Amount, Withdraw(c, to, v)
      PROVE  Consistent(params', stack', st')
  <2> DEFINE f == [callee |-> to, opens |-> {}, saved |-> st]
  <2>1. stack' = Append(stack, f) /\ params' = params
    BY <1>6 DEF Withdraw, Push
  <2>2. f \in Frame
    BY <1>1 DEF Frame
  <2>3. st.rewarded = st.rewarded \cup f.opens /\ f.saved = st
    OBVIOUS
  <2> HIDE DEF f
  <2>4. Consistent(params, Append(stack, f), st')
    BY <1>1, <1>2, <1>6, <2>2, <2>3, AdminKeepsBooks, PushStep
  <2> QED BY <2>1, <2>4
<1>7. ASSUME \/ \E c \in Account, o \in Account \cup {NoOne} : TransferOwnership(c, o)
             \/ \E c \in Account, i \in Impl : UpgradeTo(c, i)
             \/ \E v \in Amount : Receive(v)
      PROVE  Consistent(params', stack', st')
  <2>1. stack # <<>> /\ stack' = stack /\ params' = params
    BY <1>7 DEF TransferOwnership, UpgradeTo, Receive, Running
  <2>2. /\ Marked(st') /\ Balanced(params, st') /\ Continues(st, st')
        /\ st'.rewarded = st.rewarded /\ st'.logged = st.logged
    BY <1>2, <1>7, AdminKeepsBooks
  <2> QED BY <1>1, <2>1, <2>2, PlainStep
<1>8. CASE Return
  <2>1. /\ stack # <<>> /\ stack' = SubSeq(stack, 1, n - 1) /\ params' = params
        /\ st' = [st EXCEPT !.logged = @ \cup Top.opens]
    BY <1>8 DEF Return, Pop
  <2>2. /\ st'.paid = st.paid /\ st'.payee = st.payee /\ st'.rewarded = st.rewarded
        /\ st'.logged = st.logged \cup Top.opens /\ st'.balance = st.balance
        /\ st'.drawn = st.drawn /\ st'.funded = st.funded
        /\ st'.owner = st.owner /\ st'.impl = st.impl
    BY <1>1, <2>1 DEF ContractState
  <2>3. Marked(st') /\ Balanced(params, st')
    <3>1. PaidOutside(st') = PaidOutside(st)
      BY <2>2 DEF PaidOutside
    <3> QED BY <1>2, <2>2, <3>1 DEF Marked, Balanced
  <2>4. Continues(At(stack, st, 1), st')
    BY <1>2, <2>2 DEF Continues
  <2>5. st'.rewarded = st'.logged \cup Opens(stack, n - 1)
    <3>1. n > 0 /\ Top \in Frame
      BY <1>1, <2>1, PopType
    <3>2. Opens(stack, n) = Opens(stack, n - 1) \cup Top.opens
      BY <1>1, <3>1 DEF Opens, Top, Frame
    <3> QED BY <1>2, <2>2, <3>2
  <2> QED BY <1>1, <2>1, <2>3, <2>4, <2>5, PopStep
<1>9. CASE Revert
  <2>1. /\ stack # <<>> /\ stack' = SubSeq(stack, 1, n - 1) /\ params' = params
        /\ st' = stack[n].saved
    BY <1>9 DEF Revert, Pop, Top
  <2>2. n \in 1..n + 1 /\ At(stack, st, n) = st'
    BY <1>1, <2>1 DEF At
  <2>3. /\ Marked(st') /\ Balanced(params, st') /\ Continues(At(stack, st, 1), st')
        /\ st'.rewarded = st'.logged \cup Opens(stack, n - 1)
    BY <1>1, <2>2 DEF Consistent
  <2> QED BY <1>1, <2>1, <2>3, PopStep
<1>10. ASSUME NEW t \in 1..MaxTime, NewBlock(t) PROVE Consistent(params', stack', st')
  BY <1>1, <1>10 DEF NewBlock
<1>11. CASE UNCHANGED vars
  BY <1>1, <1>11 DEF vars
<1> QED BY <1>3, <1>4, <1>5, <1>6, <1>7, <1>8, <1>9, <1>10, <1>11 DEF Next

\* The inductive invariant holds in every reachable state.
THEOREM ConsistencyHolds == Spec => []CallsAreConsistent
<1>1. TypeOK /\ TypeOK' /\ CallsAreConsistent /\ [Next]_vars => CallsAreConsistent'
  BY ConsistentNext
<1> QED BY <1>1, ConsistentInit, TypeCorrect, PTL DEF Spec

\* No interleaving of callbacks, reverts and upgrades pays a validator twice or
\* leaves its mark and its payment apart.
THEOREM NoDoubleRewardHolds == Spec => []NoDoubleReward
<1>1. TypeOK /\ CallsAreConsistent => NoDoubleReward
  BY CurrentIsConsistent DEF NoDoubleReward, Marked
<1> QED BY <1>1, ConsistencyHolds, TypeCorrect, PTL

\* The contract never owes more than it has, and can account for every unit.
THEOREM SolvencyHolds == Spec => []Solvency
<1>1. TypeOK /\ CallsAreConsistent => Solvency
  BY CurrentIsConsistent DEF Solvency, Balanced
<1> QED BY <1>1, ConsistencyHolds, TypeCorrect, PTL

\* Between transactions the event log and the marks agree.
THEOREM LogMatchesMarksHolds == Spec => []LogMatchesMarks
<1>1. TypeOK /\ CallsAreConsistent => LogMatchesMarks
  <2> SUFFICES ASSUME TypeOK, CallsAreConsistent, stack = <<>> PROVE st.logged = st.rewarded
    BY DEF LogMatchesMarks
  <2>1. Opens(stack, Len(stack)) = {}
    BY DEF Opens
  <2> QED BY <2>1, CurrentIsConsistent DEF TypeOK, ContractState
<1> QED BY <1>1, ConsistencyHolds, TypeCorrect, PTL

\* No step but the deployment moves the committed state except forward.
LEMMA CommittedContinues ==
  ASSUME TypeOK, TypeOK', CallsAreConsistent, [Next]_vars,
         ~ \E p \in DeployParams : Deploy(p)
  PROVE  Continues(Committed, Committed') /\ params' = params
<1>1. stack \in Seq(Frame) /\ Len(stack) \in Nat /\ Consistent(params, stack, st)
  BY DEF TypeOK, CallsAreConsistent
<1>2. /\ Committed = At(stack, st, 1) /\ Continues(Committed, st)
      /\ Committed \in ContractState /\ Continues(Committed, Committed)
  <2>1. Committed = At(stack, st, 1)
    BY <1>1 DEF Committed, At
  <2>2. Committed \in ContractState
    BY <1>1, <2>1, AtType DEF TypeOK
  <2> QED BY <2>1, <2>2, CurrentIsConsistent, ContinuesItself
<1>3. ASSUME NEW callee, NEW opens, Push(callee, opens)
      PROVE  Committed' = Committed
  <2> DEFINE f == [callee |-> callee, opens |-> opens, saved |-> st]
  <2>1. stack' = Append(stack, f) /\ f.saved = st
    BY <1>3 DEF Push
  <2> HIDE DEF f
  <2>2. stack' # <<>> /\ stack'[1] = IF stack = <<>> THEN f ELSE stack[1]
    BY <1>1, <2>1
  <2> QED BY <2>1, <2>2 DEF Committed
<1>4. ASSUME stack # <<>>, stack' = stack
      PROVE  Committed' = Committed
  BY <1>4 DEF Committed
<1>5. ASSUME stack # <<>>, Pop, Continues(Committed, st')
      PROVE  Continues(Committed, Committed')
  <2>1. CASE Len(stack) = 1
    <3>1. stack' = <<>>
      BY <1>1, <1>5, <2>1 DEF Pop
    <3> QED BY <1>5, <3>1 DEF Committed
  <2>2. CASE Len(stack) > 1
    <3>1. stack' # <<>> /\ stack'[1] = stack[1]
      <4>1. Len(stack') = Len(stack) - 1 /\ \A i \in 1..Len(stack) - 1 : stack'[i] = stack[i]
        BY <1>1, <1>5, PopKeeps DEF Pop
      <4>2. 1 \in 1..Len(stack) - 1 /\ Len(stack') # 0
        BY <1>1, <2>2, <4>1
      <4>3. Len(<<>>) = 0
        OBVIOUS
      <4> QED BY <4>1, <4>2, <4>3
    <3>2. Committed' = Committed
      BY <1>5, <3>1 DEF Committed
    <3> QED BY <1>2, <3>2, Zenon
  <2>3. Len(stack) = 1 \/ Len(stack) > 1
    <3>1. Len(stack) \in Nat \ {0}
      BY <1>1, <1>5, PopType
    <3>2. \A k \in Nat \ {0} : k = 1 \/ k > 1
      OBVIOUS
    <3> QED BY <3>1, <3>2, Zenon
  <2> QED BY <2>1, <2>2, <2>3, Zenon
<1>6. CASE BeginTx
  BY <1>2, <1>3, <1>6 DEF BeginTx
<1>7. ASSUME NEW a \in ClaimArgs, ClaimReward(a)
      PROVE  Continues(Committed, Committed') /\ params' = params
  BY <1>2, <1>3, <1>7 DEF ClaimReward
<1>8. ASSUME NEW c \in Account, NEW to \in Address, NEW v \in Amount, Withdraw(c, to, v)
      PROVE  Continues(Committed, Committed') /\ params' = params
  BY <1>2, <1>3, <1>8 DEF Withdraw
<1>9. ASSUME \/ \E c \in Account, o \in Account \cup {NoOne} : TransferOwnership(c, o)
             \/ \E c \in Account, i \in Impl : UpgradeTo(c, i)
             \/ \E v \in Amount : Receive(v)
      PROVE  Continues(Committed, Committed') /\ params' = params
  BY <1>2, <1>4, <1>9 DEF TransferOwnership, UpgradeTo, Receive, Running
<1>10. CASE Return
  <2>1. st' = [st EXCEPT !.logged = @ \cup Top.opens]
    BY <1>10 DEF Return
  <2>2. Continues(st, st')
    BY <2>1 DEF Continues, TypeOK, ContractState
  <2>3. st \in ContractState /\ st' \in ContractState
    BY DEF TypeOK
  <2>4. Continues(Committed, st')
    BY <1>2, <2>2, <2>3, ContinuesTransitive
  <2> QED BY <1>5, <1>10, <2>4 DEF Return
<1>11. CASE Revert
  <2>1. stack # <<>> /\ st' = stack[Len(stack)].saved
    BY <1>11 DEF Revert, Top
  <2>2. Len(stack) \in 1..Len(stack) + 1 /\ At(stack, st, Len(stack)) = st'
    BY <1>1, <2>1 DEF At
  <2>3. Continues(Committed, st')
    BY <1>1, <1>2, <2>2 DEF Consistent
  <2> QED BY <1>5, <1>11, <2>3 DEF Revert
<1>12. ASSUME NEW t \in 1..MaxTime, NewBlock(t)
       PROVE  Continues(Committed, Committed') /\ params' = params
  BY <1>2, <1>12 DEF NewBlock, Committed
<1>13. CASE UNCHANGED vars
  BY <1>2, <1>13 DEF vars, Committed
<1> QED BY <1>6, <1>7, <1>8, <1>9, <1>10, <1>11, <1>12, <1>13 DEF Next

\* At the deployment no reward has been paid yet.
LEMMA NothingPaidAtDeployment ==
  ASSUME TypeOK, CallsAreConsistent, NEW p \in DeployParams, Deploy(p)
  PROVE  params = NotDeployed /\ Committed.rewarded = {}
<1>1. params = NotDeployed /\ Committed = st
  BY DEF Deploy, Initialize, Committed
<1> QED BY <1>1, CurrentIsConsistent DEF Balanced

\* No step takes back or redirects a reward of the committed state.
LEMMA CommittedIsKept ==
  ASSUME TypeOK, TypeOK', CallsAreConsistent, [Next]_vars, NEW s \in Committed.rewarded
  PROVE  s \in Committed'.rewarded /\ Committed'.payee[s] = Committed.payee[s]
<1>1. CASE \E p \in DeployParams : Deploy(p)
  BY <1>1, NothingPaidAtDeployment
<1>2. CASE ~ \E p \in DeployParams : Deploy(p)
  BY <1>2, CommittedContinues DEF Continues
<1> QED BY <1>1, <1>2

\* A reward that a completed transaction paid is never taken back or redirected.
THEOREM RewardsArePermanentHolds == Spec => RewardsArePermanent
<1> DEFINE Kept == \A s \in Committed.rewarded :
                     s \in Committed'.rewarded /\ Committed'.payee[s] = Committed.payee[s]
<1>1. TypeOK /\ TypeOK' /\ CallsAreConsistent /\ [Next]_vars => [Kept]_vars
  BY CommittedIsKept
<1> QED BY <1>1, ConsistencyHolds, TypeCorrect, PTL DEF Spec, RewardsArePermanent

\* Renouncing ownership ends withdrawals, upgrades and changes of owner for good.
THEOREM RenouncedIsFinalHolds == Spec => RenouncedIsFinal
<1> DEFINE Kept == params # NotDeployed /\ Committed.owner = NoOne =>
                     /\ Committed'.owner = NoOne
                     /\ Committed'.impl = Committed.impl
                     /\ Committed'.drawn = Committed.drawn
<1>1. TypeOK /\ TypeOK' /\ CallsAreConsistent /\ [Next]_vars => [Kept]_vars
  <2> SUFFICES ASSUME TypeOK, TypeOK', CallsAreConsistent, [Next]_vars PROVE Kept
    OBVIOUS
  <2>1. CASE \E p \in DeployParams : Deploy(p)
    BY <2>1, NothingPaidAtDeployment
  <2>2. CASE ~ \E p \in DeployParams : Deploy(p)
    BY <2>2, CommittedContinues DEF Continues
  <2> QED BY <2>1, <2>2
<1> QED BY <1>1, ConsistencyHolds, TypeCorrect, PTL DEF Spec, RenouncedIsFinal

-----------------------------------------------------------------------------
(* The chain. *)

\* Transactions leave the chain alone.
LEMMA OnlyBlocksMoveTheChain ==
  ASSUME [Next]_vars
  PROVE  (\E t \in 1..MaxTime : NewBlock(t)) \/ UNCHANGED chain
BY DEF Next, vars, chain, Deploy, BeginTx, ClaimReward, Withdraw, TransferOwnership,
       UpgradeTo, Receive, Return, Revert

\* What a beacon state says of a validator is true of it later on.
LEMMA ExtendsTransitive ==
  ASSUME NEW u, NEW v, NEW w, Extends(u, v), Extends(v, w)
  PROVE  Extends(u, w)
BY DEF Extends

\* A block only extends the registry, and only a validator that was never pending
\* becomes pending, at the time of the block.
LEMMA BlockExtends ==
  ASSUME TypeOK, NEW t \in 1..MaxTime, NewBlock(t), NEW s \in Index
  PROVE  /\ Extends(head.validators[s], head'.validators[s])
         /\ entered'[s] = entered[s] \/ (entered[s] = -1 /\ entered'[s] = t)
         /\ s \in head'.pending => s \in head.pending \/ entered'[s] = t
<1> USE ConstantsAssumption
<1>1. /\ head.validators \in [Index -> Validator] /\ head.pending \in SUBSET Index
      /\ head.validators[s] \in Validator
      /\ entered \in [Index -> Int] /\ head \in BeaconState
  BY DEF TypeOK, BeaconState
<1>2. CASE UNCHANGED <<head, entered>>
  BY <1>1, <1>2 DEF Extends
<1>3. ASSUME NEW v \in Index, CredentialChange(v)
      PROVE  /\ Extends(head.validators[s], head'.validators[s])
             /\ entered' = entered /\ head'.pending = head.pending
  <2>1. PICK p \in 1..2, to \in Address :
          /\ head.validators[v].creds.prefix > 0 => to = head.validators[v].creds.addr
          /\ head' = [head EXCEPT !.validators[v].creds = [prefix |-> p, addr |-> to]]
          /\ entered' = entered
    BY <1>3 DEF CredentialChange
  <2>2. /\ head'.pending = head.pending
        /\ head'.validators = [head.validators EXCEPT ![v].creds = [prefix |-> p, addr |-> to]]
    BY <1>1, <2>1 DEF BeaconState
  <2>3. CASE v = s
    <3>1. head'.validators[s] = [head.validators[s] EXCEPT !.creds = [prefix |-> p, addr |-> to]]
      BY <1>1, <2>2, <2>3
    <3>2. /\ head'.validators[s].creds = [prefix |-> p, addr |-> to]
          /\ head'.validators[s].activation = head.validators[s].activation
      BY <1>1, <3>1 DEF Validator
    <3>3. head.validators[s].creds.prefix \in 0..2
      BY <1>1 DEF Validator, Credentials
    <3> QED BY <2>1, <2>2, <2>3, <3>2, <3>3 DEF Extends
  <2>4. CASE v # s
    BY <1>1, <2>1, <2>2, <2>4 DEF Extends
  <2> QED BY <2>3, <2>4
<1>4. ASSUME NEW v \in Index, Activation(v)
      PROVE  /\ Extends(head.validators[s], head'.validators[s])
             /\ entered' = entered /\ head'.pending = head.pending
  <2>1. PICK e \in Epoch :
          /\ head.validators[v].activation = FarFuture
          /\ head' = [head EXCEPT !.validators[v].activation = e]
          /\ entered' = entered
    BY <1>4 DEF Activation
  <2>2. /\ head'.pending = head.pending
        /\ head'.validators = [head.validators EXCEPT ![v].activation = e]
    BY <1>1, <2>1 DEF BeaconState
  <2>3. CASE v = s
    <3>1. head'.validators[s] = [head.validators[s] EXCEPT !.activation = e]
      BY <1>1, <2>2, <2>3
    <3>2. head'.validators[s].creds = head.validators[s].creds
      BY <1>1, <3>1 DEF Validator
    <3> QED BY <2>1, <2>2, <2>3, <3>2 DEF Extends
  <2>4. CASE v # s
    BY <1>1, <2>1, <2>2, <2>4 DEF Extends
  <2> QED BY <2>3, <2>4
<1>5. ASSUME NEW v \in Index, ConsolidationRequest(v)
      PROVE  /\ head'.validators = head.validators
             /\ head'.pending = head.pending \cup {v}
             /\ entered[v] = -1 /\ entered' = [entered EXCEPT ![v] = now']
  BY <1>1, <1>5 DEF ConsolidationRequest, BeaconState
<1>6. ASSUME NEW v \in Index, ConsolidationDone(v)
      PROVE  /\ head'.validators = head.validators
             /\ head'.pending = head.pending \ {v}
             /\ entered' = entered
  BY <1>1, <1>6 DEF ConsolidationDone, BeaconState
<1>7. Extends(head.validators[s], head.validators[s])
  BY DEF Extends
<1>8. now' = t
  BY DEF NewBlock
<1> QED BY <1>1, <1>2, <1>3, <1>4, <1>5, <1>6, <1>7, <1>8 DEF NewBlock

\* The roots in the oracle stay true of a chain that grows.
LEMMA ChainNext ==
  TypeOK /\ TypeOK' /\ ChainIsTruthful /\ [Next]_vars => ChainIsTruthful'
<1> SUFFICES ASSUME TypeOK, TypeOK', ChainIsTruthful, [Next]_vars PROVE ChainIsTruthful'
  OBVIOUS
<1> USE ConstantsAssumption
<1>1. ASSUME NEW t \in 1..MaxTime, NewBlock(t) PROVE ChainIsTruthful'
  <2>1. now' = t /\ now < t /\ oracle' = OracleWrite(t) /\ t \in Nat
    BY <1>1 DEF NewBlock
  <2>2. /\ now \in Nat
        /\ oracle \in [0..BufferLength - 1 -> [ts : Nat, root : BeaconState] \cup {NoEntry}]
        /\ entered \in [Index -> Int] /\ entered' \in [Index -> Int]
    BY DEF TypeOK
  <2>3. ASSUME NEW s \in Index
        PROVE  /\ entered'[s] \in -1..now'
               /\ s \in head'.pending => entered'[s] >= 0
    <3>1. entered[s] \in -1..now /\ (s \in head.pending => entered[s] >= 0)
      BY DEF ChainIsTruthful
    <3> QED BY <1>1, <2>1, <2>2, <3>1, BlockExtends
  <2>4. ASSUME NEW i \in 0..BufferLength - 1, oracle'[i] # NoEntry
        PROVE  Truthful(i, oracle[i])'
    <3>1. CASE i = t % BufferLength
      <4>1. oracle'[i] = [ts |-> t, root |-> head]
        BY <2>1, <2>2, <3>1 DEF OracleWrite
      <4>2. /\ oracle'[i].ts = t /\ oracle'[i].root = head
        BY <4>1
      <4>3. ASSUME NEW s \in Index
            PROVE  /\ s \in head.pending => 0 <= entered'[s] /\ entered'[s] < t
                   /\ Extends(head.validators[s], head'.validators[s])
        <5>1. entered[s] \in -1..now /\ (s \in head.pending => entered[s] >= 0)
          BY DEF ChainIsTruthful
        <5>2. entered[s] # -1 => entered'[s] = entered[s]
          BY <1>1, BlockExtends
        <5>3. Extends(head.validators[s], head'.validators[s])
          BY <1>1, BlockExtends
        <5> QED BY <2>1, <2>2, <5>1, <5>2, <5>3
      <4> QED BY <2>1, <3>1, <4>2, <4>3 DEF Truthful
    <3>2. CASE i # t % BufferLength
      <4>1. oracle'[i] = oracle[i]
        BY <2>1, <2>2, <3>2 DEF OracleWrite
      <4>2. Truthful(i, oracle[i]) /\ oracle[i].ts \in Nat
        BY <2>2, <2>4, <4>1 DEF ChainIsTruthful
      <4>3. oracle[i].ts <= now'
        BY <2>1, <2>2, <4>2 DEF Truthful
      <4>4. ASSUME NEW s \in Index
            PROVE  /\ s \in oracle[i].root.pending =>
                        0 <= entered'[s] /\ entered'[s] < oracle[i].ts
                   /\ Extends(oracle[i].root.validators[s], head'.validators[s])
        <5>1. /\ s \in oracle[i].root.pending => 0 <= entered[s] /\ entered[s] < oracle[i].ts
              /\ Extends(oracle[i].root.validators[s], head.validators[s])
          BY <4>2 DEF Truthful
        <5>2. entered[s] # -1 => entered'[s] = entered[s]
          BY <1>1, BlockExtends
        <5>3. Extends(head.validators[s], head'.validators[s])
          BY <1>1, BlockExtends
        <5>4. Extends(oracle[i].root.validators[s], head'.validators[s])
          BY <5>1, <5>3, ExtendsTransitive
        <5> QED BY <5>1, <5>2, <5>4
      <4> QED BY <4>1, <4>2, <4>3, <4>4 DEF Truthful
    <3> QED BY <3>1, <3>2
  <2>5. DOMAIN oracle' = 0..BufferLength - 1
    BY DEF TypeOK
  <2>6. ASSUME NEW i \in DOMAIN oracle', oracle'[i] # NoEntry
        PROVE  Truthful(i, oracle[i])'
    BY <2>4, <2>5, <2>6
  <2> QED BY <2>3, <2>6 DEF ChainIsTruthful
<1>2. CASE UNCHANGED chain
  BY <1>2 DEF chain, ChainIsTruthful, Truthful
<1>3. (\E t \in 1..MaxTime : NewBlock(t)) \/ UNCHANGED chain
  BY OnlyBlocksMoveTheChain
<1> QED BY <1>1, <1>2, <1>3

\* At genesis every pending validator entered at time 0, and no root is stored.
LEMMA ChainInit == Init => ChainIsTruthful
<1> SUFFICES ASSUME Init PROVE ChainIsTruthful
  OBVIOUS
<1>1. /\ now = 0 /\ head.pending = GenesisQueue
      /\ \A s \in Index : entered[s] = IF s \in GenesisQueue THEN 0 ELSE -1
      /\ \A i \in DOMAIN oracle : oracle[i] = NoEntry
  BY DEF Init
<1> QED BY <1>1 DEF ChainIsTruthful

-----------------------------------------------------------------------------
(* The rewards. *)

\* A step leaves the stack, pushes a frame that saves the present, or pops one.
LEMMA StackNext ==
  ASSUME [Next]_vars
  PROVE  \/ stack' = stack
         \/ \E f : f.saved = st /\ stack' = Append(stack, f)
         \/ stack # <<>> /\ Pop
<1>1. ASSUME NEW callee, NEW opens, Push(callee, opens)
      PROVE  \E f : f.saved = st /\ stack' = Append(stack, f)
  <2> DEFINE f == [callee |-> callee, opens |-> opens, saved |-> st]
  <2>1. f.saved = st /\ stack' = Append(stack, f)
    BY <1>1 DEF Push
  <2> QED BY <2>1
<1>2. CASE BeginTx
  BY <1>1, <1>2 DEF BeginTx
<1>3. ASSUME NEW a \in ClaimArgs, ClaimReward(a)
      PROVE  \E f : f.saved = st /\ stack' = Append(stack, f)
  BY <1>1, <1>3 DEF ClaimReward
<1>4. ASSUME NEW c \in Account, NEW to \in Address, NEW v \in Amount, Withdraw(c, to, v)
      PROVE  \E f : f.saved = st /\ stack' = Append(stack, f)
  BY <1>1, <1>4 DEF Withdraw
<1> QED BY <1>2, <1>3, <1>4 DEF Next, vars, Deploy, TransferOwnership, UpgradeTo, Receive,
           Return, Revert, NewBlock

\* A frame stays as it is for as long as it is on the stack.
LEMMA FramesStay ==
  ASSUME TypeOK, [Next]_vars, NEW k \in 1..Len(stack), k <= Len(stack')
  PROVE  stack'[k] = stack[k]
<1>1. stack \in Seq(Frame) /\ Len(stack) \in Nat
  BY DEF TypeOK
<1>2. ASSUME NEW f, stack' = Append(stack, f) PROVE stack'[k] = stack[k]
  BY <1>1, <1>2
<1>3. ASSUME stack # <<>>, Pop PROVE stack'[k] = stack[k]
  BY <1>1, <1>3, PopKeeps DEF Pop
<1> QED BY <1>2, <1>3, StackNext

\* After a step every state within reach is the new one or was within reach.
LEMMA ReachNext ==
  ASSUME TypeOK, [Next]_vars, NEW i \in 1..Len(stack') + 1
  PROVE  \/ At(stack', st', i) = st'
         \/ \E j \in 1..Len(stack) + 1 : At(stack', st', i) = At(stack, st, j)
<1> DEFINE n == Len(stack)
<1>1. stack \in Seq(Frame) /\ n \in Nat
  BY DEF TypeOK
<1>2. ASSUME stack' = stack PROVE At(stack', st', i) = st' \/ (i \in 1..n /\ At(stack', st', i) = At(stack, st, i))
  BY <1>1, <1>2 DEF At
<1>3. ASSUME NEW f, f.saved = st, stack' = Append(stack, f)
      PROVE  \/ At(stack', st', i) = st'
             \/ i \in 1..n + 1 /\ At(stack', st', i) = At(stack, st, i)
  <2>1. Len(stack') = n + 1 /\ stack'[n + 1] = f /\ \A j \in 1..n : stack'[j] = stack[j]
    BY <1>1, <1>3
  <2>2. CASE i \in 1..n
    BY <1>1, <2>1, <2>2 DEF At
  <2>3. CASE i = n + 1
    BY <1>1, <1>3, <2>1, <2>3 DEF At
  <2>4. CASE i = n + 2
    BY <1>1, <2>1, <2>4 DEF At
  <2> QED BY <1>1, <2>1, <2>2, <2>3, <2>4
<1>4. ASSUME stack # <<>>, Pop
      PROVE  \/ At(stack', st', i) = st'
             \/ i \in 1..n /\ At(stack', st', i) = At(stack, st, i)
  <2>1. Len(stack') = n - 1 /\ \A j \in 1..n - 1 : stack'[j] = stack[j]
    BY <1>1, <1>4, PopKeeps DEF Pop
  <2>2. n > 0
    BY <1>1, <1>4, PopType
  <2> QED BY <1>1, <2>1, <2>2 DEF At
<1> QED BY <1>1, <1>2, <1>3, <1>4, StackNext

\* A claim that passes the checks pays what is due, at any age of its root.
LEMMA ClaimIsDue ==
  ASSUME TypeOK, TypeOK', CallsAreConsistent, RewardsAreDue, NEW a \in ClaimArgs, ClaimReward(a)
  PROVE  Due(st)'
<1> USE ConstantsAssumption
<1> DEFINE s == a.sourceIndex
           i == a.beaconTimestamp % BufferLength
           e == oracle[i]
<1>1. /\ params' = params /\ UNCHANGED chain
      /\ params # NotDeployed /\ params \in Params /\ st \in ContractState
      /\ a.beaconTimestamp \in Nat /\ s \in Index /\ a.sourceCredentials \in Credentials
      /\ now \in Nat /\ a.activationEpoch \in Epoch
  BY DEF ClaimReward, TypeOK, ClaimArgs
<1>2. st' = [st EXCEPT !.rewarded = @ \cup {s},
                       !.balance = @ - Outgoing(a.sourceCredentials.addr, params.rewardAmount),
                       !.paid[s] = @ + 1, !.payee[s] = a.sourceCredentials.addr]
  BY DEF ClaimReward
<1>3. /\ st'.rewarded = st.rewarded \cup {s}
      /\ st'.payee = [st.payee EXCEPT ![s] = a.sourceCredentials.addr]
  BY <1>1, <1>2 DEF ContractState
<1>4. /\ e # NoEntry /\ e.ts = a.beaconTimestamp
      /\ s \in e.root.pending
      /\ e.root.validators[s].creds = a.sourceCredentials
      /\ e.root.validators[s].activation = a.activationEpoch
      /\ ~ now < e.ts + params.minClaimDelay
      /\ a.activationEpoch < params.maxEpoch
      /\ a.sourceCredentials.prefix \in {1, 2}
  BY DEF ClaimReward, CanClaim, Found, Proves, Root, Eligible, TooRecent
<1>5. Due(st)
  <2>1. Len(stack) + 1 \in 1..Len(stack) + 1 /\ At(stack, st, Len(stack) + 1) = st
    BY DEF TypeOK, At
  <2> QED BY <2>1 DEF RewardsAreDue
<1>6. Truthful(i, e)
  <2>1. i \in DOMAIN oracle
    BY <1>1 DEF TypeOK
  <2> QED BY <1>4, <2>1 DEF RewardsAreDue, ChainIsTruthful
<1>7. /\ entered[s] >= 0 /\ entered[s] < e.ts
      /\ Extends(e.root.validators[s], head.validators[s])
  BY <1>1, <1>4, <1>6 DEF Truthful
<1>8. /\ entered[s] \in Int /\ e.ts \in Nat /\ params.minClaimDelay \in Nat
      /\ params.maxEpoch \in 0..FarFuture
  BY <1>1, <1>4 DEF TypeOK, Params
<1>9. entered[s] + params.minClaimDelay < now
  BY <1>1, <1>4, <1>7, <1>8
<1>10. /\ head.validators[s].activation = a.activationEpoch
       /\ head.validators[s].creds.prefix # 0
       /\ head.validators[s].creds.addr = a.sourceCredentials.addr
  <2>1. a.activationEpoch # FarFuture
    BY <1>1, <1>4, <1>8
  <2> QED BY <1>4, <1>7, <2>1 DEF Extends
<1>11. st.payee \in [Index -> Address \cup {NoOne}]
  BY <1>1 DEF ContractState
<1> HIDE DEF s, e, i
<1>12. SUFFICES ASSUME NEW r \in st'.rewarded
                PROVE  /\ entered[r] >= 0
                       /\ entered[r] + params.minClaimDelay < now
                       /\ head.validators[r].activation < params.maxEpoch
                       /\ head.validators[r].creds.prefix # 0
                       /\ st'.payee[r] = head.validators[r].creds.addr
  BY <1>1 DEF Due, chain
<1>13. CASE r = s
  BY <1>1, <1>3, <1>4, <1>7, <1>9, <1>10, <1>11, <1>13
<1>14. CASE r # s
  <2>1. r \in st.rewarded /\ r \in Index
    BY <1>1, <1>3, <1>14 DEF ContractState
  <2> QED BY <1>3, <1>5, <1>11, <1>14, <2>1 DEF Due
<1> QED BY <1>13, <1>14

\* What was due stays due while the chain grows.
LEMMA BlockKeepsDue ==
  ASSUME TypeOK, TypeOK', ChainIsTruthful, Due(st), NEW t \in 1..MaxTime, NewBlock(t), params # NotDeployed
  PROVE  Due(st)'
<1> USE ConstantsAssumption
<1>1. /\ now' = t /\ now < t /\ params' = params /\ st' = st /\ t \in Nat
      /\ now \in Nat /\ params \in Params /\ st \in ContractState
  BY DEF NewBlock, TypeOK
<1>2. SUFFICES ASSUME NEW r \in st.rewarded
               PROVE  /\ entered'[r] >= 0
                      /\ entered'[r] + params.minClaimDelay < now'
                      /\ head'.validators[r].activation < params.maxEpoch
                      /\ head'.validators[r].creds.prefix # 0
                      /\ st.payee[r] = head'.validators[r].creds.addr
  BY <1>1 DEF Due
<1>3. r \in Index /\ entered[r] \in Int /\ params.minClaimDelay \in Nat /\ params.maxEpoch \in 0..FarFuture
  BY <1>1 DEF TypeOK, ContractState, Params
<1>4. /\ entered[r] >= 0 /\ entered[r] + params.minClaimDelay < now
      /\ head.validators[r].activation < params.maxEpoch
      /\ head.validators[r].creds.prefix # 0
      /\ st.payee[r] = head.validators[r].creds.addr
  BY DEF Due
<1>5. entered'[r] = entered[r]
  BY <1>3, <1>4, BlockExtends
<1>6. Extends(head.validators[r], head'.validators[r])
  BY <1>3, BlockExtends
<1>7. head.validators[r].activation # FarFuture
  <2>1. params.maxEpoch \in Int /\ FarFuture \in Int /\ params.maxEpoch <= FarFuture
    BY <1>3
  <2> QED BY <1>4, <2>1
<1> QED BY <1>1, <1>3, <1>4, <1>5, <1>6, <1>7 DEF Extends

\* Nothing has been paid at the start.
LEMMA DueInit == Init => RewardsAreDue
<1> SUFFICES ASSUME Init PROVE RewardsAreDue
  OBVIOUS
<1>1. stack = <<>> /\ st.rewarded = {}
  BY DEF Init
<1>2. \A i \in 1..Len(stack) + 1 : At(stack, st, i) = st
  BY <1>1 DEF At
<1>3. Due(st)
  BY <1>1 DEF Due
<1> QED BY <1>2, <1>3, ChainInit DEF RewardsAreDue

\* Every step keeps what was paid due, whatever a revert brings back.
LEMMA DueNext ==
  TypeOK /\ TypeOK' /\ CallsAreConsistent /\ RewardsAreDue /\ [Next]_vars => RewardsAreDue'
<1> SUFFICES ASSUME TypeOK, TypeOK', CallsAreConsistent, RewardsAreDue, [Next]_vars
             PROVE  RewardsAreDue'
  OBVIOUS
<1>1. ChainIsTruthful /\ ChainIsTruthful'
  BY ChainNext DEF RewardsAreDue
<1>2. /\ Len(stack) \in Nat /\ st \in ContractState
      /\ \A i \in 1..Len(stack) + 1 : Due(At(stack, st, i))
  BY DEF RewardsAreDue, TypeOK
<1>3. Due(st)
  <2>1. Len(stack) + 1 \in 1..Len(stack) + 1 /\ At(stack, st, Len(stack) + 1) = st
    BY <1>2 DEF At
  <2> QED BY <1>2, <2>1
<1>4. Marked(st) /\ Balanced(params, st)
  BY CurrentIsConsistent
<1>5. ASSUME UNCHANGED <<params, chain>>,
             st'.rewarded = st.rewarded, \A s \in st.rewarded : st'.payee[s] = st.payee[s]
      PROVE  Due(st)'
  BY <1>3, <1>5 DEF Due, chain
<1>6. ASSUME NEW p \in DeployParams, Deploy(p)
      PROVE  Due(st)' /\ stack' = <<>>
  <2>1. st.rewarded = {}
    BY <1>4, <1>6 DEF Balanced, Deploy, Initialize
  <2>2. st' = [st EXCEPT !.owner = p.owner] /\ stack' = <<>>
    BY <1>6 DEF Deploy, Initialize
  <2>3. st'.rewarded = {}
    BY <1>2, <2>1, <2>2 DEF ContractState
  <2> QED BY <2>2, <2>3 DEF Due
<1>7. ASSUME NEW t \in 1..MaxTime, NewBlock(t)
      PROVE  Due(st)' /\ stack' = <<>>
  <2>1. stack' = <<>> /\ st' = st
    BY <1>7 DEF NewBlock
  <2>2. CASE params = NotDeployed
    BY <1>4, <2>1, <2>2 DEF Balanced, Due
  <2>3. CASE params # NotDeployed
    BY <1>1, <1>3, <1>7, <2>1, <2>3, BlockKeepsDue
  <2> QED BY <2>1, <2>2, <2>3
<1>8. ASSUME BeginTx \/ UNCHANGED vars PROVE Due(st)'
  <2>1. st' = st /\ UNCHANGED <<params, chain>>
    BY <1>8 DEF BeginTx, vars, chain
  <2> QED BY <1>3, <2>1 DEF Due, chain
<1>9. ASSUME NEW a \in ClaimArgs, ClaimReward(a) PROVE Due(st)'
  BY <1>9, ClaimIsDue
<1>10. ASSUME \/ \E c \in Account, to \in Address, v \in Amount : Withdraw(c, to, v)
              \/ \E c \in Account, o \in Account \cup {NoOne} : TransferOwnership(c, o)
              \/ \E c \in Account, i \in Impl : UpgradeTo(c, i)
              \/ \E v \in Amount : Receive(v)
       PROVE  Due(st)'
  <2>1. st'.rewarded = st.rewarded /\ Continues(st, st')
    BY <1>4, <1>10, AdminKeepsBooks
  <2>2. UNCHANGED <<params, chain>>
    BY <1>10 DEF Withdraw, TransferOwnership, UpgradeTo, Receive
  <2> QED BY <1>5, <2>1, <2>2 DEF Continues
<1>11. ASSUME Return PROVE Due(st)'
  <2>1. UNCHANGED <<params, chain>> /\ st' = [st EXCEPT !.logged = @ \cup Top.opens]
    BY <1>11 DEF Return
  <2>2. st'.rewarded = st.rewarded /\ st'.payee = st.payee
    BY <1>2, <2>1 DEF ContractState
  <2> QED BY <1>3, <2>1, <2>2 DEF Due, chain
<1>12. ASSUME Revert PROVE Due(st)'
  <2>1. st' = stack[Len(stack)].saved /\ Len(stack) > 0
    BY <1>2, <1>12, PopType DEF Revert, Top, TypeOK
  <2>2. PICK j \in 1..Len(stack) + 1 : At(stack, st, j) = st'
    <3>1. Len(stack) \in 1..Len(stack) + 1 /\ At(stack, st, Len(stack)) = st'
      BY <1>2, <2>1 DEF At
    <3> QED BY <3>1
  <2>3. Due(At(stack, st, j)) /\ UNCHANGED <<params, chain>>
    BY <1>2, <1>12 DEF Revert
  <2> QED BY <2>2, <2>3 DEF Due, chain
<1>13. Due(st)'
  BY <1>6, <1>7, <1>8, <1>9, <1>10, <1>11, <1>12, Zenon DEF Next
<1>14. ASSUME NEW i \in 1..Len(stack') + 1 PROVE Due(At(stack, st, i))'
  <2>1. CASE At(stack', st', i) = st'
    BY <1>13, <2>1 DEF Due
  <2>2. CASE stack' = <<>>
    <3>1. At(stack', st', i) = st'
      BY <2>2 DEF At
    <3> QED BY <2>1, <3>1
  <2>3. CASE At(stack', st', i) # st' /\ stack' # <<>>
    <3>1. PICK j \in 1..Len(stack) + 1 : At(stack', st', i) = At(stack, st, j)
      BY <2>3, ReachNext
    <3>2. UNCHANGED <<params, chain>>
      BY <1>6, <1>7, <2>3 DEF Next, vars, chain, BeginTx, ClaimReward, Withdraw,
         TransferOwnership, UpgradeTo, Receive, Return, Revert
    <3>3. Due(At(stack, st, j))
      BY <1>2
    <3> QED BY <3>1, <3>2, <3>3 DEF Due, chain
  <2> QED BY <2>1, <2>2, <2>3
<1> QED BY <1>1, <1>14 DEF RewardsAreDue

\* The inductive invariant of the contract and the chain it reads.
THEOREM RewardsAreDueHolds == Spec => []RewardsAreDue
BY DueInit, DueNext, TypeCorrect, ConsistencyHolds, PTL DEF Spec

\* Whatever a transaction is in the middle of, the state it started from is sound.
LEMMA SoundCommitted ==
  TypeOK /\ CallsAreConsistent /\ RewardsAreDue => CommittedIsSound
<1> SUFFICES ASSUME TypeOK, CallsAreConsistent, RewardsAreDue PROVE CommittedIsSound
  OBVIOUS
<1>1. stack \in Seq(Frame) /\ st \in ContractState /\ 1 \in 1..Len(stack) + 1
  BY DEF TypeOK
<1>2. Committed = At(stack, st, 1)
  BY <1>1 DEF Committed, At
<1>3. At(stack, st, 1) \in ContractState
  BY <1>1, AtType
<1>4. Marked(At(stack, st, 1)) /\ Balanced(params, At(stack, st, 1))
  BY <1>1 DEF CallsAreConsistent, Consistent
<1>5. Due(At(stack, st, 1))
  BY <1>1 DEF RewardsAreDue
<1> QED BY <1>2, <1>3, <1>4, <1>5 DEF CommittedIsSound

\* Outside a transaction and in the middle of one, what is committed is sound.
THEOREM CommittedIsSoundHolds == Spec => []CommittedIsSound
BY SoundCommitted, TypeCorrect, ConsistencyHolds, RewardsAreDueHolds, PTL

\* Whatever root it was proved against, a reward is still due on today's chain.
THEOREM RewardedAreEntitledHolds == Spec => []RewardedAreEntitled
<1>1. TypeOK /\ RewardsAreDue => RewardedAreEntitled
  <2> SUFFICES ASSUME TypeOK, RewardsAreDue PROVE RewardedAreEntitled
    OBVIOUS
  <2>1. Len(stack) + 1 \in 1..Len(stack) + 1 /\ At(stack, st, Len(stack) + 1) = st
    BY DEF TypeOK, At
  <2>2. Due(st)
    BY <2>1 DEF RewardsAreDue
  <2> QED BY <2>2 DEF Due, RewardedAreEntitled
<1> QED BY <1>1, RewardsAreDueHolds, TypeCorrect, PTL

\* Two times that share a slot of the ring buffer are a whole buffer apart.
LEMMA SameSlot ==
  ASSUME NEW b \in Nat \ {0}, NEW x \in Nat, NEW y \in Nat, x < y, x % b = y % b
  PROVE  x + b <= y
<1> DEFINE k == x \div b
           m == y \div b
<1>1. k \in Int /\ m \in Int /\ x = b * k + (x % b) /\ y = b * m + (y % b) /\ x % b \in 0..b - 1
  OBVIOUS
<1> HIDE DEF k, m
<1>2. y - x = b * (m - k)
  BY <1>1
<1>3. m - k >= 1
  <2>1. CASE m - k <= 0
    <3>1. b * (m - k) <= 0
      BY <1>1, <2>1
    <3> QED BY <1>2, <3>1
  <2> QED BY <1>1, <2>1
<1>4. b * (m - k) >= b
  BY <1>1, <1>3
<1> QED BY <1>2, <1>4

\* With a delay that fits the oracle's window no root expires before it is usable.
THEOREM UsableBeforeEvictionHolds == Spec => UsableBeforeEviction
<1> DEFINE Usable == params # NotDeployed /\ params.minClaimDelay + MaxGap <= BufferLength =>
                       \A i \in DOMAIN oracle :
                         oracle[i] # NoEntry /\ oracle'[i] # oracle[i] => ~TooRecent(oracle[i].ts)
<1>1. TypeOK /\ RewardsAreDue /\ [Next]_vars => [Usable]_vars
  <2> SUFFICES ASSUME TypeOK, RewardsAreDue, [Next]_vars PROVE Usable
    OBVIOUS
  <2> SUFFICES ASSUME params # NotDeployed, params.minClaimDelay + MaxGap <= BufferLength,
                      NEW i \in DOMAIN oracle, oracle[i] # NoEntry, oracle'[i] # oracle[i]
               PROVE  ~TooRecent(oracle[i].ts)
    OBVIOUS
  <2>1. PICK t \in 1..MaxTime : NewBlock(t)
    BY OnlyBlocksMoveTheChain DEF chain
  <2>2. /\ now < t /\ t <= now + MaxGap /\ t \in Nat /\ now \in Nat
        /\ i = t % BufferLength
        /\ oracle[i].ts \in Nat /\ BufferLength \in Nat \ {0} /\ MaxGap \in Nat
        /\ params.minClaimDelay \in Nat
    BY <2>1, ConstantsAssumption DEF NewBlock, OracleWrite, TypeOK, Params
  <2>3. oracle[i].ts <= now /\ oracle[i].ts % BufferLength = i
    BY DEF RewardsAreDue, ChainIsTruthful, Truthful
  <2>4. oracle[i].ts + BufferLength <= t
    BY <2>2, <2>3, SameSlot
  <2> QED BY <2>2, <2>4 DEF TooRecent
<1> QED BY <1>1, RewardsAreDueHolds, TypeCorrect, PTL DEF Spec, UsableBeforeEviction
================================================================================

------------------------ MODULE RewardsRefinement_proofs ------------------------
(***************************************************************************)
(* Proof that the contract, with all its calls and callbacks, implements   *)
(* the reward programme of AbstractRewards.                                *)
(***************************************************************************)
EXTENDS RewardsRefinement, ConsolidationIncentives_proofs

\* The contract starts as a programme that was not launched.
LEMMA RefinesInit == Init => Abstract!Init
<1> SUFFICES ASSUME Init PROVE Abstract!Init
  OBVIOUS
<1>1. /\ params = NotDeployed /\ Committed = st
      /\ st.owner = NoOne /\ st.payee = [s \in Index |-> NoOne]
      /\ st.balance = 0 /\ st.funded = 0 /\ st.drawn = 0
  BY DEF Init, Committed
<1>2. [s \in Index |-> Entitled(s)] = [s \in Index |-> {}]
  BY <1>1 DEF Entitled
<1> QED BY <1>1, <1>2 DEF Abstract!Init

\* Deploying launches the programme.
LEMMA RefinesLaunch ==
  ASSUME TypeOK, TypeOK', NEW p \in DeployParams, Deploy(p)
  PROVE  Abstract!Launch
<1> USE ConstantsAssumption
<1>1. /\ params = NotDeployed /\ params' = p /\ p \in Params /\ p # NotDeployed
      /\ p.rewardAmount > 0
      /\ stack = <<>> /\ stack' = <<>> /\ st' = [st EXCEPT !.owner = p.owner]
  BY DEF Deploy, Initialize
<1>2. Committed = st /\ Committed' = st'
  BY <1>1 DEF Committed
<1>3. /\ st'.owner = p.owner /\ p.owner \in Account /\ p.owner # NoOne
      /\ st'.payee = st.payee /\ st'.balance = st.balance
      /\ st'.funded = st.funded /\ st'.drawn = st.drawn
  BY <1>1 DEF TypeOK, ContractState, Params, Address
<1>4. ASSUME NEW s \in Index PROVE Entitled(s) = {}
  BY <1>1 DEF Entitled
<1>5. p.rewardAmount \in Nat \ {0}
  BY <1>1 DEF Params
<1> QED BY <1>1, <1>2, <1>3, <1>4, <1>5 DEF Abstract!Launch

\* An entitlement survives every block: the chain is the abstract environment.
LEMMA RefinesEntitle ==
  ASSUME TypeOK, TypeOK', ChainIsTruthful, NEW t \in 1..MaxTime, NewBlock(t)
  PROVE  Abstract!Entitle
<1> USE ConstantsAssumption
<1>1. /\ now' = t /\ now < t /\ params' = params /\ st' = st
      /\ stack = <<>> /\ stack' = <<>> /\ now \in Nat /\ t \in Nat
  BY DEF NewBlock, TypeOK
<1>2. Committed' = Committed
  BY <1>1 DEF Committed
<1>3. ASSUME NEW s \in Index, NEW x \in Entitled(s) PROVE x \in Entitled(s)'
  <2>1. /\ params # NotDeployed /\ entered[s] >= 0
        /\ entered[s] + params.minClaimDelay < now
        /\ head.validators[s].activation < params.maxEpoch
        /\ head.validators[s].creds.prefix # 0
        /\ x = head.validators[s].creds.addr
    BY <1>3 DEF Entitled
  <2>2. params.minClaimDelay \in Nat /\ params.maxEpoch \in Int /\ params.maxEpoch <= FarFuture
    BY <2>1 DEF TypeOK, Params
  <2>3. entered'[s] = entered[s] /\ entered[s] \in Int
    BY <2>1, BlockExtends DEF TypeOK
  <2>4. Extends(head.validators[s], head'.validators[s])
    BY BlockExtends
  <2>5. head.validators[s].activation # FarFuture
    BY <2>1, <2>2
  <2> QED BY <1>1, <2>1, <2>2, <2>3, <2>4, <2>5 DEF Entitled, Extends
<1> QED BY <1>1, <1>2, <1>3 DEF Abstract!Entitle

\* Before the launch there is nothing to tell the committed states apart by.
LEMMA RefinesStutter ==
  ASSUME CommittedIsSound, CommittedIsSound',
         params = NotDeployed, params' = params
  PROVE  UNCHANGED Abstract!avars
<1>1. /\ Committed \in ContractState /\ Committed' \in ContractState
      /\ Marked(Committed) /\ Balanced(NotDeployed, Committed)
      /\ \A s \in Index : Committed'.payee[s] = NoOne <=> s \notin Committed'.rewarded
      /\ Committed'.rewarded = {} /\ Committed'.owner = NoOne
      /\ Committed'.balance = 0 /\ Committed'.funded = 0 /\ Committed'.drawn = 0
  BY DEF CommittedIsSound, Marked, Balanced
<1>2. /\ Committed.rewarded = {} /\ Committed.owner = NoOne
      /\ Committed.balance = 0 /\ Committed.funded = 0 /\ Committed.drawn = 0
      /\ \A s \in Index : Committed.payee[s] = NoOne
  BY <1>1 DEF Balanced, Marked
<1>3. Committed'.payee = Committed.payee
  <2>1. /\ Committed.payee \in [Index -> Address \cup {NoOne}]
        /\ Committed'.payee \in [Index -> Address \cup {NoOne}]
    BY <1>1 DEF ContractState
  <2>2. \A s \in Index : Committed'.payee[s] = Committed.payee[s]
    BY <1>1, <1>2
  <2> QED BY <2>1, <2>2
<1>4. \A s \in Index : Entitled(s) = {} /\ Entitled(s)' = {}
  BY DEF Entitled
<1> QED BY <1>1, <1>2, <1>3, <1>4 DEF Abstract!avars

\* The rewards that left the pot in a step are new, and were paid outside.
LEMMA LeavingCount ==
  ASSUME NEW c \in ContractState, NEW d \in ContractState, Marked(c), Marked(d), Continues(c, d)
  PROVE  LET leaving == {s \in {s \in Index : d.payee[s] # c.payee[s]} : d.payee[s] \in Account}
         IN  /\ Cardinality(PaidOutside(d)) = Cardinality(PaidOutside(c)) + Cardinality(leaving)
             /\ Cardinality(PaidOutside(c)) \in Nat /\ Cardinality(leaving) \in Nat
<1> USE ConstantsAssumption
<1> DEFINE leaving == {s \in {s \in Index : d.payee[s] # c.payee[s]} : d.payee[s] \in Account}
<1>1. PaidOutside(d) = PaidOutside(c) \cup leaving
  <2>1. ASSUME NEW s \in PaidOutside(c) PROVE d.payee[s] = c.payee[s]
    BY <2>1 DEF PaidOutside, Marked, Continues, Address
  <2> QED BY <2>1 DEF PaidOutside
<1>2. PaidOutside(c) \cap leaving = {}
  BY DEF PaidOutside, Marked, Continues, Address
<1>3. IsFiniteSet(PaidOutside(c)) /\ IsFiniteSet(leaving)
  <2>1. PaidOutside(c) \subseteq Index /\ leaving \subseteq Index
    BY DEF PaidOutside
  <2> QED BY <2>1, FS_Subset
<1> HIDE DEF leaving
<1>4. Cardinality(PaidOutside(c) \cup leaving) =
        Cardinality(PaidOutside(c)) + Cardinality(leaving) - Cardinality({})
  BY <1>2, <1>3, FS_Union
<1>5. Cardinality({}) = 0
  BY FS_EmptySet
<1>6. Cardinality(PaidOutside(c)) \in Nat /\ Cardinality(leaving) \in Nat
  BY <1>3, FS_CardinalityType
<1> QED BY <1>1, <1>4, <1>5, <1>6 DEF leaving

\* The abstract module counts as the contract's does.
LEMMA SameCardinality == ASSUME NEW S PROVE Abstract!Cardinality(S) = Cardinality(S)
BY DEF Abstract!Cardinality, Cardinality, Abstract!IsFiniteSet, IsFiniteSet

\* Whatever a transaction did, seen from outside it is one settlement.
LEMMA RefinesSettle ==
  ASSUME CommittedIsSound, CommittedIsSound', TypeOK,
         Continues(Committed, Committed'), params # NotDeployed, UNCHANGED <<params, chain>>
  PROVE  Abstract!Settle
<1> USE ConstantsAssumption
<1> DEFINE c == Committed
           d == Committed'
           r == params.rewardAmount
           settled == {s \in Index : d.payee[s] # c.payee[s]}
           leaving == {s \in settled : d.payee[s] \in Account}
<1>1. /\ c \in ContractState /\ d \in ContractState /\ Marked(c) /\ Marked(d)
      /\ Balanced(params, c) /\ Balanced(params, d) /\ Continues(c, d)
      /\ r \in Nat /\ r # NotDeployed
  BY NotDeployedIsNoAmount DEF CommittedIsSound, TypeOK, Params, Marked, Balanced, PaidOutside
<1>2. ASSUME NEW s \in settled
      PROVE  c.payee[s] = NoOne /\ d.payee[s] \in Entitled(s)
  <2>1. s \in Index /\ s \notin c.rewarded /\ c.payee[s] = NoOne
    BY <1>1 DEF Continues, Marked
  <2>2. s \in d.rewarded
    BY <1>1, <2>1 DEF Marked
  <2>3. /\ entered[s] >= 0 /\ entered[s] + params.minClaimDelay < now
        /\ head.validators[s].activation < params.maxEpoch
        /\ head.validators[s].creds.prefix # 0
        /\ d.payee[s] = head.validators[s].creds.addr
    BY <2>2 DEF CommittedIsSound, Due, chain
  <2> QED BY <2>1, <2>3 DEF Entitled
<1>3. d.balance = c.balance + (d.funded - c.funded) - (d.drawn - c.drawn) - r * Cardinality(leaving)
  <2> DEFINE k == Cardinality(PaidOutside(c))
             m == Cardinality(leaving)
  <2>1. Cardinality(PaidOutside(d)) = k + m /\ k \in Nat /\ m \in Nat
    BY <1>1, LeavingCount
  <2>2. /\ c.balance + c.drawn + r * k = c.funded
        /\ d.balance + d.drawn + r * Cardinality(PaidOutside(d)) = d.funded
    BY <1>1 DEF Balanced
  <2>3. /\ c.balance \in Int /\ c.drawn \in Int /\ c.funded \in Int
        /\ d.balance \in Int /\ d.drawn \in Int /\ d.funded \in Int
    BY <1>1 DEF ContractState
  <2> HIDE DEF k, m, c, d, r
  <2>4. r * (k + m) = r * k + r * m /\ r * k \in Int /\ r * m \in Int
    <3>1. \A x, y, z \in Nat : x * (y + z) = x * y + x * z /\ x * y \in Int /\ x * z \in Int
      OBVIOUS
    <3> QED BY <1>1, <2>1, <3>1
  <2> QED BY <2>1, <2>2, <2>3, <2>4 DEF m
<1>4. /\ d.funded >= c.funded /\ d.drawn >= c.drawn /\ d.balance >= 0
      /\ d.drawn > c.drawn => c.owner # NoOne
      /\ d.owner # NoOne => c.owner # NoOne
  BY <1>1 DEF Continues, ContractState
<1>5. \A s \in Index : Entitled(s)' = Entitled(s)
  BY DEF Entitled, chain
<1>6. settled = Abstract!Settled /\ leaving = Abstract!Leaving
  BY DEF Abstract!Settled, Abstract!Leaving
<1> DEFINE entitled == [s \in Index |-> Entitled(s)]
<1>7. \A s \in Abstract!Settled : c.payee[s] = NoOne /\ d.payee[s] \in entitled[s]
  <2>1. \A s \in settled : c.payee[s] = NoOne /\ d.payee[s] \in entitled[s]
    BY <1>2
  <2> QED BY <1>6, <2>1
<1> DEFINE reward == IF params = NotDeployed THEN NotDeployed ELSE params.rewardAmount
<1>8. UNCHANGED <<reward, entitled>>
  BY <1>5
<1>9. reward = r /\ reward # NotDeployed
  BY <1>1
<1>10. d.balance = c.balance + (d.funded - c.funded) - (d.drawn - c.drawn)
                     - reward * Cardinality(Abstract!Leaving)
  BY <1>3, <1>6, <1>9
<1> HIDE DEF settled, leaving, entitled, reward, r, c, d
<1>11. /\ reward # NotDeployed
       /\ \A s \in Abstract!Settled : c.payee[s] = NoOne /\ d.payee[s] \in entitled[s]
       /\ d.funded >= c.funded
       /\ d.drawn >= c.drawn
       /\ d.drawn > c.drawn => c.owner # NoOne
       /\ d.owner # NoOne => c.owner # NoOne
       /\ d.balance = c.balance + (d.funded - c.funded) - (d.drawn - c.drawn)
                        - reward * Cardinality(Abstract!Leaving)
       /\ d.balance >= 0
       /\ UNCHANGED <<reward, entitled>>
  BY <1>4, <1>7, <1>8, <1>9, <1>10
<1> QED BY <1>11, SameCardinality DEF Abstract!Settle, entitled, reward, c, d

\* Every step of the contract is a step of the programme, or none.
LEMMA RefinesNext ==
  TypeOK /\ TypeOK' /\ CallsAreConsistent /\ RewardsAreDue /\ CommittedIsSound /\ CommittedIsSound'
    /\ [Next]_vars => Abstract!Next \/ UNCHANGED Abstract!avars
<1> SUFFICES ASSUME TypeOK, TypeOK', CallsAreConsistent, RewardsAreDue,
                    CommittedIsSound, CommittedIsSound', [Next]_vars
             PROVE  Abstract!Next \/ UNCHANGED Abstract!avars
  OBVIOUS
<1>1. CASE \E p \in DeployParams : Deploy(p)
  BY <1>1, RefinesLaunch DEF Abstract!Next
<1>2. CASE \E t \in 1..MaxTime : NewBlock(t)
  BY <1>2, RefinesEntitle DEF Abstract!Next, RewardsAreDue
<1>3. CASE /\ ~ \E p \in DeployParams : Deploy(p)
           /\ ~ \E t \in 1..MaxTime : NewBlock(t)
  <2>1. Continues(Committed, Committed') /\ params' = params
    BY <1>3, CommittedContinues
  <2>2. UNCHANGED <<params, chain>>
    BY <1>3, <2>1, OnlyBlocksMoveTheChain
  <2>3. CASE params = NotDeployed
    BY <2>1, <2>3, RefinesStutter
  <2>4. CASE params # NotDeployed
    BY <2>1, <2>2, <2>4, RefinesSettle DEF Abstract!Next
  <2> QED BY <2>3, <2>4
<1> QED BY <1>1, <1>2, <1>3

\* The contract implements the reward programme, whatever is called inside a
\* transaction, reenters or fails.
THEOREM ImplementsAbstractRewardsHolds == Spec => ImplementsAbstractRewards
<1>1. /\ TypeOK /\ TypeOK' /\ CallsAreConsistent /\ RewardsAreDue
      /\ CommittedIsSound /\ CommittedIsSound' /\ [Next]_vars
      => [Abstract!Next]_(Abstract!avars)
  BY RefinesNext
<1> QED BY <1>1, RefinesInit, TypeCorrect, ConsistencyHolds, RewardsAreDueHolds,
           CommittedIsSoundHolds, PTL DEF Spec, ImplementsAbstractRewards, Abstract!Spec
================================================================================

---------------------------- MODULE Submitter_proofs ----------------------------
(***************************************************************************)
(* Proofs about the submitter beside the contract, for any number of calls *)
(* at once: Ok means paid, and submitting again pays nothing.              *)
(***************************************************************************)
EXTENDS SubmitterInvariant, ConsolidationIncentives_proofs

\* Whatever the submitter and its transactions do, the contract takes its own steps.
LEMMA ContractSteps ==
  ASSUME SubTypeOK, CallsAreTraced, [SubNext]_subVars
  PROVE  [Next]_vars
<1>1. CASE Execute
  <2>1. running \in Call /\ phase[running] # "idle"
    BY <1>1, SubmitterAssumption DEF Execute, SubTypeOK, CallsAreTraced
  <2>2. proof[running] \in ClaimArgs
    BY <2>1 DEF CallsAreTraced
  <2> QED BY <1>1, <2>2 DEF Execute, Next
<1>2. CASE RecipientEnds \/ TxEnds
  BY <1>2 DEF RecipientEnds, TxEnds, Next
<1>3. CASE Others \/ UNCHANGED subVars
  BY <1>3 DEF Others, subVars
<1>4. ASSUME NEW c \in Call, Submit(c) \/ Include(c) \/ Drop(c)
      PROVE  [Next]_vars
  BY <1>4 DEF Submit, SubmitClaim, Send, SendFails, GetReceipt, ReceiptFails, Include, Drop, Next
<1> QED BY <1>1, <1>2, <1>3, <1>4 DEF SubNext

\* So the contract keeps its own invariants, submitter or not.
LEMMA ContractStaysSound ==
  ASSUME SubmitterIsSound, [SubNext]_subVars
  PROVE  [Next]_vars /\ TypeOK' /\ CallsAreConsistent' /\ RewardsAreDue'
<1>1. TypeOK /\ CallsAreConsistent /\ RewardsAreDue /\ [Next]_vars
  BY ContractSteps DEF SubmitterIsSound, SubTypeOK
<1>2. TypeOK'
  BY <1>1, TypeNext
<1> QED BY <1>1, <1>2, ConsistentNext, DueNext

\* The argument of a call is one the contract accepts.
LEMMA BundleType ==
  ASSUME TypeOK, NEW ts \in 0..MaxTime, NEW s \in Index, Found(ts)
  PROVE  BundleOf(ts, s) \in ClaimArgs
<1> USE ConstantsAssumption
<1> DEFINE e == oracle[ts % BufferLength]
<1>1. ts % BufferLength \in 0..BufferLength - 1 /\ e # NoEntry
  BY DEF Found
<1>2. e \in [ts : Nat, root : BeaconState]
  BY <1>1 DEF TypeOK
<1>3. Root(ts).validators[s] \in Validator
  BY <1>2 DEF Root, BeaconState
<1> QED BY <1>3 DEF BundleOf, ClaimArgs, Validator

\* What a call does by itself.
LEMMA ClientKeeps ==
  ASSUME SubmitterIsSound, NEW c \in Call, Submit(c)
  PROVE  SubTypeOK' /\ CallsAreTraced' /\ ClaimsArePaid' /\ RetriesPayOnce'
<1> USE DEF SubmitterIsSound
<1>1. UNCHANGED <<vars, config, receipt, running>>
  BY DEF Submit, SubmitClaim, Send, SendFails, GetReceipt, ReceiptFails, net
<1>2. UNCHANGED <<params, st, stack, now, head, entered, oracle>>
  BY <1>1 DEF vars
<1>3. /\ phase \in [Call -> {"idle"} \cup Waiting \cup Returned]
      /\ proof \in [Call -> ClaimArgs \cup {NoProof}]
      /\ pool \subseteq Call /\ TypeOK /\ TypeOK'
      /\ receipt \in [Call -> {"none", "success", "reverted"}]
  BY <1>2 DEF SubTypeOK, TypeOK
<1>4. \/ /\ phase[c] = "idle" /\ proof' \in [Call -> ClaimArgs \cup {NoProof}]
         /\ proof'[c] \in ClaimArgs /\ \A d \in Call \ {c} : proof'[d] = proof[d]
         /\ \E p \in {"send", "gasPrice", "noSigner"} : Goto(c, p)
         /\ pool' = pool
      \/ /\ phase[c] = "send" /\ proof' = proof
         /\ \E p \in {"ok", "receipt", "notSent"} : Goto(c, p) /\ (p = "ok" => config.confirmations = 0)
         /\ pool' \in {pool, pool \cup {c}}
      \/ /\ phase[c] = "receipt" /\ proof' = proof /\ pool' = pool
         /\ \E p \in {"ok", "reverted", "noReceipt"} :
              Goto(c, p) /\ (p = "ok" => receipt[c] = "success" /\ running # c)
  <2>1. ASSUME NEW ts \in 0..MaxTime, NEW s \in Index, SubmitClaim(c, ts, s)
        PROVE  <1>4!1
    <3>1. BundleOf(ts, s) \in ClaimArgs
      BY <1>3, <2>1, BundleType DEF SubmitClaim
    <3>2. proof' = [proof EXCEPT ![c] = BundleOf(ts, s)] /\ phase[c] = "idle" /\ pool' = pool
      BY <2>1 DEF SubmitClaim, net
    <3>3. Goto(c, "send") \/ Goto(c, "gasPrice") \/ Goto(c, "noSigner")
      BY <2>1 DEF SubmitClaim
    <3> QED BY <1>3, <3>1, <3>2, <3>3
  <2>2. ASSUME Send(c) \/ SendFails(c)
        PROVE  <1>4!2
    <3>1. config.confirmations \in Nat
      BY DEF SubTypeOK
    <3> QED BY <2>2, <3>1 DEF Send, SendFails, AfterSend
  <2>3. ASSUME GetReceipt(c) \/ ReceiptFails(c)
        PROVE  <1>4!3
    BY <2>3 DEF GetReceipt, ReceiptFails, net
  <2> QED BY <2>1, <2>2, <2>3 DEF Submit
<1>5. PICK p \in {"send", "gasPrice", "noSigner", "ok", "receipt", "notSent", "reverted", "noReceipt"} :
        phase' = [phase EXCEPT ![c] = p]
  BY <1>4 DEF Goto
<1>6. phase'[c] = p /\ \A d \in Call \ {c} : phase'[d] = phase[d]
  BY <1>3, <1>5
<1>7. phase' \in [Call -> {"idle"} \cup Waiting \cup Returned]
  BY <1>3, <1>5 DEF Waiting, Returned, Errors
<1>8. SubTypeOK'
  BY <1>1, <1>2, <1>3, <1>4, <1>7 DEF SubTypeOK, CallsAreTraced
<1>9. CallsAreTraced'
  BY <1>1, <1>3, <1>4, <1>6 DEF CallsAreTraced, Goto
<1>10. \A d \in Call : receipt[d] = "success" \/ running = d => proof'[d] = proof[d]
  BY <1>4 DEF CallsAreTraced
<1>11. ClaimsArePaid' /\ RetriesPayOnce'
  BY <1>1, <1>2, <1>10 DEF ClaimsArePaid, RetriesPayOnce, Executing, AddressHolds, Claimant, Committed
<1> QED BY <1>8, <1>9, <1>11

\* Steps outside the contract: a transaction is dropped, or nothing happens.
LEMMA DropKeeps ==
  ASSUME SubmitterIsSound, (\E c \in Call : Drop(c)) \/ UNCHANGED subVars
  PROVE  SubTypeOK' /\ CallsAreTraced' /\ ClaimsArePaid' /\ RetriesPayOnce'
<1>1. UNCHANGED <<vars, config, phase, proof, receipt, running>> /\ pool' \subseteq pool
  BY DEF Drop, subVars, client, net
<1>2. UNCHANGED <<params, st, stack, now, head, entered, oracle>>
  BY <1>1 DEF vars
<1>3. SubTypeOK'
  BY <1>1, <1>2 DEF SubmitterIsSound, SubTypeOK, TypeOK
<1>4. CallsAreTraced' /\ RetriesPayOnce'
  BY <1>1 DEF SubmitterIsSound, CallsAreTraced, RetriesPayOnce
<1>5. ClaimsArePaid'
  BY <1>1, <1>2 DEF SubmitterIsSound, ClaimsArePaid, Executing, AddressHolds, Claimant, Committed
<1> QED BY <1>3, <1>4, <1>5

\* What was paid for one call stays paid while the transactions of others run.
LEMMA OtherCallsArePaid ==
  ASSUME SubmitterIsSound, TypeOK', [Next]_vars, UNCHANGED <<proof, head>>,
         NEW d \in Call, running # d, receipt'[d] = receipt[d], receipt[d] = "success"
  PROVE  Claimant(d) \in Committed'.rewarded /\ AddressHolds(d)'
<1>1. Claimant(d) \in Committed.rewarded /\ AddressHolds(d)
  BY DEF SubmitterIsSound, ClaimsArePaid
<1>2. Claimant(d) \in Committed'.rewarded
  BY <1>1, CommittedIsKept DEF SubmitterIsSound, SubTypeOK
<1> QED BY <1>1, <1>2 DEF AddressHolds, Claimant

\* A transaction of the submitter starts.
LEMMA IncludeKeeps ==
  ASSUME SubmitterIsSound, TypeOK', NEW c \in Call, Include(c)
  PROVE  SubTypeOK' /\ CallsAreTraced' /\ ClaimsArePaid' /\ RetriesPayOnce'
<1> USE DEF SubmitterIsSound
<1>1. /\ UNCHANGED <<config, phase, proof, receipt, head>> /\ pool' = pool \ {c}
      /\ running' = c /\ c \in pool /\ receipt[c] = "none" /\ [Next]_vars
  BY DEF Include, client, BeginTx, chain, SubTypeOK, Next
<1>2. /\ running = NoCall /\ running \notin Call
      /\ Len(stack') = 1 /\ stack' # <<>>
  BY SubmitterAssumption DEF SubTypeOK, Include, BeginTx, Push
<1>3. SubTypeOK'
  BY <1>1, <1>2 DEF SubTypeOK
<1>4. CallsAreTraced' /\ RetriesPayOnce'
  BY <1>1, <1>2 DEF CallsAreTraced, RetriesPayOnce
<1>5. ASSUME NEW d \in Call, receipt'[d] = "success"
      PROVE  running' # d /\ Claimant(d) \in Committed'.rewarded /\ AddressHolds(d)'
  BY <1>1, <1>2, <1>5, OtherCallsArePaid
<1>6. ClaimsArePaid'
  BY <1>1, <1>2, <1>5 DEF ClaimsArePaid, Executing, Claimant
<1> QED BY <1>3, <1>4, <1>6

\* What the second frame of a stack is, when it is pushed on the first.
LEMMA AppendToOne ==
  ASSUME NEW S, NEW q \in Seq(S), NEW e \in S, Len(q) = 1
  PROVE  /\ Len(Append(q, e)) = 2 /\ Append(q, e)[1] = q[1] /\ Append(q, e)[2] = e
         /\ q # <<>> /\ Append(q, e) # <<>>
<1>1. \A T : \A p \in Seq(T), x \in T : Append(p, x)[Len(p) + 1] = x /\ Append(p, x) # <<>>
  OBVIOUS
<1>2. Append(q, e)[Len(q) + 1] = e /\ Append(q, e) # <<>>
  BY <1>1, Zenon
<1>3. Len(q) + 1 = 2
  OBVIOUS
<1>4. Len(Append(q, e)) = 2
  OBVIOUS
<1>5. Append(q, e)[1] = q[1]
  OBVIOUS
<1>6. q # <<>>
  <2>1. Len(<<>>) = 0
    OBVIOUS
  <2>2. Len(q) # Len(<<>>)
    BY <2>1
  <2> QED BY <2>2, Zenon
<1>7. Append(q, e)[2] = e
  BY <1>2, <1>3
<1> QED BY <1>2, <1>4, <1>5, <1>6, <1>7, Zenon

\* It calls claimReward.  What it claims no earlier transaction has claimed.
LEMMA ExecuteKeeps ==
  ASSUME SubmitterIsSound, TypeOK', Execute
  PROVE  SubTypeOK' /\ CallsAreTraced' /\ ClaimsArePaid' /\ RetriesPayOnce'
<1> USE DEF SubmitterIsSound
<1> DEFINE r == running
           a == proof[r]
           s == a.sourceIndex
<1>1. /\ UNCHANGED <<config, phase, proof, pool, receipt, running, head>>
      /\ r \in Call /\ Len(stack) = 1 /\ receipt[r] = "none" /\ ClaimReward(a)
  BY DEF Execute, client, net, SubTypeOK, ClaimReward, chain
<1>2. a \in ClaimArgs
  BY <1>1, SubmitterAssumption DEF CallsAreTraced
<1>3. [Next]_vars
  BY <1>1, <1>2 DEF Next
<1>4. /\ stack' = Append(stack, [callee |-> a.sourceCredentials.addr, opens |-> {s}, saved |-> st])
      /\ stack \in Seq(Frame) /\ st \in ContractState
  BY <1>1 DEF ClaimReward, Push, SubTypeOK, TypeOK
<1>5. Len(stack') = 2 /\ stack' # <<>> /\ stack'[1] = stack[1] /\ stack'[2].opens = {s} /\ stack # <<>>
  <2> DEFINE f == [callee |-> a.sourceCredentials.addr, opens |-> {s}, saved |-> st]
  <2>1. f \in Frame /\ f.opens = {s} /\ stack' = Append(stack, f)
    BY <1>2, <1>4 DEF ClaimArgs, Credentials, Frame
  <2> HIDE DEF f, s, a
  <2> QED BY <1>1, <1>4, <2>1, AppendToOne
<1>6. Committed' = Committed /\ Committed = At(stack, st, 1)
  BY <1>1, <1>5 DEF Committed, At
<1>7. s \notin Committed.rewarded
  <2>1. s \notin st.rewarded
    BY <1>1 DEF ClaimReward, CanClaim
  <2>2. Continues(Committed, st)
    BY <1>6, CurrentIsConsistent DEF SubTypeOK
  <2> QED BY <2>1, <2>2 DEF Continues
<1>8. AddressHolds(r)'
  <2>1. Due(st)'
    BY <1>1, <1>2, ClaimIsDue DEF SubTypeOK
  <2>2. s \in st'.rewarded /\ st'.payee[s] = a.sourceCredentials.addr
    <3>1. st' = [st EXCEPT !.rewarded = @ \cup {s},
                           !.balance = @ - Outgoing(a.sourceCredentials.addr, params.rewardAmount),
                           !.paid[s] = @ + 1, !.payee[s] = a.sourceCredentials.addr]
      BY <1>1 DEF ClaimReward
    <3>2. s \in Index /\ st.payee \in [Index -> Address \cup {NoOne}]
      BY <1>2, <1>4 DEF ClaimArgs, ContractState
    <3>3. st'.rewarded = st.rewarded \cup {s} /\ st'.payee = [st.payee EXCEPT ![s] = a.sourceCredentials.addr]
      BY <1>4, <3>1 DEF ContractState
    <3> QED BY <3>2, <3>3
  <2> QED BY <1>1, <2>1, <2>2 DEF Due, AddressHolds, Claimant
<1>9. SubTypeOK'
  BY <1>1, <1>5 DEF SubTypeOK
<1>10. CallsAreTraced' /\ RetriesPayOnce'
  BY <1>1 DEF CallsAreTraced, RetriesPayOnce
<1>11. ASSUME NEW d \in Call, receipt'[d] = "success"
       PROVE  running' # d /\ Claimant(d) \in Committed'.rewarded /\ AddressHolds(d)'
  BY <1>1, <1>3, <1>11, OtherCallsArePaid
<1>12. ASSUME NEW d \in Call, Executing(d)'
       PROVE  /\ AddressHolds(d)' /\ receipt'[d] = "none"
              /\ stack'[2].opens = {Claimant(d)'} /\ Claimant(d)' \notin Committed'.rewarded
  <2>1. d = r
    BY <1>1, <1>12 DEF Executing
  <2> QED BY <1>1, <1>5, <1>6, <1>7, <1>8, <2>1 DEF Claimant
<1>13. ClaimsArePaid'
  BY <1>1, <1>11, <1>12 DEF ClaimsArePaid, Claimant
<1> QED BY <1>9, <1>10, <1>13

\* The recipient returns, and the claim is marked; or it fails, and nothing is.
LEMMA RecipientEndsKeeps ==
  ASSUME SubmitterIsSound, TypeOK', RecipientEnds
  PROVE  SubTypeOK' /\ CallsAreTraced' /\ ClaimsArePaid' /\ RetriesPayOnce'
<1> USE DEF SubmitterIsSound
<1> DEFINE r == running
           s == Claimant(r)
<1>1. /\ UNCHANGED <<config, phase, proof, pool, running, head>>
      /\ r \in Call /\ Len(stack) = 2 /\ stack # <<>> /\ Pop /\ [Next]_vars
      /\ \/ Return /\ receipt' = [receipt EXCEPT ![r] = "success"]
         \/ Revert /\ receipt' = [receipt EXCEPT ![r] = "reverted"]
  BY DEF RecipientEnds, client, SubTypeOK, Return, Revert, chain, Outcome, Next
<1>2. Len(stack') = 1 /\ stack'[1] = stack[1] /\ stack' # <<>>
  <2>1. stack \in Seq(Frame)
    BY DEF SubTypeOK, TypeOK
  <2>2. Len(stack') = Len(stack) - 1 /\ \A i \in 1..Len(stack) - 1 : stack'[i] = stack[i]
    BY <1>1, <2>1, PopKeeps DEF Pop
  <2>3. Len(stack') = 1 /\ stack'[1] = stack[1]
    BY <1>1, <2>2
  <2>4. Len(<<>>) = 0
    OBVIOUS
  <2>5. Len(stack') # Len(<<>>)
    BY <2>3, <2>4
  <2> QED BY <2>3, <2>5, Zenon
<1>3. Committed' = Committed
  BY <1>1, <1>2 DEF Committed
<1>4. /\ receipt[r] = "none" /\ AddressHolds(r) /\ stack[2].opens = {s}
      /\ s \notin Committed.rewarded
  BY <1>1 DEF ClaimsArePaid, Executing
<1>5. AddressHolds(r)'
  BY <1>1, <1>4 DEF AddressHolds, Claimant
<1>6. /\ receipt' \in [Call -> {"none", "success", "reverted"}] /\ r \notin pool
      /\ receipt'[r] \in {"success", "reverted"} /\ \A d \in Call \ {r} : receipt'[d] = receipt[d]
      /\ phase[r] # "idle" /\ proof[r] \in ClaimArgs
  BY <1>1 DEF SubTypeOK, CallsAreTraced
<1>7. SubTypeOK'
  BY <1>1, <1>2, <1>6 DEF SubTypeOK
<1>8. CallsAreTraced'
  BY <1>1, <1>6 DEF CallsAreTraced
<1>9. ASSUME receipt'[r] = "success" PROVE s \in st'.rewarded
  <2>1. Return
    BY <1>1, <1>9 DEF SubTypeOK
  <2>2. s \in Index
    BY <1>6 DEF ClaimArgs, Claimant
  <2>3. s \in Opens(stack, Len(stack))
    BY <1>1, <1>4, <2>2 DEF Opens
  <2>4. s \in st.rewarded /\ st \in ContractState
    BY <2>3, CurrentIsConsistent DEF SubTypeOK, TypeOK
  <2>5. st' = [st EXCEPT !.logged = @ \cup Top.opens]
    BY <2>1 DEF Return
  <2> QED BY <2>4, <2>5 DEF ContractState
<1>10. ASSUME NEW d \in Call \ {r}, receipt'[d] = "success"
       PROVE  Claimant(d) \in Committed.rewarded /\ AddressHolds(d)'
  <2>1. receipt[d] = "success"
    BY <1>6, <1>10
  <2> QED BY <1>1, <1>3, <1>6, <2>1, OtherCallsArePaid
<1>11. ClaimsArePaid'
  <2>1. \A d \in Call : ~Executing(d)'
    BY <1>2 DEF Executing
  <2>2. ASSUME NEW d \in Call, receipt'[d] = "success"
        PROVE  /\ IF running' = d THEN Len(stack') = 1 /\ Claimant(d)' \in st'.rewarded
                                  ELSE Claimant(d)' \in Committed'.rewarded
               /\ AddressHolds(d)'
    <3>1. CASE d = r
      BY <1>1, <1>2, <1>5, <1>9, <2>2, <3>1 DEF Claimant
    <3>2. CASE d # r
      BY <1>1, <1>3, <1>10, <2>2, <3>2 DEF Claimant
    <3> QED BY <3>1, <3>2
  <2> QED BY <2>1, <2>2 DEF ClaimsArePaid
<1>12. RetriesPayOnce'
  <2> SUFFICES ASSUME NEW c \in Call, NEW d \in Call, c # d,
                      receipt'[c] = "success", receipt'[d] = "success"
               PROVE  Claimant(c) # Claimant(d)
    BY <1>1 DEF RetriesPayOnce, Claimant
  <2>1. CASE c # r /\ d # r
    BY <1>6, <2>1 DEF RetriesPayOnce, Claimant
  <2>2. CASE c = r
    BY <1>4, <1>10, <2>2
  <2>3. CASE d = r
    BY <1>4, <1>10, <2>3
  <2> QED BY <2>1, <2>2, <2>3
<1> QED BY <1>7, <1>8, <1>11, <1>12

\* The transaction ends: what it paid is committed.
LEMMA TxEndsKeeps ==
  ASSUME SubmitterIsSound, TypeOK', TxEnds
  PROVE  SubTypeOK' /\ CallsAreTraced' /\ ClaimsArePaid' /\ RetriesPayOnce'
<1> USE DEF SubmitterIsSound
<1> DEFINE r == running
<1>1. /\ UNCHANGED <<config, phase, proof, pool, head>> /\ running' = NoCall
      /\ r \in Call /\ Len(stack) = 1 /\ stack # <<>> /\ Pop /\ [Next]_vars
      /\ \/ Return /\ receipt[r] = "success" /\ receipt' = receipt
         \/ Revert /\ receipt' = [receipt EXCEPT ![r] = "reverted"]
  BY DEF TxEnds, client, SubTypeOK, Return, Revert, chain, Outcome, Next
<1>2. stack' = <<>>
  BY <1>1 DEF Pop, SubTypeOK, TypeOK
<1>3. /\ receipt' \in [Call -> {"none", "success", "reverted"}] /\ r \notin pool
      /\ \A d \in Call \ {r} : receipt'[d] = receipt[d]
      /\ receipt'[r] = "success" => receipt[r] = "success" /\ Return
  BY <1>1 DEF SubTypeOK, CallsAreTraced
<1>4. SubTypeOK'
  BY <1>1, <1>3 DEF SubTypeOK
<1>5. CallsAreTraced'
  BY <1>1, <1>3, SubmitterAssumption DEF CallsAreTraced
<1>6. ASSUME NEW d \in Call, receipt'[d] = "success"
      PROVE  Claimant(d)' \in Committed'.rewarded /\ AddressHolds(d)'
  <2>1. CASE d # r
    <3>1. receipt[d] = "success"
      BY <1>3, <1>6, <2>1
    <3> QED BY <1>1, <1>3, <2>1, <3>1, OtherCallsArePaid DEF Claimant
  <2>2. CASE d = r
    <3>1. Claimant(d) \in st.rewarded /\ AddressHolds(d) /\ Return /\ st \in ContractState
      BY <1>3, <1>6, <2>2 DEF ClaimsArePaid, SubTypeOK, TypeOK
    <3>2. st' = [st EXCEPT !.logged = @ \cup Top.opens]
      BY <3>1 DEF Return
    <3>3. Claimant(d) \in st'.rewarded /\ Committed' = st'
      BY <1>2, <3>1, <3>2 DEF ContractState, Committed
    <3> QED BY <1>1, <3>1, <3>3 DEF AddressHolds, Claimant
  <2> QED BY <2>1, <2>2
<1>7. ClaimsArePaid'
  BY <1>1, <1>6, SubmitterAssumption DEF ClaimsArePaid, Executing
<1>8. RetriesPayOnce'
  BY <1>1, <1>3 DEF RetriesPayOnce
<1> QED BY <1>4, <1>5, <1>7, <1>8

\* The rest of the world moves: between the submitter's transactions, or inside
\* one while its recipient is in control.
LEMMA OthersKeep ==
  ASSUME SubmitterIsSound, TypeOK', Others
  PROVE  SubTypeOK' /\ CallsAreTraced' /\ ClaimsArePaid' /\ RetriesPayOnce'
<1> USE DEF SubmitterIsSound
<1>1. /\ UNCHANGED <<config, phase, proof, pool, receipt, running>>
      /\ [Next]_vars /\ Next /\ TypeOK
      /\ running = NoCall \/ (Len(stack) > 1 /\ Len(stack') > 1)
  BY DEF Others, client, net, SubTypeOK
<1>2. Len(stack') > 1 => stack' # <<>>
  <2>1. Len(<<>>) = 0
    OBVIOUS
  <2>2. Len(stack') > 1 => Len(stack') # Len(<<>>)
    BY <2>1
  <2> QED BY <2>2, Zenon
<1>3. SubTypeOK'
  BY <1>1, <1>2 DEF SubTypeOK
<1>4. CallsAreTraced' /\ RetriesPayOnce'
  BY <1>1 DEF CallsAreTraced, RetriesPayOnce
<1>5. \A d \in Call : phase[d] = "idle" => receipt[d] = "none" /\ running # d
  BY DEF CallsAreTraced
<1>6. ASSUME NEW d \in Call, receipt[d] = "success" \/ Executing(d)
      PROVE  AddressHolds(d)'
  <2>1. AddressHolds(d) /\ proof[d] \in ClaimArgs
    BY <1>5, <1>6 DEF ClaimsArePaid, Executing, CallsAreTraced
  <2>2. Claimant(d) \in Index
    BY <2>1 DEF Claimant, ClaimArgs
  <2>3. Extends(head.validators[Claimant(d)], head'.validators[Claimant(d)])
    <3>1. CASE UNCHANGED chain
      BY <3>1 DEF chain, Extends
    <3>2. CASE \E t \in 1..MaxTime : NewBlock(t)
      BY <1>1, <2>2, <3>2, BlockExtends
    <3> QED BY <1>1, <3>1, <3>2, OnlyBlocksMoveTheChain
  <2> QED BY <1>1, <2>1, <2>3 DEF AddressHolds, Claimant, Extends
<1>7. ASSUME NEW d \in Call, receipt[d] = "success"
      PROVE  running # d /\ Claimant(d)' \in Committed'.rewarded
  <2>1. running # d
    BY <1>1, <1>7, SubmitterAssumption DEF ClaimsArePaid, Executing
  <2>2. Claimant(d) \in Committed.rewarded
    BY <1>7, <2>1 DEF ClaimsArePaid
  <2> QED BY <1>1, <2>1, <2>2, CommittedIsKept DEF Claimant
<1>8. ASSUME NEW d \in Call, running = d, Len(stack') > 1
      PROVE  /\ Executing(d) /\ receipt[d] = "none"
             /\ stack'[2].opens = {Claimant(d)'} /\ Claimant(d)' \notin Committed'.rewarded
  <2>1. Executing(d)
    BY <1>1, <1>8, SubmitterAssumption DEF Executing
  <2>2. stack \in Seq(Frame) /\ Len(stack) \in Nat /\ Len(stack) > 1 /\ Len(stack') \in Nat
    BY <2>1 DEF Executing, SubTypeOK, TypeOK
  <2>3. stack'[1] = stack[1] /\ stack'[2] = stack[2]
    <3>1. 1 \in 1..Len(stack) /\ 2 \in 1..Len(stack) /\ 1 <= Len(stack') /\ 2 <= Len(stack')
      BY <1>8, <2>2
    <3> QED BY <1>1, <3>1, FramesStay
  <2>4. Committed' = Committed
    BY <1>2, <1>8, <2>1, <2>3 DEF Committed, SubTypeOK, Executing
  <2>5. stack[2].opens = {Claimant(d)} /\ Claimant(d) \notin Committed.rewarded /\ receipt[d] = "none"
    BY <2>1 DEF ClaimsArePaid
  <2> QED BY <1>1, <2>1, <2>3, <2>4, <2>5 DEF Claimant
<1>9. ClaimsArePaid'
  BY <1>1, <1>6, <1>7, <1>8 DEF ClaimsArePaid, Executing
<1> QED BY <1>3, <1>4, <1>9

\* The invariant holds before the first call ...
LEMMA SubmitterInit == SubInit => SubmitterIsSound
<1> SUFFICES ASSUME SubInit PROVE SubmitterIsSound
  OBVIOUS
<1>1. TypeOK /\ CallsAreConsistent /\ RewardsAreDue
  <2>1. Init => TypeOK
    BY ConstantsAssumption DEF Init, TypeOK, ContractState, BeaconState
  <2> QED BY <2>1, ConsistentInit, DueInit DEF SubInit
<1>2. /\ config \in [signer : BOOLEAN, confirmations : {0, 1}]
      /\ \A c \in Call : phase[c] = "idle" /\ receipt[c] = "none"
      /\ phase = [c \in Call |-> "idle"] /\ proof = [c \in Call |-> NoProof]
      /\ receipt = [c \in Call |-> "none"]
      /\ pool = {} /\ running = NoCall /\ NoCall \notin Call
  BY SubmitterAssumption DEF SubInit
<1>3. SubTypeOK
  BY <1>1, <1>2 DEF SubTypeOK
<1>4. CallsAreTraced /\ ClaimsArePaid /\ RetriesPayOnce
  BY <1>2 DEF CallsAreTraced, ClaimsArePaid, RetriesPayOnce, Executing
<1> QED BY <1>1, <1>3, <1>4 DEF SubmitterIsSound

\* ... and every step of submitter, pool and contract keeps it.
LEMMA SubmitterNext == SubmitterIsSound /\ [SubNext]_subVars => SubmitterIsSound'
<1> SUFFICES ASSUME SubmitterIsSound, [SubNext]_subVars PROVE SubmitterIsSound'
  OBVIOUS
<1>1. TypeOK' /\ CallsAreConsistent' /\ RewardsAreDue'
  BY ContractStaysSound
<1>2. ASSUME NEW c \in Call, Submit(c)
      PROVE  SubTypeOK' /\ CallsAreTraced' /\ ClaimsArePaid' /\ RetriesPayOnce'
  BY <1>2, ClientKeeps
<1>3. ASSUME NEW c \in Call, Include(c)
      PROVE  SubTypeOK' /\ CallsAreTraced' /\ ClaimsArePaid' /\ RetriesPayOnce'
  BY <1>1, <1>3, IncludeKeeps
<1>4. ASSUME (\E c \in Call : Drop(c)) \/ UNCHANGED subVars
      PROVE  SubTypeOK' /\ CallsAreTraced' /\ ClaimsArePaid' /\ RetriesPayOnce'
  BY <1>4, DropKeeps
<1>5. ASSUME Execute
      PROVE  SubTypeOK' /\ CallsAreTraced' /\ ClaimsArePaid' /\ RetriesPayOnce'
  BY <1>1, <1>5, ExecuteKeeps
<1>6. ASSUME RecipientEnds
      PROVE  SubTypeOK' /\ CallsAreTraced' /\ ClaimsArePaid' /\ RetriesPayOnce'
  BY <1>1, <1>6, RecipientEndsKeeps
<1>7. ASSUME TxEnds
      PROVE  SubTypeOK' /\ CallsAreTraced' /\ ClaimsArePaid' /\ RetriesPayOnce'
  BY <1>1, <1>7, TxEndsKeeps
<1>8. ASSUME Others
      PROVE  SubTypeOK' /\ CallsAreTraced' /\ ClaimsArePaid' /\ RetriesPayOnce'
  BY <1>1, <1>8, OthersKeep
<1>9. SubTypeOK' /\ CallsAreTraced' /\ ClaimsArePaid' /\ RetriesPayOnce'
  BY <1>2, <1>3, <1>4, <1>5, <1>6, <1>7, <1>8, Zenon DEF SubNext
<1> QED BY <1>1, <1>9 DEF SubmitterIsSound

\* The inductive invariant: with any number of calls at once, every transaction
\* of the submitter is accounted for, in the pool, executing, paid or reverted.
THEOREM SubmitterIsSoundHolds == SubSpec => []SubmitterIsSound
BY SubmitterInit, SubmitterNext, PTL DEF SubSpec

\* The submitter, its node and the contract keep their types, and only a
\* transaction that was not executed yet is in the pool.
THEOREM SubTypeCorrect == SubSpec => []SubTypeOK
<1>1. SubmitterIsSound => SubTypeOK
  BY DEF SubmitterIsSound
<1> QED BY <1>1, SubmitterIsSoundHolds, PTL

\* Of the calls for one validator at most one pays, however many are retried.
THEOREM RetriesPayOnceHolds == SubSpec => []RetriesPayOnce
<1>1. SubmitterIsSound => RetriesPayOnce
  BY DEF SubmitterIsSound
<1> QED BY <1>1, SubmitterIsSoundHolds, PTL

\* A call that waited and returns Ok has paid the validator at its address,
\* whatever was executed in between, and is_rewarded answers true from then on.
THEOREM ConfirmedIsPaidHolds == SubSpec => []ConfirmedIsPaid
<1>1. SubmitterIsSound => ConfirmedIsPaid
  <2> SUFFICES ASSUME SubmitterIsSound, NEW c \in Call, phase[c] = "ok", config.confirmations > 0
               PROVE  /\ Claimant(c) \in Committed.rewarded
                      /\ Committed.payee[Claimant(c)] = proof[c].sourceCredentials.addr
    BY DEF ConfirmedIsPaid, IsRewarded, Claimant
  <2>1. receipt[c] = "success" /\ running # c
    BY DEF SubmitterIsSound, CallsAreTraced
  <2>2. Claimant(c) \in Committed.rewarded /\ AddressHolds(c)
    BY <2>1 DEF SubmitterIsSound, ClaimsArePaid
  <2>3. Due(Committed)
    BY SoundCommitted DEF SubmitterIsSound, SubTypeOK, CommittedIsSound
  <2> QED BY <2>2, <2>3 DEF Due, AddressHolds
<1> QED BY <1>1, SubmitterIsSoundHolds, PTL
================================================================================

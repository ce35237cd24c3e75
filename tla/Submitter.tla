------------------------------- MODULE Submitter -------------------------------
(***************************************************************************)
(* The transaction submitter (prover/crates/service/src/submitter.rs)      *)
(* beside the contract it claims from.  Several calls of submit_claim run  *)
(* at once, for the same validator too: one may have failed after its      *)
(* transaction was sent, or its caller may just not have waited.  Between  *)
(* a call and the contract are an RPC node and its pool: an answer may be  *)
(* lost, a transaction executed late, in another order or never.  Others   *)
(* use the contract meanwhile: the recipients of rewards, the owner, other *)
(* claimants.  A block once executed stays: no reorganisations, so one     *)
(* confirmation stands for any number.                                     *)
(***************************************************************************)
EXTENDS ConsolidationIncentives

CONSTANTS
  Call,    \* calls of submit_claim
  NoCall,  \* no transaction of the submitter is running
  NoProof  \* the argument of a call not made yet

ASSUME SubmitterAssumption == NoCall \notin Call /\ NoProof \notin ClaimArgs

VARIABLES
  config,     \* SubmitterConfig: is there a signer, how many confirmations
  phase,      \* where each call is, or what it returned
  proof,      \* its argument
  pool,       \* the calls whose transactions are waiting to be executed
  receipt,    \* how each transaction executed so far ended
  running     \* the call whose transaction is being executed

client == <<config, phase, proof>>
net == <<pool, receipt, running>>
subVars == <<vars, client, net>>

Errors == {"noSigner", "gasPrice", "notSent", "noReceipt", "reverted"}
Waiting == {"send", "receipt"}
Returned == {"ok"} \cup Errors

SubTypeOK ==
  /\ TypeOK
  /\ config \in [signer : BOOLEAN, confirmations : Nat]
  /\ phase \in [Call -> {"idle"} \cup Waiting \cup Returned]
  /\ proof \in [Call -> ClaimArgs \cup {NoProof}]
  /\ pool \subseteq Call /\ \A c \in pool : receipt[c] = "none"
  /\ receipt \in [Call -> {"none", "success", "reverted"}]
  /\ running \in Call \cup {NoCall} /\ (running # NoCall => stack # <<>>)

\* Submitter::new has no signer, Submitter::with_signer has.
SubInit ==
  /\ Init
  /\ config \in [signer : BOOLEAN, confirmations : {0, 1}]
  /\ phase = [c \in Call |-> "idle"]
  /\ proof = [c \in Call |-> NoProof]
  /\ pool = {}
  /\ receipt = [c \in Call |-> "none"]
  /\ running = NoCall

-----------------------------------------------------------------------------
\* submit_claim.

Goto(c, p) == phase' = [phase EXCEPT ![c] = p]

\* The bundle the prover makes for source s against the block at time ts.
BundleOf(ts, s) ==
  [beaconTimestamp |-> ts, sourceIndex |-> s,
   activationEpoch |-> Root(ts).validators[s].activation,
   sourceCredentials |-> Root(ts).validators[s].creds]

\* The argument is taken by value, so the answer of get_gas_price (below the
\* maximum, above it, or none) can be part of the first step.
SubmitClaim(c, ts, s) ==
  /\ phase[c] = "idle"
  /\ Found(ts) /\ s \in Root(ts).pending
  /\ proof' = [proof EXCEPT ![c] = BundleOf(ts, s)]
  /\ IF config.signer THEN Goto(c, "send") \/ Goto(c, "gasPrice") ELSE Goto(c, "noSigner")
  /\ UNCHANGED <<vars, config, net>>

AfterSend == IF config.confirmations > 0 THEN "receipt" ELSE "ok"

\* send: the node takes a transaction whose gas it can estimate, that is, one
\* that would succeed now.
Send(c) ==
  /\ phase[c] = "send" /\ stack = <<>> /\ params # NotDeployed /\ CanClaim(proof[c])
  /\ pool' = pool \cup {c}
  /\ Goto(c, AfterSend)
  /\ UNCHANGED <<vars, config, proof, receipt, running>>

SendFails_Retries(c) ==
  /\ phase[c] = "send"
  /\ \/ UNCHANGED pool
     \/ stack = <<>> /\ params # NotDeployed /\ CanClaim(proof[c]) /\ pool' = pool \cup {c}
  /\ Goto(c, "send")
  /\ UNCHANGED <<vars, config, proof, receipt, running>>

\* It is refused, or its answer is lost although it was taken.
SendFails(c) ==
  /\ phase[c] = "send"
  /\ \/ UNCHANGED pool
     \/ stack = <<>> /\ params # NotDeployed /\ CanClaim(proof[c]) /\ pool' = pool \cup {c}
  /\ Goto(c, "notSent")
  /\ UNCHANGED <<vars, config, proof, receipt, running>>

GetReceipt_NoStatus(c) ==
  /\ phase[c] = "receipt" /\ receipt[c] # "none" /\ running # c
  /\ Goto(c, "ok")
  /\ UNCHANGED <<vars, config, proof, net>>

GetReceipt_SuccessOnly(c) ==
  /\ phase[c] = "receipt" /\ receipt[c] = "success" /\ running # c
  /\ Goto(c, "ok")
  /\ UNCHANGED <<vars, config, proof, net>>

\* get_receipt waits until the transaction was executed, and has no timeout.
GetReceipt(c) ==
  /\ phase[c] = "receipt" /\ receipt[c] # "none" /\ running # c
  /\ Goto(c, IF receipt[c] = "success" THEN "ok" ELSE "reverted")
  /\ UNCHANGED <<vars, config, proof, net>>

ReceiptFails(c) ==
  /\ phase[c] = "receipt"
  /\ Goto(c, "noReceipt")
  /\ UNCHANGED <<vars, config, proof, net>>

\* is_rewarded: a call on the state after the last transaction.
IsRewarded(s) == s \in Committed.rewarded

Submit(c) ==
  \/ \E ts \in 0..MaxTime, s \in Index : SubmitClaim(c, ts, s)
  \/ Send(c) \/ SendFails(c) \/ GetReceipt(c) \/ ReceiptFails(c)

-----------------------------------------------------------------------------
\* The transactions of the submitter.

\* One is taken from the pool, in any order ...
Include(c) ==
  /\ c \in pool /\ BeginTx
  /\ pool' = pool \ {c}
  /\ running' = c
  /\ UNCHANGED <<client, receipt>>

\* ... or dropped, for its fee or its nonce.
Drop(c) ==
  /\ c \in pool
  /\ pool' = pool \ {c}
  /\ UNCHANGED <<vars, client, receipt, running>>

Outcome(status) == receipt' = [receipt EXCEPT ![running] = status]

\* The transaction is a call of claimReward, whose transfer calls the recipient.
Execute ==
  /\ running # NoCall /\ Len(stack) = 1 /\ receipt[running] = "none"
  /\ ClaimReward(proof[running])
  /\ UNCHANGED <<client, net>>

\* The recipient returns, or fails and with it the claim.
RecipientEnds ==
  /\ running # NoCall /\ Len(stack) = 2
  /\ \/ Return /\ Outcome("success")
     \/ Revert /\ Outcome("reverted")
  /\ UNCHANGED <<client, pool, running>>

\* The transaction ends: after the claim, or undone because a check or the
\* transfer failed or the gas ran out.
TxEnds ==
  /\ running # NoCall /\ Len(stack) = 1
  /\ \/ receipt[running] = "success" /\ Return /\ UNCHANGED receipt
     \/ Revert /\ Outcome("reverted")
  /\ running' = NoCall
  /\ UNCHANGED <<client, pool>>

\* Everybody else: other transactions and blocks while none of the submitter
\* runs, and what the recipient of a claim does.
Others ==
  /\ Next
  /\ running = NoCall \/ (Len(stack) > 1 /\ Len(stack') > 1)
  /\ UNCHANGED <<client, net>>

OthersTxEnds == running = NoCall /\ Len(stack) = 1 /\ Return /\ UNCHANGED <<client, net>>

SubNext ==
  \/ \E c \in Call : Submit(c) \/ Include(c) \/ Drop(c)
  \/ Execute \/ RecipientEnds \/ TxEnds
  \/ Others

\* The calls go on, except that a receipt may never come; a transaction has
\* finite gas, so it ends whatever it calls; the pool is served again and again.
SubFairness ==
  /\ \A c \in Call : /\ WF_subVars(Send(c) \/ SendFails(c))
                     /\ WF_subVars(GetReceipt(c)) /\ SF_subVars(Include(c) \/ Drop(c))
  /\ WF_subVars(RecipientEnds) /\ WF_subVars(TxEnds) /\ SF_subVars(OthersTxEnds)

SubSpec == SubInit /\ [][SubNext]_subVars /\ SubFairness

-----------------------------------------------------------------------------
(* Properties. *)

\* When submit_claim has waited for its confirmations and returns Ok, a finished
\* transaction has paid the validator of its proof at the address of its proof,
\* and is_rewarded answers true from then on.
ConfirmedIsPaid ==
  \A c \in Call :
    phase[c] = "ok" /\ config.confirmations > 0 =>
      /\ IsRewarded(proof[c].sourceIndex)
      /\ Committed.payee[proof[c].sourceIndex] = proof[c].sourceCredentials.addr

\* A claim submitted again, because its first call returned an error after its
\* transaction was taken or was not waited for, pays nothing: of the calls for
\* one validator at most one has a transaction that succeeded.
RetriesPayOnce ==
  \A c, d \in Call :
    c # d /\ receipt[c] = "success" /\ receipt[d] = "success" =>
      proof[c].sourceIndex # proof[d].sourceIndex

\* The transaction c waits for is nowhere any more.
Lost(c) == phase[c] = "receipt" /\ c \notin pool /\ running # c /\ receipt[c] = "none"

\* Every call returns, also those whose transaction reverts; only a transaction
\* that was dropped leaves its call waiting.
ClaimsReturn == \A c \in Call : []<>(phase[c] \notin Waiting \/ Lost(c))
=============================================================================

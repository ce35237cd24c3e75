---------------------------- MODULE AbstractRewards ----------------------------
(***************************************************************************)
(* What the reward programme promises, without calls, proofs or roots: a   *)
(* table of who was paid for which validator, and a pot.  One step settles *)
(* everything a transaction did at once.                                   *)
(***************************************************************************)
EXTENDS Integers, FiniteSets

CONSTANTS Index, Account, This, NoOne, NotDeployed

VARIABLES
  reward,    \* the reward per validator, NotDeployed before the launch
  hasOwner,  \* somebody may withdraw
  entitled,  \* the addresses that may be paid for each validator
  paidTo,    \* whom each validator's reward went to, NoOne before
  pot, funded, drawn

avars == <<reward, hasOwner, entitled, paidTo, pot, funded, drawn>>

Init ==
  /\ reward = NotDeployed
  /\ hasOwner = FALSE
  /\ entitled = [s \in Index |-> {}]
  /\ paidTo = [s \in Index |-> NoOne]
  /\ pot = 0 /\ funded = 0 /\ drawn = 0

Launch ==
  /\ reward = NotDeployed
  /\ reward' \in Nat \ {0}
  /\ hasOwner' = TRUE
  /\ \A s \in Index : entitled[s] \subseteq entitled'[s]
  /\ UNCHANGED <<paidTo, pot, funded, drawn>>

\* Time passes and validators become entitled; an entitlement is never lost.
Entitle ==
  /\ \A s \in Index : entitled[s] \subseteq entitled'[s]
  /\ UNCHANGED <<reward, hasOwner, paidTo, pot, funded, drawn>>

\* The validators this step pays, and those of them whose reward leaves the pot.
Settled == {s \in Index : paidTo'[s] # paidTo[s]}
Leaving == {s \in Settled : paidTo'[s] \in Account}

\* One transaction: unpaid validators are paid, each to an address entitled to
\* it; the pot pays for them and for what an owner withdraws.
Settle ==
  /\ reward # NotDeployed
  /\ \A s \in Settled : paidTo[s] = NoOne /\ paidTo'[s] \in entitled[s]
  /\ funded' >= funded
  /\ drawn' >= drawn
  /\ drawn' > drawn => hasOwner
  /\ hasOwner' => hasOwner
  /\ pot' = pot + (funded' - funded) - (drawn' - drawn) - reward * Cardinality(Leaving)
  /\ pot' >= 0
  /\ UNCHANGED <<reward, entitled>>

Next == Launch \/ Entitle \/ Settle

Spec == Init /\ [][Next]_avars
================================================================================

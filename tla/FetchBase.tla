------------------------------- MODULE FetchBase -------------------------------
(***************************************************************************)
(* What the two modes of fetch-and-prove (prover/crates/real-chain-test)   *)
(* share: the beacon node as the program sees it, and the state of main.   *)
(* A state is abstracted to whether its pending_consolidations is empty.   *)
(* The node has blocks at the proposed slots, keeps the states of some of  *)
(* them, and answers 404 for every other slot.                             *)
(***************************************************************************)
EXTENDS Integers, Sequences, FiniteSets

CONSTANTS
  SlotsPerEpoch,  \* SLOTS_PER_EPOCH (16)
  MaxEpoch,       \* bound: the last epoch of the chain
  RestorePoint,   \* slots whose states the node never prunes
  Args,           \* command lines
  FinalizedId, HeadId,  \* --state-id finalized and head
  Torn,           \* a file that was truncated or begun and not written to its end
  None            \* an option that was not given, a value not there yet

Slot == 0..MaxEpoch * SlotsPerEpoch

\* The flags of a command line, a window being given by slots, by epochs or as the
\* last epochs, or "mixed" when these are combined or one end is missing.
CommandLine ==
  [watch : BOOLEAN, window : {"none", "slots", "epochs", "recent", "mixed"},
   from : Nat, to : Nat, step : Nat, reverse : BOOLEAN, limit : Nat \cup {None},
   stateId : Slot \cup {FinalizedId, HeadId},
   maxPolls : Nat \cup {None}, pollSeconds : Nat, files : {"none", "progress", "log", "both", "same"},
   inspect : BOOLEAN]

ASSUME FetchAssumption ==
  /\ SlotsPerEpoch \in Nat \ {0} /\ MaxEpoch \in Nat
  /\ RestorePoint \subseteq Slot
  /\ None \notin Nat /\ Args \subseteq CommandLine

VARIABLES
  proposed,        \* slots with a block
  nonEmpty,        \* those whose state has pending consolidations
  retained,        \* those whose state the node still serves
  finalizedEpoch,  \* of the node
  args,            \* the command line
  pc,              \* the request or step main is at
  finality,        \* the finalized epoch main holds
  target,          \* the slot of the state that was chosen
  pending,         \* whether pending consolidations were found there
  failure          \* why main returned an error, "none" otherwise

node == <<proposed, nonEmpty, retained, finalizedEpoch>>
main == <<args, pc, finality, target, pending, failure>>

Failures == {"none", "arguments", "node", "notFound", "pruned", "noState", "io"}

FirstSlot(epoch) == epoch * SlotsPerEpoch

FetchTypeOK ==
  /\ proposed \subseteq Slot /\ nonEmpty \subseteq proposed /\ retained \subseteq proposed
  /\ finalizedEpoch \in 0..MaxEpoch
  /\ args \in Args
  /\ finality \in 0..finalizedEpoch
  /\ target \in Slot \cup {None} /\ pending \in BOOLEAN
  /\ failure \in Failures

FetchInit ==
  /\ proposed \in {S \in SUBSET Slot : 0 \in S}
  /\ nonEmpty \in SUBSET proposed
  /\ retained = proposed
  /\ finalizedEpoch \in 0..MaxEpoch
  /\ args \in Args
  /\ pc = "finality" /\ finality = 0 /\ target = None /\ pending = FALSE /\ failure = "none"

-----------------------------------------------------------------------------
\* The node.

FinalizeMore ==
  /\ \E e \in finalizedEpoch + 1..MaxEpoch : finalizedEpoch' = e
  /\ UNCHANGED <<proposed, nonEmpty, retained>>

\* States older than the finalized one are dropped, but for the restore points.
Prune ==
  /\ \E horizon \in 0..FirstSlot(finalizedEpoch) :
       retained' = {s \in retained : s >= horizon \/ s \in RestorePoint}
  /\ retained' # retained
  /\ UNCHANGED <<proposed, nonEmpty, finalizedEpoch>>

-----------------------------------------------------------------------------
\* What the client makes of the node's answers for slot s; anything but a 404
\* and an answer is a failure of its own.

\* get_finality_checkpoints: the finalized one of the three.
FinalityCheckpoints == finalizedEpoch

\* get_state_ssz: many nodes do not serve debug states at all.
DebugStateAnswers(s) == {served \in BOOLEAN : served => s \in retained}

\* get_pending_consolidations: StateNotFound otherwise.
StateFound(s) == s \in retained

\* get_header: HeaderNotFound otherwise.
HeaderFound(s) == s \in proposed

\* get_validator_info: a source of the pending list is in the registry of the
\* same state, so that StateNotFound means what it says.
ValidatorFound(s) == s \in retained

-----------------------------------------------------------------------------
\* main returns an error.
Fail(reason) ==
  /\ pc' = "exited"
  /\ failure' = reason
  /\ UNCHANGED <<args, finality, target, pending>>

\* resolve_target_state returns the state at slot s to main.
Resolved(s, found) ==
  /\ pc' = "header"
  /\ target' = s
  /\ pending' = found
  /\ UNCHANGED <<args, finality, failure>>

Goto(step) == pc' = step /\ UNCHANGED <<args, finality, target, pending, failure>>
================================================================================

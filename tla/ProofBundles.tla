------------------------------ MODULE ProofBundles ------------------------------
(***************************************************************************)
(* The two ways proof-gen makes a proof bundle, with their errors: over    *)
(* field roots (state_prover.rs, sparse_proof.rs), which is what fetched   *)
(* states and test vectors use, and over a whole state held in memory      *)
(* (proof.rs, beacon_state.rs), which the tests compare it with.  The      *)
(* state held in memory is smaller only in the limits of its lists, which  *)
(* are parameters here.                                                    *)
(***************************************************************************)
EXTENDS SSZMerkle

Error(reason) == [error |-> reason]

\* What both check before they prove anything about pending_consolidations[i].
Refusal(w, i) ==
  CASE i >= Len(w.pending) -> "ConsolidationIndexOutOfBounds"
    [] i < Len(w.pending) /\ w.pending[i + 1].source_index >= Len(w.validators) ->
         "ValidatorIndexOutOfBounds"
    [] OTHER -> "none"

-----------------------------------------------------------------------------
\* Over field roots.

\* compute_list_root
ComputeListRoot(hashes, depth) ==
  HashPair(SubtreeRoot(hashes, 0, depth), LittleEndian(Len(hashes)))

\* compute_state_root
ComputeStateRoot(fieldRoots) == SubtreeRoot(fieldRoots, 0, STATE_DEPTH)

\* The field roots a caller of StateProver computes.
GivenFieldRoots(w) ==
  [FieldRoots(w) EXCEPT
     ![VALIDATORS_FIELD_INDEX + 1] = ComputeListRoot(ValidatorHashes(w), ValidatorListDepth),
     ![PENDING_CONSOLIDATIONS_FIELD_INDEX + 1] =
        ComputeListRoot(ConsolidationHashes(w), ConsolidationListDepth)]

\* StateProver's generate_full_proof_bundle
GenerateFullProofBundle(w, i) ==
  IF Refusal(w, i) = "none" THEN Bundle(w, i) ELSE Error(Refusal(w, i))

-----------------------------------------------------------------------------
\* Over a state in memory.

\* ssz_rs' prove: the path of field names and indices as a generalized index,
\* and the branch the whole tree has there.
Prove(tree, path) == Branch(tree, ConcatGindices(path))
StatePath(field, depth, i, inner) == <<64 + field, 2, 2^depth + i, inner>>

\* generate_proofs_from_state
GenerateProofsFromState(w, i) ==
  LET state     == Merkleize(FieldRoots(w), STATE_DEPTH)
      source    == w.pending[i + 1].source_index
      validator == w.validators[source + 1]
      OfValidator(field) ==
        Prove(state, StatePath(VALIDATORS_FIELD_INDEX, ValidatorListDepth, source, 8 + field))
  IN  [consolidationIndex  |-> i,
       sourceIndex         |-> source,
       activationEpoch     |-> validator.activation_epoch,
       sourceCredentials   |-> validator.withdrawal_credentials,
       proofConsolidation  |-> Prove(state, StatePath(PENDING_CONSOLIDATIONS_FIELD_INDEX,
                                                      ConsolidationListDepth, i,
                                                      2 + SOURCE_INDEX_FIELD_INDEX)),
       proofCredentials    |-> OfValidator(WITHDRAWAL_CREDENTIALS_FIELD_INDEX),
       proofActivationEpoch |-> OfValidator(ACTIVATION_EPOCH_FIELD_INDEX)]

HeaderBranch(w) == Prove(Merkleize(HeaderChunks(w), HEADER_DEPTH), <<8 + STATE_ROOT_FIELD_INDEX>>)

InMemoryBundle_HeaderFirst(w, i) ==
  IF Refusal(w, i) # "none" THEN Error(Refusal(w, i))
  ELSE LET proofs == GenerateProofsFromState(w, i) IN
       [proofs EXCEPT !.proofConsolidation = HeaderBranch(w) \o @,
                      !.proofCredentials = HeaderBranch(w) \o @,
                      !.proofActivationEpoch = HeaderBranch(w) \o @]

\* ProofGenerator's generate_full_proof_bundle
InMemoryBundle(w, i) ==
  IF Refusal(w, i) # "none" THEN Error(Refusal(w, i))
  ELSE LET proofs == GenerateProofsFromState(w, i) IN
       [proofs EXCEPT !.proofConsolidation = @ \o HeaderBranch(w),
                      !.proofCredentials = @ \o HeaderBranch(w),
                      !.proofActivationEpoch = @ \o HeaderBranch(w)]

-----------------------------------------------------------------------------
\* The last bytes of a credential, 20 of 32 in the code.
AddressOf(credentials) == SubSeq(credentials, 3, 4)

\* recipient_address: whom the contract will pay, if it pays.
RecipientAddress(bundle) ==
  IF bundle.sourceCredentials[1] \in {1, 2} THEN AddressOf(bundle.sourceCredentials) ELSE "None"

\* consolidation_proof_length and validator_proof_length
ConsolidationProofLength == Log2(ServiceConsolidationGindex(0))
ValidatorProofLength == Log2(ServiceValidatorGindex(0, WITHDRAWAL_CREDENTIALS_FIELD_INDEX))

-----------------------------------------------------------------------------
(* Properties. *)

\* The sparse prover, which never holds the tree, and the prover that holds it
\* whole answer alike for every index: the same error or the same bundle, of the
\* announced lengths, under the same state root.
ProversAgree ==
  claim = NoClaim =>
    /\ ComputeStateRoot(GivenFieldRoots(world)) = Merkleize(FieldRoots(world), STATE_DEPTH)
    /\ \A i \in 0..Len(world.pending) :
         LET bundle == GenerateFullProofBundle(world, i) IN
         /\ InMemoryBundle(world, i) = bundle
         /\ Refusal(world, i) = "none" =>
              /\ Len(bundle.proofConsolidation) = ConsolidationProofLength
              /\ Len(bundle.proofCredentials) = ValidatorProofLength
              /\ Len(bundle.proofActivationEpoch) = ValidatorProofLength
================================================================================

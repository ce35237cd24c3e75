------------------------------- MODULE SSZMerkle -------------------------------
(***************************************************************************)
(* The Merkle proofs of a claim: how the prover builds them                *)
(* (prover/crates/proof-gen: sparse_proof.rs, state_prover.rs, gindex.rs)  *)
(* and how the contract checks them (SSZMerkleVerifier.sol and checks 4 to *)
(* 7 of claimReward).                                                      *)
(*                                                                         *)
(* SHA-256 is symbolic: the hash of a pair is the pair, so it is injective *)
(* and never a 32-byte chunk, and a branch for a place exists exactly when *)
(* the tree reaches that place.  A chunk is four bytes instead of 32, its  *)
(* first half the 8 bytes of a uint64.  The header, the state, a validator *)
(* and a consolidation keep their real fields and depths; the two lists    *)
(* are scaled down, and every index argument is wide enough to reach over  *)
(* all the bits of a generalized index and beyond its leading one.         *)
(***************************************************************************)
EXTENDS Integers, Sequences, SequencesExt

CONSTANTS
  ValidatorListDepth,      \* VALIDATOR_LIST_DEPTH (40)
  ConsolidationListDepth,  \* CONSOLIDATION_LIST_DEPTH (18)
  WordSteps,               \* a word of the contract has 2^WordSteps bits (8)
  U64Bits,                 \* an integer of the service has so many bits (64)
  World,                   \* the beacon states checked, see WorldAssumption
  NoClaim                  \* no call yet

ByteValue == 0..255
Chunk == ByteValue \X ByteValue \X ByteValue \X ByteValue

Validator == [withdrawal_credentials : Chunk, activation_epoch : Nat]
\* A source is a validator of the registry, so far below this bound.  (An index
\* with a bit beyond it could be or-ed into another validator's place.)
PendingConsolidation == [source_index : 0..2^(ValidatorListDepth + 1) - 1, target_index : Nat]

ASSUME DepthAssumption ==
  ValidatorListDepth \in Nat /\ ConsolidationListDepth \in Nat /\ WordSteps \in Nat

\* A word has room for the generalized index of every argument.
ASSUME WordAssumption ==
  ConsolidationListDepth + 23 < 2^WordSteps /\ ValidatorListDepth + 25 < 2^WordSteps

\* An integer of the service has room for a validator index one bit too long, so
\* for every source a consolidation can name; longer ones may lose bits.
ASSUME U64Assumption ==
  U64Bits \in Nat /\ ConsolidationListDepth + 12 <= U64Bits /\ ValidatorListDepth + 15 <= U64Bits

ASSUME WorldAssumption ==
  \A w \in World :
    /\ w.validators \in Seq(Validator) /\ Len(w.validators) <= 2^ValidatorListDepth
    /\ w.pending \in Seq(PendingConsolidation) /\ Len(w.pending) <= 2^ConsolidationListDepth
    /\ w.fresh \in BOOLEAN

HEADER_DEPTH == 3
STATE_ROOT_FIELD_INDEX == 3
STATE_ROOT_GINDEX_IN_HEADER == 11
STATE_DEPTH == 6
VALIDATORS_FIELD_INDEX == 11
PENDING_CONSOLIDATIONS_FIELD_INDEX == 36
BEACON_STATE_FIELD_COUNT == 37
VALIDATOR_DEPTH == 3
WITHDRAWAL_CREDENTIALS_FIELD_INDEX == 1
ACTIVATION_EPOCH_FIELD_INDEX == 5
CONSOLIDATION_DEPTH == 1
SOURCE_INDEX_FIELD_INDEX == 0

CONSOLIDATION_PROOF_LENGTH ==
  HEADER_DEPTH + STATE_DEPTH + 1 + ConsolidationListDepth + CONSOLIDATION_DEPTH
VALIDATOR_PROOF_LENGTH == HEADER_DEPTH + STATE_DEPTH + 1 + ValidatorListDepth + VALIDATOR_DEPTH

HashPair(a, b) == <<a, b>>
ZeroChunk == <<0, 0, 0, 0>>
Opaque(field) == <<255, field, 255, 255>>  \* a root or value the checks never open
LittleEndian(n) == <<n % 256, n \div 256, 0, 0>>

\* zero_hashes
ZeroHash[d \in Nat] == IF d = 0 THEN ZeroChunk ELSE HashPair(ZeroHash[d - 1], ZeroHash[d - 1])

-----------------------------------------------------------------------------
\* Bits.

\* a | b
Or[a \in Nat] ==
  [b \in Nat |->
     IF a = 0 \/ b = 0 THEN a + b
     ELSE 2 * Or[a \div 2][b \div 2] + (IF a % 2 = 1 \/ b % 2 = 1 THEN 1 ELSE 0)]

\* n ^ 1: the other child of the same node.
Sibling(n) == IF n % 2 = 0 THEN n + 1 ELSE n - 1

\* _log2: binary search for the highest set bit.
Log2(x) ==
  LET search[k \in 0..WordSteps] ==
        IF k = 0 THEN [x |-> x, result |-> 0]
        ELSE LET s    == search[k - 1]
                 bits == 2^(WordSteps - k)
             IN  IF s.x >= 2^bits THEN [x |-> s.x \div 2^bits, result |-> s.result + bits] ELSE s
  IN  search[WordSteps].result

-----------------------------------------------------------------------------
\* The SSZ trees as the consensus layer defines them: all leaves in place.

Merkleize(chunks, depth) ==
  LET layer[d \in 0..depth] ==
        IF d = 0
        THEN [i \in 0..2^depth - 1 |-> IF i < Len(chunks) THEN chunks[i + 1] ELSE ZeroChunk]
        ELSE [i \in 0..2^(depth - d) - 1 |-> HashPair(layer[d - 1][2 * i], layer[d - 1][2 * i + 1])]
  IN  layer[depth][0]

ValidatorChunks(v) ==
  [k \in 1..8 |-> CASE k = WITHDRAWAL_CREDENTIALS_FIELD_INDEX + 1 -> v.withdrawal_credentials
                    [] k = ACTIVATION_EPOCH_FIELD_INDEX + 1 -> LittleEndian(v.activation_epoch)
                    [] OTHER -> Opaque(k)]
ConsolidationChunks(c) == <<LittleEndian(c.source_index), LittleEndian(c.target_index)>>

ValidatorHashes(w) ==
  [i \in DOMAIN w.validators |-> Merkleize(ValidatorChunks(w.validators[i]), VALIDATOR_DEPTH)]
ConsolidationHashes(w) ==
  [i \in DOMAIN w.pending |-> Merkleize(ConsolidationChunks(w.pending[i]), CONSOLIDATION_DEPTH)]

ListRoot(hashes, depth) == HashPair(Merkleize(hashes, depth), LittleEndian(Len(hashes)))

\* The state test vectors are made for: apart from its two lists every field has
\* its default value.  Vectors of zeros are at most ZeroDepth deep here.
ZeroDepth == 3
DefaultContainer(depth) == ZeroHash[depth]
ZeroVector == ZeroHash[ZeroDepth]
EmptyListRoot == HashPair(ZeroVector, LittleEndian(0))
DefaultSyncCommittee == HashPair(ZeroVector, ZeroHash[1])  \* public keys, their aggregate

DefaultField(w, field) ==
  CASE field = 2 -> LittleEndian(1000)
    [] field \in {3, 8} -> DefaultContainer(2)
    [] field = 4 -> DefaultContainer(3)
    [] field \in 18..20 -> DefaultContainer(1)
    [] field \in {5, 6, 13, 14, 24} -> ZeroVector
    [] field \in {22, 23} -> DefaultSyncCommittee
    [] field \in {7, 9, 15, 16, 21, 27, 34, 35} -> EmptyListRoot
    [] field = 12 -> HashPair(Opaque(12), LittleEndian(Len(w.validators)))
    [] OTHER -> ZeroChunk

FieldRoots(w) ==
  [k \in 1..BEACON_STATE_FIELD_COUNT |->
     CASE k = VALIDATORS_FIELD_INDEX + 1 -> ListRoot(ValidatorHashes(w), ValidatorListDepth)
       [] k = PENDING_CONSOLIDATIONS_FIELD_INDEX + 1 ->
            ListRoot(ConsolidationHashes(w), ConsolidationListDepth)
       [] OTHER -> IF w.fresh THEN DefaultField(w, k - 1) ELSE Opaque(k)]

HeaderChunks(w) ==
  [k \in 1..5 |-> IF k = STATE_ROOT_FIELD_INDEX + 1 THEN Merkleize(FieldRoots(w), STATE_DEPTH)
                  ELSE Opaque(k)]

BlockRoot == [w \in World |-> Merkleize(HeaderChunks(w), HEADER_DEPTH)]

-----------------------------------------------------------------------------
\* The prover.

GetLeaf(chunks, index) == IF index < Len(chunks) THEN chunks[index + 1] ELSE ZeroChunk

SubtreeRoot_OneDeeper(chunks, start, depth) ==
  LET root[d \in 0..depth] ==
        [s \in Nat |->
           IF d = 0 THEN GetLeaf(chunks, s)
           ELSE IF s + 1 >= Len(chunks) THEN ZeroHash[d]
           ELSE HashPair(root[d - 1][s], root[d - 1][s + 2^(d - 1)])]
  IN  root[depth][start]

\* compute_subtree_root: no descent into the padding.
SubtreeRoot(chunks, start, depth) ==
  LET root[d \in 0..depth] ==
        [s \in Nat |->
           IF d = 0 THEN GetLeaf(chunks, s)
           ELSE IF s >= Len(chunks) THEN ZeroHash[d]
           ELSE HashPair(root[d - 1][s], root[d - 1][s + 2^(d - 1)])]
  IN  root[depth][start]

\* prove_against_leaf_chunks: the siblings of the ancestors, from leaf to root.
ProveAgainstLeafChunks(chunks, index, depth) ==
  [k \in 1..depth |->
     LET level == k - 1 IN
     SubtreeRoot(chunks, Sibling(index \div 2^level) * 2^level, level)]

\* The layers of a proof from the state root: container, list data, length, state.
StateProof(w, inner, list, index, listDepth, field) ==
  inner \o ProveAgainstLeafChunks(list, index, listDepth)
        \o <<LittleEndian(Len(list))>>
        \o ProveAgainstLeafChunks(FieldRoots(w), field, STATE_DEPTH)

ConsolidationProof(w, i) ==
  StateProof(w, ProveAgainstLeafChunks(ConsolidationChunks(w.pending[i + 1]),
                                       SOURCE_INDEX_FIELD_INDEX, CONSOLIDATION_DEPTH),
             ConsolidationHashes(w), i, ConsolidationListDepth, PENDING_CONSOLIDATIONS_FIELD_INDEX)

ValidatorProof(w, i, field) ==
  StateProof(w, ProveAgainstLeafChunks(ValidatorChunks(w.validators[i + 1]), field, VALIDATOR_DEPTH),
             ValidatorHashes(w), i, ValidatorListDepth, VALIDATORS_FIELD_INDEX)

\* generate_full_proof_bundle for pending_consolidations[i]
Bundle(w, i) ==
  LET header == ProveAgainstLeafChunks(HeaderChunks(w), STATE_ROOT_FIELD_INDEX, HEADER_DEPTH)
      source == w.pending[i + 1].source_index
  IN  [consolidationIndex  |-> i,
       sourceIndex         |-> source,
       activationEpoch     |-> w.validators[source + 1].activation_epoch,
       sourceCredentials   |-> w.validators[source + 1].withdrawal_credentials,
       proofConsolidation  |-> ConsolidationProof(w, i) \o header,
       proofCredentials    |-> ValidatorProof(w, source, WITHDRAWAL_CREDENTIALS_FIELD_INDEX) \o header,
       proofActivationEpoch |-> ValidatorProof(w, source, ACTIVATION_EPOCH_FIELD_INDEX) \o header]

-----------------------------------------------------------------------------
\* Generalized indices, by the contract and by the service.

ShiftOr(gindex, bits, index) == Or[gindex * 2^bits][index]

\* The data trees of the two lists, left children of the state's fields.
FieldGindex(field) == ShiftOr(STATE_ROOT_GINDEX_IN_HEADER, STATE_DEPTH, field)
ConsolidationData == 2 * FieldGindex(PENDING_CONSOLIDATIONS_FIELD_INDEX)
ValidatorData == 2 * FieldGindex(VALIDATORS_FIELD_INDEX)

ConsolidationSourceGindex_Length(consolidationIndex) ==
  ShiftOr(ShiftOr(ConsolidationData + 1, ConsolidationListDepth, consolidationIndex),
          CONSOLIDATION_DEPTH, SOURCE_INDEX_FIELD_INDEX)

\* consolidationSourceGindex
ConsolidationSourceGindex(consolidationIndex) ==
  ShiftOr(ShiftOr(ConsolidationData, ConsolidationListDepth, consolidationIndex),
          CONSOLIDATION_DEPTH, SOURCE_INDEX_FIELD_INDEX)

\* validatorCredentialsGindex and validatorActivationEpochGindex
ValidatorGindex(validatorIndex, field) ==
  ShiftOr(ShiftOr(ValidatorData, ValidatorListDepth, validatorIndex), VALIDATOR_DEPTH, field)

\* u64 in a release build: what an oversized index shifts or carries beyond the word
\* is lost.  (A debug build panics on the carry.  The depth of a sum of 0 is left open.)
U64(n) == n % 2^U64Bits
U64ShiftOr(gindex, bits, index) == Or[U64(gindex * 2^bits)][index]

\* GindexCalculator::concat_gindices: each index without its leading bit.
ConcatGindices(gindices) ==
  LET result[k \in 0..Len(gindices)] ==
        IF k = 0 THEN 1
        ELSE LET depth == Log2(gindices[k])
             IN  U64ShiftOr(result[k - 1], depth, gindices[k] - 2^depth)
  IN  result[Len(gindices)]

ServiceConsolidationGindex(i) ==
  ConcatGindices(<<8 + 3, 64 + 36, 2, U64(2^ConsolidationListDepth + i), 2 + 0>>)
ServiceValidatorGindex(i, field) ==
  ConcatGindices(<<8 + 3, 64 + 11, 2, U64(2^ValidatorListDepth + i), 8 + field>>)

-----------------------------------------------------------------------------
\* The contract's checks.

\* toLittleEndian64 reverses the bytes of the word and puts them first.
ToLittleEndian64(value) == Reverse(<<value \div 256, value % 256>>) \o <<0, 0>>

\* verifyProof
VerifyProof(root, leaf, proof, gindex) ==
  LET loop[i \in 0..Len(proof)] ==
        IF i = 0 THEN [computed |-> leaf, index |-> gindex]
        ELSE LET l == loop[i - 1] IN
             [computed |-> IF l.index % 2 = 0 THEN HashPair(l.computed, proof[i])
                           ELSE HashPair(proof[i], l.computed),
              index    |-> l.index \div 2]
  IN  CASE gindex = 0 -> FALSE
        [] gindex = 1 -> Len(proof) = 0 /\ leaf = root
        [] OTHER      -> Len(proof) = Log2(gindex) /\ loop[Len(proof)].computed = root

ProofsPass_NoConsolidation(root, c) ==
  /\ Len(c.proofCredentials) = VALIDATOR_PROOF_LENGTH
  /\ Len(c.proofActivationEpoch) = VALIDATOR_PROOF_LENGTH
  /\ VerifyProof(root, c.sourceCredentials, c.proofCredentials,
                 ValidatorGindex(c.sourceIndex, WITHDRAWAL_CREDENTIALS_FIELD_INDEX))
  /\ VerifyProof(root, ToLittleEndian64(c.activationEpoch), c.proofActivationEpoch,
                 ValidatorGindex(c.sourceIndex, ACTIVATION_EPOCH_FIELD_INDEX))

\* claimReward, checks 4 to 7
ProofsPass(root, c) ==
  /\ Len(c.proofConsolidation) = CONSOLIDATION_PROOF_LENGTH
  /\ Len(c.proofCredentials) = VALIDATOR_PROOF_LENGTH
  /\ Len(c.proofActivationEpoch) = VALIDATOR_PROOF_LENGTH
  /\ VerifyProof(root, ToLittleEndian64(c.sourceIndex), c.proofConsolidation,
                 ConsolidationSourceGindex(c.consolidationIndex))
  /\ VerifyProof(root, c.sourceCredentials, c.proofCredentials,
                 ValidatorGindex(c.sourceIndex, WITHDRAWAL_CREDENTIALS_FIELD_INDEX))
  /\ VerifyProof(root, ToLittleEndian64(c.activationEpoch), c.proofActivationEpoch,
                 ValidatorGindex(c.sourceIndex, ACTIVATION_EPOCH_FIELD_INDEX))

-----------------------------------------------------------------------------
\* The service's own check.

\* ssz_rs: a branch as long as its place is deep, folded towards the root.  (It
\* refuses index 0; here none verifies there either, for no leaf is a block root.)
IsValidBranch(leaf, branch, gindex, root) ==
  LET node[k \in 0..Len(branch)] ==
        IF k = 0 THEN leaf
        ELSE IF (gindex \div 2^(k - 1)) % 2 = 1 THEN HashPair(branch[k], node[k - 1])
        ELSE HashPair(node[k - 1], branch[k])
  IN  Len(branch) = Log2(gindex) /\ node[Len(branch)] = root

VerifyProofBundle_NoConsolidation(bundle, root) ==
  /\ IsValidBranch(bundle.sourceCredentials, bundle.proofCredentials,
                   ServiceValidatorGindex(bundle.sourceIndex, WITHDRAWAL_CREDENTIALS_FIELD_INDEX), root)
  /\ IsValidBranch(LittleEndian(bundle.activationEpoch), bundle.proofActivationEpoch,
                   ServiceValidatorGindex(bundle.sourceIndex, ACTIVATION_EPOCH_FIELD_INDEX), root)

\* verify_proof_bundle
VerifyProofBundle(bundle, root) ==
  /\ IsValidBranch(LittleEndian(bundle.sourceIndex), bundle.proofConsolidation,
                   ServiceConsolidationGindex(bundle.consolidationIndex), root)
  /\ IsValidBranch(bundle.sourceCredentials, bundle.proofCredentials,
                   ServiceValidatorGindex(bundle.sourceIndex, WITHDRAWAL_CREDENTIALS_FIELD_INDEX), root)
  /\ IsValidBranch(LittleEndian(bundle.activationEpoch), bundle.proofActivationEpoch,
                   ServiceValidatorGindex(bundle.sourceIndex, ACTIVATION_EPOCH_FIELD_INDEX), root)

-----------------------------------------------------------------------------
\* Claims and their verdicts.

VARIABLES
  world,    \* the beacon state behind the root that the oracle returned
  claim,    \* the scalar arguments of the call (NoClaim: none was made yet)
  byProver, \* its branches are a bundle of the prover, not the caller's own
  accepted, \* checks 4 to 7 passed
  verified  \* the service's own check of the same bundle passed

vars == <<world, claim, byProver, accepted, verified>>

\* uint64 arguments: every bit of a generalized index and one beyond.
ConsolidationArg == 0..2^(ConsolidationListDepth + 12) - 1
ValidatorArg == 0..2^(ValidatorListDepth + 12) - 1

\* The branch at gindex of the tree under root, the only one that can verify
\* there; any other sequence of hashes stands for a place the tree lacks.
Branch(root, gindex) ==
  LET depth == Log2(gindex)
      walk[k \in 0..depth] ==
        IF k = 0 THEN [node |-> root, branch |-> <<>>]
        ELSE LET w   == walk[k - 1]
                 bit == (gindex \div 2^(depth - k)) % 2
             IN  IF Len(w.node) # 2 THEN [w EXCEPT !.branch = <<ZeroChunk>> \o @]
                 ELSE [node |-> w.node[1 + bit], branch |-> <<w.node[2 - bit]>> \o w.branch]
  IN  walk[depth].branch

Init ==
  /\ world \in World
  /\ claim = NoClaim
  /\ byProver = FALSE
  /\ accepted = FALSE
  /\ verified = FALSE

Judge(c, own) ==
  /\ claim' = [consolidationIndex |-> c.consolidationIndex, sourceIndex |-> c.sourceIndex,
               activationEpoch |-> c.activationEpoch, sourceCredentials |-> c.sourceCredentials]
  /\ byProver' = own
  /\ accepted' = ProofsPass(BlockRoot[world], c)
  /\ verified' = VerifyProofBundle(c, BlockRoot[world])
  /\ UNCHANGED world

\* A claim with the bundle the service generates for consolidation i.
ProverClaim(i) ==
  /\ world.pending[i + 1].source_index < Len(world.validators)
  /\ Judge(Bundle(world, i), TRUE)

\* Where the contract and where the service look for the three leaves of a claim.
ContractPlaces(consolidationIndex, sourceIndex) ==
  [source      |-> ConsolidationSourceGindex(consolidationIndex),
   credentials |-> ValidatorGindex(sourceIndex, WITHDRAWAL_CREDENTIALS_FIELD_INDEX),
   epoch       |-> ValidatorGindex(sourceIndex, ACTIVATION_EPOCH_FIELD_INDEX)]
ServicePlaces(consolidationIndex, sourceIndex) ==
  [source      |-> ServiceConsolidationGindex(consolidationIndex),
   credentials |-> ServiceValidatorGindex(sourceIndex, WITHDRAWAL_CREDENTIALS_FIELD_INDEX),
   epoch       |-> ServiceValidatorGindex(sourceIndex, ACTIVATION_EPOCH_FIELD_INDEX)]

\* A claim with arguments of the caller's choice: the credentials and the epoch
\* are those of validator v, the branches whatever the tree offers there.
CallerClaim(consolidationIndex, sourceIndex, v) ==
  \E places \in {ContractPlaces(consolidationIndex, sourceIndex),
                ServicePlaces(consolidationIndex, sourceIndex)} :
    LET root == BlockRoot[world] IN
    Judge([consolidationIndex   |-> consolidationIndex,
           sourceIndex          |-> sourceIndex,
           activationEpoch      |-> world.validators[v].activation_epoch,
           sourceCredentials    |-> world.validators[v].withdrawal_credentials,
           proofConsolidation   |-> Branch(root, places.source),
           proofCredentials     |-> Branch(root, places.credentials),
           proofActivationEpoch |-> Branch(root, places.epoch)], FALSE)

Next ==
  /\ claim = NoClaim
  /\ \/ \E i \in 0..Len(world.pending) - 1 : ProverClaim(i)
     \/ \E v \in DOMAIN world.validators :
          \/ \E c \in ConsolidationArg : CallerClaim(c, v - 1, v)
          \/ \E c \in 0..Len(world.pending) - 1, s \in ValidatorArg : CallerClaim(c, s, v)

Spec == Init /\ [][Next]_vars

-----------------------------------------------------------------------------
(* Properties. *)

\* Every bundle the prover generates passes the contract's checks: the two
\* languages agree on layers, sibling order, zero padding and list lengths.
ProverBundlesVerify == byProver => accepted

\* Whatever indices and branches a caller submits, a claim that passes names a
\* validator that exists, is the source of a pending consolidation, and has the
\* credentials and the activation epoch claimed.  An index is or-ed into the
\* generalized index without a range check, padding is all zeros and so is the
\* leaf of validator 0; the three checks together leave no way through.
AcceptedIsTrue ==
  accepted =>
    \E v \in DOMAIN world.validators :
      /\ claim.sourceIndex = v - 1
      /\ \E i \in DOMAIN world.pending : world.pending[i].source_index = v - 1
      /\ claim.sourceCredentials = world.validators[v].withdrawal_credentials
      /\ claim.activationEpoch = world.validators[v].activation_epoch

\* Within the limits of the lists the contract's shifts and the service's
\* concatenation of generalized indices name the same leaves.
GindexesAgree ==
  claim = NoClaim =>
    /\ \A i \in 0..2^ConsolidationListDepth - 1 :
         ConsolidationSourceGindex(i) = ServiceConsolidationGindex(i)
    /\ \A i \in 0..2^ValidatorListDepth - 1 :
         \A f \in {WITHDRAWAL_CREDENTIALS_FIELD_INDEX, ACTIVATION_EPOCH_FIELD_INDEX} :
           ValidatorGindex(i, f) = ServiceValidatorGindex(i, f)

\* The service's own check decides as the contract will: for a consolidationIndex
\* within the list verify_proof_bundle accepts a bundle exactly when checks 4 to 7
\* of claimReward pass, whatever the other arguments and the branches.  (Beyond the
\* list they may differ either way.  The contract or-s the extra bits into the
\* generalized index, where they can coincide with those of the place; the
\* service's shift of a u64 drops high bits, so that the rest can name another leaf.
\* A sourceIndex needs no such limit: the consolidation's own leaf fixes it.)
VerifiersAgree ==
  claim # NoClaim /\ claim.consolidationIndex < 2^ConsolidationListDepth =>
    (verified <=> accepted)
================================================================================

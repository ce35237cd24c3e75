------------------------------ MODULE ClaimVectors ------------------------------
(***************************************************************************)
(* The test vectors (prover/crates/test-vectors) that the contract's tests *)
(* and the devnet plan (prover/crates/service/src/bin/devnet-plan.rs) are  *)
(* fed with, and the verdict of claimReward on a claim: the error it       *)
(* reverts with, which depends on the order of its checks.  The generator  *)
(* picks one consolidation of each kind; here every one that fits is used. *)
(***************************************************************************)
EXTENDS ProofBundles

CONSTANT MaxEpoch  \* max_epoch of the vectors and maxEpoch of the contract

\* The two lengths differ (29 and 53), or a swapped proof would only be an
\* invalid one.
ASSUME VectorAssumption ==
  MaxEpoch \in Nat /\ CONSOLIDATION_PROOF_LENGTH # VALIDATOR_PROOF_LENGTH

VARIABLE vector  \* what the vector tried expects and what it gets

vectorVars == <<vars, vector>>

-----------------------------------------------------------------------------
\* claimReward, checks 4 to 9 and the recipient; the first check that fails
\* decides.

CheckProofs(root, c) ==
  CASE \/ Len(c.proofConsolidation) # CONSOLIDATION_PROOF_LENGTH
       \/ Len(c.proofCredentials) # VALIDATOR_PROOF_LENGTH
       \/ Len(c.proofActivationEpoch) # VALIDATOR_PROOF_LENGTH -> "InvalidProofLength"
    [] OTHER -> IF ProofsPass(root, c) THEN "ok" ELSE "InvalidProof"

Verdict_Inclusive(root, c) ==
  IF CheckProofs(root, c) # "ok" THEN CheckProofs(root, c)
  ELSE IF c.activationEpoch > MaxEpoch THEN "NotEligible"
  ELSE IF c.sourceCredentials[1] \notin {1, 2} THEN "InvalidCredentialsPrefix"
  ELSE AddressOf(c.sourceCredentials)

Verdict(root, c) ==
  IF CheckProofs(root, c) # "ok" THEN CheckProofs(root, c)
  ELSE IF c.activationEpoch >= MaxEpoch THEN "NotEligible"
  ELSE IF c.sourceCredentials[1] \notin {1, 2} THEN "InvalidCredentialsPrefix"
  ELSE AddressOf(c.sourceCredentials)

-----------------------------------------------------------------------------
\* The generator.

\* tamper_proof: one bit of the first sibling.
TamperProof(proof) == IF proof = <<>> THEN proof ELSE [proof EXCEPT ![1][1] = Sibling(@)]

ValidIndexes(w) ==
  {i \in 0..Len(w.pending) - 1 :
     /\ Refusal(w, i) = "none"
     /\ Bundle(w, i).activationEpoch < MaxEpoch
     /\ RecipientAddress(Bundle(w, i)) # "None"}

Vector(c, expected) == [claim |-> c, expected |-> expected]

\* The claims the contract must pay, to the address of their credentials.
BundleToClaim(bundle) == Vector(bundle, AddressOf(bundle.sourceCredentials))
ValidClaims(w) == {BundleToClaim(Bundle(w, i)) : i \in ValidIndexes(w)}

\* True of the state, but not to be paid.
IneligibleClaims(w) ==
  {Vector(Bundle(w, i), "NotEligible") :
     i \in {j \in 0..Len(w.pending) - 1 :
              Refusal(w, j) = "none" /\ Bundle(w, j).activationEpoch = MaxEpoch}}

BLSClaims(w) ==
  {Vector(Bundle(w, i), "InvalidCredentialsPrefix") :
     i \in {j \in 0..Len(w.pending) - 1 :
              /\ Refusal(w, j) = "none"
              /\ Bundle(w, j).activationEpoch < MaxEpoch
              /\ Bundle(w, j).sourceCredentials[1] = 0}}

\* A valid claim with one of its proofs tampered with ...
TamperedClaims(c) ==
  {Vector(t, "InvalidProof") :
     t \in {[c EXCEPT !.proofConsolidation = TamperProof(@)],
            [c EXCEPT !.proofCredentials = TamperProof(@)],
            [c EXCEPT !.proofActivationEpoch = TamperProof(@)]}}

\* ... or with another validator, other credentials or another epoch ...
WrongClaims(c) ==
  {Vector(t, "InvalidProof") :
     t \in {[c EXCEPT !.sourceIndex = s] : s \in (0..2^ValidatorListDepth) \ {c.sourceIndex}}
             \cup {[c EXCEPT !.sourceCredentials[4] = 255 - @]}
             \cup {[c EXCEPT !.activationEpoch = e] : e \in {MaxEpoch - 1} \ {c.activationEpoch}}}

\* ... or with the proof of one leaf in the place of another's.
SwappedClaims(c) ==
  {Vector([c EXCEPT !.proofCredentials = c.proofConsolidation], "InvalidProofLength")}

\* test_vectors.json
TestVectorFile(w) ==
  [blockRoot     |-> BlockRoot[w],
   claims        |-> SetToSeq(ValidClaims(w)),
   invalidClaims |-> IneligibleClaims(w) \cup BLSClaims(w)
                     \cup UNION {TamperedClaims(v.claim) \cup WrongClaims(v.claim)
                                   \cup SwappedClaims(v.claim) : v \in ValidClaims(w)}]

-----------------------------------------------------------------------------
\* devnet-plan: the root for the oracle and the call of claimReward.
BuildPlan(file, index) ==
  IF index >= Len(file.claims) THEN Error("claim index out of range")
  ELSE [setRoot           |-> file.blockRoot,
        claimReward       |-> file.claims[index + 1].claim,
        expectedRecipient |-> file.claims[index + 1].expected]

-----------------------------------------------------------------------------
VInit == Init /\ vector = NoClaim

\* A vector is tried against the root of its file.
Try(root, v) ==
  /\ vector' = [expected |-> v.expected, verdict |-> Verdict(root, v.claim)]
  /\ Judge(v.claim, FALSE)

\* The plan is carried out: setRoot, then claimReward.
CarryOut(plan) ==
  /\ "error" \notin DOMAIN plan
  /\ Try(plan.setRoot, Vector(plan.claimReward, plan.expectedRecipient))

VNext ==
  \/ /\ claim = NoClaim
     /\ LET file == TestVectorFile(world) IN
        \/ \E i \in 0..Len(file.claims) : CarryOut(BuildPlan(file, i))
        \/ \E v \in file.invalidClaims : Try(file.blockRoot, v)
  \/ Next /\ UNCHANGED vector

VSpec == VInit /\ [][VNext]_vectorVars

-----------------------------------------------------------------------------
(* Properties. *)

\* Each vector gets what its file says: the recipient is paid, or claimReward
\* reverts with the expected error although later checks would fail too.
VectorsHold == vector # NoClaim => vector.verdict = vector.expected
================================================================================

--------------------------- MODULE SubmitterInvariant ---------------------------
(***************************************************************************)
(* The inductive invariant of the submitter beside the contract: what      *)
(* becomes of the transaction of each call.  Submitter_proofs.tla proves   *)
(* it and derives the submitter's safety properties from it.               *)
(***************************************************************************)
EXTENDS Submitter, EntitlementInvariant

\* A call has a transaction only after it was made and until it is executed or
\* dropped, and it returns Ok, having waited, only after one that succeeded.
CallsAreTraced ==
  \A c \in Call :
    /\ phase[c] # "idle" => proof[c] \in ClaimArgs
    /\ phase[c] \in {"idle", "send"} => receipt[c] = "none" /\ c \notin pool /\ running # c
    /\ c \in pool => running # c
    /\ phase[c] = "ok" /\ config.confirmations > 0 => receipt[c] = "success" /\ running # c

Claimant(c) == proof[c].sourceIndex

\* The claim of c is being executed: the recipient is in control.
Executing(c) == running = c /\ Len(stack) > 1

\* The validator of c still has the withdrawal address that c claims for.
AddressHolds(c) ==
  LET creds == head.validators[Claimant(c)].creds
  IN  creds.prefix # 0 /\ creds.addr = proof[c].sourceCredentials.addr

\* A transaction that succeeded has paid, for good once it has ended; one that
\* is being executed claims what no transaction has claimed before.
ClaimsArePaid ==
  \A c \in Call :
    /\ receipt[c] = "success" =>
         IF running = c THEN Len(stack) = 1 /\ Claimant(c) \in st.rewarded
                        ELSE Claimant(c) \in Committed.rewarded
    /\ receipt[c] = "success" \/ Executing(c) => AddressHolds(c)
    /\ Executing(c) => /\ receipt[c] = "none"
                       /\ stack[2].opens = {Claimant(c)}
                       /\ Claimant(c) \notin Committed.rewarded

SubmitterIsSound ==
  /\ SubTypeOK /\ CallsAreConsistent /\ RewardsAreDue
  /\ CallsAreTraced /\ ClaimsArePaid /\ RetriesPayOnce
================================================================================

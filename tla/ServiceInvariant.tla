--------------------------- MODULE ServiceInvariant ---------------------------
(***************************************************************************)
(* The inductive invariants of the scanner and of the HTTP handlers that   *)
(* read what it publishes.  Service_proofs.tla proves them and derives the *)
(* service's safety properties from them.                                  *)
(***************************************************************************)
EXTENDS Service

\* Finality trails the head, and the scanner trails finality; nothing is pending
\* at genesis, so a fresh scanner has missed nothing.
ScannerTrails ==
  /\ finalized * SlotsPerEpoch <= chainSlot /\ headSlot <= chainSlot
  /\ queueAt[0] = {}
  /\ last <= finalized /\ checkpoint <= finalized /\ currentEpoch <= finalized

\* A poll works on the epoch it published, and what is left of its answer is
\* all that it has not recorded of the finalized state.
PollIsOnCourse ==
  /\ pc \in {"fetch", "process"} => currentEpoch = checkpoint
  /\ pc = "process" => /\ todo \subseteq queueAt[checkpoint]
                       /\ queueAt[checkpoint] \subseteq todo \cup Tracked

ScannerIsSound ==
  /\ TypeOK /\ ScannerTrails /\ PollIsOnCourse
  /\ ProcessedMeansTracked /\ TrackedWasFinal /\ UnprocessedShowsError

\* What a handler read is at most what the scanner has published since, and the
\* records it has not found are not those it will be asked for.
HandlerIsSound ==
  /\ resp.head <= headSlot
  /\ resp.epoch # None => resp.epoch <= currentEpoch
  /\ step = "error" => resp.epoch # None
  /\ resp.floor <= finalized /\ queueAt[resp.floor] \subseteq Tracked
  /\ queueAt[resp.floor] \cap resp.asks \subseteq resp.shown \cup resp.left

ServiceIsSound == STypeOK /\ ScannerIsSound /\ HandlerIsSound
================================================================================

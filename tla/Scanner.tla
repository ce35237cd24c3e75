-------------------------------- MODULE Scanner --------------------------------
(***************************************************************************)
(* The scanner task of the service (prover/crates/service/src/scanner.rs)  *)
(* with the AppState it publishes into (state.rs) and the beacon node it   *)
(* polls.  Every await of poll_once is a step boundary: the chain moves,   *)
(* the node fails and the HTTP handlers read between any two steps.        *)
(* The submitter is not started by main.rs, so every record stays Detected *)
(* and a record is its epoch_seen.                                         *)
(***************************************************************************)
EXTENDS Integers

CONSTANTS
  Source,         \* source_index of the consolidations
  SlotsPerEpoch,  \* ScannerConfig.slots_per_epoch
  MaxEpoch,       \* bound: the last epoch of the chain
  MaxCrash        \* bound: restarts of the service

ASSUME ScannerAssumption ==
  /\ SlotsPerEpoch \in Nat \ {0}
  /\ MaxEpoch \in Nat
  /\ MaxCrash \in Nat

VARIABLES
  chainSlot, finalized,   \* the node's head slot and finalized epoch
  queue, queueAt,         \* pending_consolidations now, and at each epoch's first slot
  done,                   \* sources that have left the queue
  headSlot, currentSlot, currentEpoch, seen, lastError,  \* AppState
  pc, checkpoint, todo, last,  \* poll_once, and last_finalized_epoch
  crashes

node == <<chainSlot, finalized, queue, queueAt, done>>
app == <<headSlot, currentSlot, currentEpoch, seen, lastError>>
vars == <<node, app, pc, checkpoint, todo, last, crashes>>

Epochs == 0..MaxEpoch
NotSeen == -1

TypeOK ==
  /\ chainSlot \in Nat /\ finalized \in Epochs
  /\ queue \subseteq Source /\ done \subseteq Source
  /\ queueAt \in [Epochs -> SUBSET Source]
  /\ headSlot \in Nat /\ currentSlot \in Nat /\ currentEpoch \in Epochs
  /\ seen \in [Source -> Epochs \cup {NotSeen}]
  /\ lastError \in BOOLEAN
  /\ pc \in {"sleep", "head", "checkpoints", "fetch", "process"}
  /\ checkpoint \in Epochs /\ last \in Epochs
  /\ todo \subseteq Source
  /\ crashes \in Nat


\* AppState::new and Scanner::new.
Init ==
  /\ chainSlot = 0 /\ finalized = 0
  /\ queue = {} /\ queueAt = [e \in Epochs |-> {}] /\ done = {}
  /\ headSlot = 0 /\ currentSlot = 0 /\ currentEpoch = 0
  /\ seen = [s \in Source |-> NotSeen] /\ lastError = FALSE
  /\ pc = "head" /\ checkpoint = 0 /\ todo = {} /\ last = 0
  /\ crashes = 0

-----------------------------------------------------------------------------
\* The beacon chain, behind its node.

\* The next slot; at an epoch's first slot the state of that epoch is fixed.
NextSlot ==
  /\ chainSlot < MaxEpoch * SlotsPerEpoch
  /\ chainSlot' = chainSlot + 1
  /\ \/ UNCHANGED <<queue, done>>
     \/ \E s \in Source \ (queue \cup done) : queue' = queue \cup {s} /\ UNCHANGED done
     \/ \E s \in queue : queue' = queue \ {s} /\ done' = done \cup {s}
  /\ queueAt' = IF chainSlot' % SlotsPerEpoch = 0
                THEN [queueAt EXCEPT ![chainSlot' \div SlotsPerEpoch] = queue']
                ELSE queueAt
  /\ UNCHANGED <<finalized, app, pc, checkpoint, todo, last, crashes>>

\* Finality advances, by one epoch or by several, to an epoch that has begun.
Finalize ==
  /\ \E e \in Epochs : finalized < e /\ e * SlotsPerEpoch <= chainSlot /\ finalized' = e
  /\ UNCHANGED <<chainSlot, queue, queueAt, done, app, pc, checkpoint, todo, last, crashes>>

-----------------------------------------------------------------------------
\* poll_once.

GetHeadSlot ==
  /\ pc = "head"
  /\ headSlot' = chainSlot
  /\ pc' = "checkpoints"
  /\ UNCHANGED <<node, currentSlot, currentEpoch, seen, lastError, checkpoint, todo, last, crashes>>

GetFinalityCheckpoints_SlotAsEpoch ==
  /\ pc = "checkpoints"
  /\ checkpoint' = finalized
  /\ currentSlot' = finalized * SlotsPerEpoch
  /\ currentEpoch' = finalized * SlotsPerEpoch
  /\ IF finalized <= last
     THEN pc' = "sleep" /\ lastError' = FALSE
     ELSE pc' = "fetch" /\ UNCHANGED lastError
  /\ UNCHANGED <<node, headSlot, seen, todo, last, crashes>>

\* The checkpoint is published before it is processed; one that is not new ends the poll.
GetFinalityCheckpoints ==
  /\ pc = "checkpoints"
  /\ checkpoint' = finalized
  /\ currentSlot' = finalized * SlotsPerEpoch
  /\ currentEpoch' = finalized
  /\ IF finalized <= last
     THEN pc' = "sleep" /\ lastError' = FALSE
     ELSE pc' = "fetch" /\ UNCHANGED lastError
  /\ UNCHANGED <<node, headSlot, seen, todo, last, crashes>>

GetPending_MarksFirst ==
  /\ pc = "fetch"
  /\ todo' = queueAt[checkpoint]
  /\ last' = checkpoint
  /\ pc' = "process"
  /\ UNCHANGED <<node, app, checkpoint, crashes>>

GetPending_AtHead ==
  /\ pc = "fetch"
  /\ todo' = queue
  /\ pc' = "process"
  /\ UNCHANGED <<node, app, checkpoint, last, crashes>>

GetPendingConsolidations ==
  /\ pc = "fetch"
  /\ todo' = queueAt[checkpoint]
  /\ pc' = "process"
  /\ UNCHANGED <<node, app, checkpoint, last, crashes>>

Process_Overwrites(s) ==
  /\ pc = "process" /\ s \in todo
  /\ todo' = todo \ {s}
  /\ seen' = [seen EXCEPT ![s] = checkpoint]
  /\ UNCHANGED <<node, headSlot, currentSlot, currentEpoch, lastError, pc, checkpoint, last, crashes>>

\* One turn of the loop of process_consolidations.
Process(s) ==
  /\ pc = "process" /\ s \in todo
  /\ todo' = todo \ {s}
  /\ seen' = IF seen[s] = NotSeen THEN [seen EXCEPT ![s] = checkpoint] ELSE seen
  /\ UNCHANGED <<node, headSlot, currentSlot, currentEpoch, lastError, pc, checkpoint, last, crashes>>

\* The poll succeeded: the epoch is done and run clears the error.
FinishPoll ==
  /\ pc = "process" /\ todo = {}
  /\ last' = checkpoint
  /\ lastError' = FALSE
  /\ pc' = "sleep"
  /\ UNCHANGED <<node, headSlot, currentSlot, currentEpoch, seen, checkpoint, todo, crashes>>

FailPoll_Marks ==
  /\ pc \in {"head", "checkpoints", "fetch"}
  /\ last' = IF pc = "fetch" THEN checkpoint ELSE last
  /\ lastError' = TRUE
  /\ pc' = "sleep"
  /\ UNCHANGED <<node, headSlot, currentSlot, currentEpoch, seen, checkpoint, todo, crashes>>

FailPoll_Silent ==
  /\ pc \in {"head", "checkpoints", "fetch"}
  /\ pc' = "sleep"
  /\ UNCHANGED <<node, app, checkpoint, todo, last, crashes>>

\* A request to the node fails: `?` leaves poll_once and run records the error.
FailPoll ==
  /\ pc \in {"head", "checkpoints", "fetch"}
  /\ lastError' = TRUE
  /\ pc' = "sleep"
  /\ UNCHANGED <<node, headSlot, currentSlot, currentEpoch, seen, checkpoint, todo, last, crashes>>

\* poll_interval is over.
Wake ==
  /\ pc = "sleep"
  /\ pc' = "head"
  /\ UNCHANGED <<node, app, checkpoint, todo, last, crashes>>

\* A new process: nothing of the old one was persisted.
Fresh ==
  /\ headSlot' = 0 /\ currentSlot' = 0 /\ currentEpoch' = 0
  /\ seen' = [s \in Source |-> NotSeen] /\ lastError' = FALSE
  /\ pc' = "head" /\ checkpoint' = 0 /\ todo' = {} /\ last' = 0

\* The process dies and is started again.
Restart ==
  /\ crashes < MaxCrash
  /\ crashes' = crashes + 1
  /\ Fresh
  /\ UNCHANGED node

-----------------------------------------------------------------------------
Chain == NextSlot \/ Finalize
Poll ==
  \/ GetHeadSlot \/ GetFinalityCheckpoints \/ GetPendingConsolidations
  \/ \E s \in Source : Process(s)
  \/ FinishPoll \/ FailPoll \/ Wake

Next == Chain \/ Poll \/ Restart

Spec == Init /\ [][Next]_vars

-----------------------------------------------------------------------------
(* Properties. *)

Tracked == {s \in Source : seen[s] # NotSeen}

\* An epoch the scanner will not look at again had all its consolidations
\* recorded first: a poll that fails half way leaves the epoch to be retried.
ProcessedMeansTracked == queueAt[last] \subseteq Tracked

\* A record is evidence of finality: its source was in the finalized state of
\* epoch_seen, never in a state that could still be reorganised away.
TrackedWasFinal ==
  \A s \in Tracked : seen[s] <= finalized /\ s \in queueAt[seen[s]]

\* An epoch that is published but was not processed shows as an error, unless a
\* poll is at it right now: unprocessed finality never looks like success.
UnprocessedShowsError == currentEpoch > last /\ pc \notin {"fetch", "process"} => lastError

\* "Fetch state at each new finalized slot": what was pending at any finalized
\* epoch up to the last processed one was recorded.
EveryFinalizedEpochTracked == \A e \in 0..last : queueAt[e] \subseteq Tracked
================================================================================

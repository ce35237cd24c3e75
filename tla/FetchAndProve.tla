----------------------------- MODULE FetchAndProve -----------------------------
(***************************************************************************)
(* main of fetch-and-prove with both its modes: resolve a state, then      *)
(* write a snapshot of the block and the validators it names.  One request *)
(* to the node is one step.                                                *)
(***************************************************************************)
EXTENDS HistoricalScan, WatchFinalized

VARIABLES
  defaultFinalizedSlot,  \* of the checkpoint at start-up
  debugState,            \* debug_state_available
  snapshot               \* the file --output names

report == <<defaultFinalizedSlot, debugState, snapshot>>
vars == <<node, main, scan, watch, report>>

\* SnapshotMetadata, but for what only names the node or describes the validators.
Metadata ==
  [slot : Slot, finalizedEpoch : 0..MaxEpoch, finalizedSlot : Slot,
   debug : BOOLEAN, pending : BOOLEAN, inspected : BOOLEAN, truncated : BOOLEAN,
   checked : Nat, first : Slot \cup {None}, last : Slot \cup {None}]

TypeOK ==
  /\ FetchTypeOK /\ ScanTypeOK /\ WatchTypeOK
  /\ defaultFinalizedSlot \in Slot /\ debugState \in BOOLEAN
  /\ snapshot \in Metadata \cup {None, Torn}

Init ==
  /\ FetchInit /\ ScanInit /\ WatchInit
  /\ defaultFinalizedSlot = 0 /\ debugState = FALSE /\ snapshot = None

GetFinality ==
  /\ pc = "finality"
  /\ finality' = FinalityCheckpoints
  /\ defaultFinalizedSlot' = FirstSlot(FinalityCheckpoints)
  /\ pc' = "resolve"
  /\ UNCHANGED <<node, args, target, pending, failure, scan, watch, debugState, snapshot>>

\* resolve_scan_window gives a window.
ScanMode == ~args.watch /\ args.window # "none"

\* The slots resolve_slot may return: the head is at or after the finalized block.
RequestedSlots ==
  CASE args.stateId = FinalizedId -> {defaultFinalizedSlot}
    [] args.stateId = HeadId -> {s \in proposed : s >= AsOf(FirstSlot(finalizedEpoch))}
    [] OTHER -> {args.stateId}

\* resolve_slot, and the choice of the mode in resolve_target_state.
Resolve(requestedSlot) ==
  /\ pc = "resolve"
  /\ \/ /\ args.watch
        /\ IF WatchAccepted(args) THEN Goto("watchFinality") ELSE Fail("arguments")
        /\ UNCHANGED scan
     \/ /\ ~args.watch /\ args.window = "none"
        /\ wanted' = requestedSlot
        /\ Goto("state")
        /\ UNCHANGED <<window, todo, slot, hits, fallback>>
     \/ ~args.watch /\ args.window # "none" /\ StartScan(requestedSlot)
  /\ UNCHANGED <<node, watch, report>>

\* No scan and no watch: the requested slot or nothing.
FetchState ==
  /\ pc = "state"
  /\ IF StateFound(wanted) THEN Resolved(wanted, wanted \in nonEmpty) ELSE Fail("notFound")
  /\ UNCHANGED <<node, scan, watch, report>>

Header_Optional ==
  /\ pc = "header"
  /\ Goto("validators")
  /\ UNCHANGED <<node, scan, watch, report>>

\* The block the snapshot is of.
Header ==
  /\ pc = "header"
  /\ IF HeaderFound(target) THEN Goto("validators") ELSE Fail("notFound")
  /\ UNCHANGED <<node, scan, watch, report>>

Inspected == pending /\ args.inspect

\* get_validator_info of the first --max-consolidations, in the same state.
Validators ==
  /\ pc = "validators"
  /\ IF Inspected => ValidatorFound(target) THEN Goto("debugState") ELSE Fail("notFound")
  /\ UNCHANGED <<node, scan, watch, report>>

\* get_state_ssz: a failure of any kind only adds notes.
DebugState ==
  /\ pc = "debugState"
  /\ debugState' \in DebugStateAnswers(target)
  /\ Goto("write")
  /\ UNCHANGED <<node, scan, watch, defaultFinalizedSlot, snapshot>>

\* The snapshot is written, or not, or not to its end.
WriteSnapshot ==
  /\ pc = "write"
  /\ \/ /\ Goto("exited")
        /\ snapshot' = [slot |-> target, finalizedEpoch |-> finality,
                        finalizedSlot |-> defaultFinalizedSlot, debug |-> debugState,
                        pending |-> pending, inspected |-> Inspected,
                        truncated |-> pending /\ ~args.inspect,
                        checked |-> IF ScanMode THEN SlotsChecked ELSE 0,
                        first |-> MinHitSlot, last |-> MaxHitSlot]
     \/ snapshot' \in {snapshot, Torn} /\ Fail("io")
  /\ UNCHANGED <<node, scan, watch, defaultFinalizedSlot, debugState>>

\* A request of main or of the scan fails.
NodeFails ==
  /\ \/ pc \in {"finality", "state", "scanState", "scanHeader", "header"}
     \/ pc = "resolve" /\ args.stateId = HeadId
     \/ pc = "validators" /\ Inspected
  /\ Fail("node")
  /\ UNCHANGED <<node, scan, watch, report>>

-----------------------------------------------------------------------------
Main ==
  \/ GetFinality
  \/ \E s \in RequestedSlots : Resolve(s)
  \/ FetchState \/ Header \/ Validators \/ DebugState \/ WriteSnapshot \/ NodeFails

Program ==
  \/ Main
  \/ Scan /\ UNCHANGED <<watch, report>>
  \/ Watch /\ UNCHANGED <<scan, report>>

Next == Program \/ ((FinalizeMore \/ Prune) /\ UNCHANGED <<main, scan, watch, report>>)

\* Every request is answered, one way or another, and sleep returns.
Spec == Init /\ [][Next]_vars /\ WF_vars(Program)

-----------------------------------------------------------------------------
(* Properties. *)

Succeeded == snapshot \notin {None, Torn}
ScanPoint == {s \in window.lo..window.hi : (s - window.lo) % args.step = 0 \/ s = window.hi}

\* A snapshot is of one state: its block exists, and the consolidations in it are
\* those of that block's state, although they came from another request.
SnapshotIsOfOneState ==
  Succeeded =>
    /\ snapshot.slot \in proposed
    /\ snapshot.pending <=> snapshot.slot \in nonEmpty

\* Watching and scanning capture finalized states only, and the snapshot's own
\* finality covers the state it shows: a watch refreshes the epoch, but not the
\* slot beside it, which stays that of the start and may only be behind.
SnapshotIsFinalized ==
  Succeeded =>
    /\ snapshot.finalizedSlot <= FirstSlot(snapshot.finalizedEpoch)
    /\ ScanMode => snapshot.slot <= snapshot.finalizedSlot
    /\ args.watch => snapshot.slot = FirstSlot(snapshot.finalizedEpoch)

\* A scan that was not cut short by --scan-hit-limit visited the window to its end,
\* found every non-empty state that was current at a step or at the end, and the
\* first and the last slot it reports are the outermost of these.
ScanMissesNothing ==
  Succeeded /\ ScanMode /\ ~LimitReached(hits) =>
    /\ snapshot.checked >= Cardinality(ScanPoint)
    /\ \A s \in ScanPoint : AsOf(s) \in nonEmpty =>
         /\ \E i \in DOMAIN hits : hits[i].slot = AsOf(s)
         /\ snapshot.first <= AsOf(s) /\ AsOf(s) <= snapshot.last

\* The state a scan resolves to is the earliest non-empty one of the steps, or the
\* latest one when it goes in reverse.
ScanResultIsExtreme ==
  Succeeded /\ ScanMode =>
    \A s \in ScanPoint :
      AsOf(s) \in nonEmpty =>
        /\ snapshot.pending
        /\ IF args.reverse THEN snapshot.slot >= AsOf(s) ELSE snapshot.slot <= AsOf(s)

\* The program ends: every scan does, a watch with a limit on its polls does, and
\* one without when finality comes to rest on a non-empty state.
ProgramEnds ==
  (~args.watch \/ args.maxPolls # None \/ <>[](FirstSlot(finalizedEpoch) \in nonEmpty))
    => <>(pc = "exited")

\* A scan falls back to an earlier slot when a slot was missed: a missed slot is
\* never what makes it fail.
ScanSurvivesMissedSlots == ScanMode /\ failure = "notFound" => target \in proposed

\* The progress file tells whether the watcher exited cleanly or because a
\* request to the beacon node failed.
ProgressTellsTheExit ==
  pc = "exited" /\ failure \in {"node", "notFound"} /\ progress \notin {None, Torn} =>
    progress.status = "error"
================================================================================

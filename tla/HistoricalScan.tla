---------------------------- MODULE HistoricalScan ----------------------------
(***************************************************************************)
(* The historical scan of fetch-and-prove: the part of                     *)
(* resolve_target_state behind resolve_scan_window.  Every request to the  *)
(* node is a step, so the node may prune states in the middle of a scan.   *)
(***************************************************************************)
EXTENDS FetchBase, FiniteSetsExt

VARIABLES
  window,    \* scan_start_slot and scan_end_slot
  wanted,    \* the slot --state-id stands for (requested_slot)
  todo,      \* scan slots not visited yet
  slot,      \* the slot asked for now
  hits,      \* non_empty_slots, in the order they were found
  fallback   \* what was found for the wanted slot

scan == <<window, wanted, todo, slot, hits, fallback>>

ScanTypeOK ==
  /\ window \in [lo : Nat, hi : Nat]
  /\ wanted \in Slot
  /\ todo \subseteq Slot
  /\ slot \in Slot
  /\ hits \in Seq([requested : Slot, slot : Slot])
  /\ fallback \in BOOLEAN

ScanInit ==
  /\ window = [lo |-> 0, hi |-> 0]
  /\ wanted = 0 /\ todo = {} /\ slot = 0 /\ hits = <<>> /\ fallback = FALSE

Window_NotSaturating(a, finalizedSlot) ==
  CASE a.window = "slots"  -> [lo |-> a.from, hi |-> a.to]
    [] a.window = "epochs" -> [lo |-> FirstSlot(a.from), hi |-> FirstSlot(a.to + 1) - 1]
    [] OTHER -> [lo |-> finalizedSlot - FirstSlot(a.from - 1), hi |-> finalizedSlot]

\* resolve_scan_window
Window(a, finalizedSlot) ==
  CASE a.window = "slots"  -> [lo |-> a.from, hi |-> a.to]
    [] a.window = "epochs" -> [lo |-> FirstSlot(a.from), hi |-> FirstSlot(a.to + 1) - 1]
    [] OTHER ->
         LET back == FirstSlot(a.from - 1)
         IN  [lo |-> IF finalizedSlot > back THEN finalizedSlot - back ELSE 0, hi |-> finalizedSlot]

WindowAccepted_Future(a, w, finalizedSlot, requestedSlot) ==
  /\ a.window = "epochs" => a.from <= a.to
  /\ a.window = "recent" => a.from > 0
  /\ w.lo <= w.hi
  /\ requestedSlot \in w.lo..w.hi
  /\ a.step > 0
  /\ a.limit # None => a.limit > 0

\* The ensure! checks of resolve_scan_window and resolve_target_state.
WindowAccepted(a, w, finalizedSlot, requestedSlot) ==
  /\ a.window = "epochs" => a.from <= a.to
  /\ a.window = "recent" => a.from > 0
  /\ w.lo <= w.hi /\ w.hi <= finalizedSlot
  /\ requestedSlot \in w.lo..w.hi
  /\ a.step > 0
  /\ a.limit # None => a.limit > 0

ScanSlots_NoEnd(w, step, requestedSlot) ==
  {s \in w.lo..w.hi : (s - w.lo) % step = 0} \cup {requestedSlot}

\* build_scan_slots, without its order: every step, the end and the wanted slot.
ScanSlots(w, step, requestedSlot) ==
  {s \in w.lo..w.hi : (s - w.lo) % step = 0} \cup {w.hi, requestedSlot}

NextOf_AlwaysForward(slots) == Min(slots)

\* The order: ascending, or descending when the direction is reverse.
NextOf(slots) == IF args.reverse THEN Max(slots) ELSE Min(slots)

StartScan(requestedSlot) ==
  LET fs == FirstSlot(finality)
      w  == Window(args, fs)
  IN  IF args.window # "mixed" /\ WindowAccepted(args, w, fs, requestedSlot)
      THEN /\ window' = w
           /\ wanted' = requestedSlot
           /\ todo' = ScanSlots(w, args.step, requestedSlot)
           /\ slot' = NextOf(todo')
           /\ Goto("scanState")
           /\ UNCHANGED <<hits, fallback>>
      ELSE Fail("arguments") /\ UNCHANGED scan

-----------------------------------------------------------------------------
LimitReached(found) == args.limit # None /\ Len(found) >= args.limit

\* The loop of resolve_target_state has the pending consolidations of slot.
Visit ==
  LET requested == NextOf(todo)
      found     == slot \in nonEmpty
  IN  /\ todo' = todo \ {requested}
      /\ hits' = IF found THEN Append(hits, [requested |-> requested, slot |-> slot]) ELSE hits
      /\ fallback' = IF requested = wanted THEN found ELSE fallback
      /\ IF todo' = {} \/ (found /\ LimitReached(hits'))
         THEN /\ IF hits' = <<>> THEN Resolved(wanted, fallback') ELSE Resolved(hits'[1].slot, TRUE)
              /\ UNCHANGED slot
         ELSE /\ slot' = NextOf(todo')
              /\ Goto("scanState")
      /\ UNCHANGED <<window, wanted>>

\* fetch_pending_consolidations_at_or_before: the state of slot ...
ScanState ==
  /\ pc = "scanState"
  /\ \/ StateFound(slot) /\ Visit
     \/ ~StateFound(slot) /\ Goto("scanHeader") /\ UNCHANGED scan
  /\ UNCHANGED node

ScanHeader_NoPruneCheck ==
  /\ pc = "scanHeader"
  /\ \/ slot > window.lo /\ slot' = slot - 1 /\ Goto("scanState")
        /\ UNCHANGED <<window, wanted, todo, hits, fallback>>
     \/ slot <= window.lo /\ Fail("noState") /\ UNCHANGED scan
  /\ UNCHANGED node

\* ... or, when there is none, its header: a block without a state was pruned,
\* a slot without a block was missed and the one before it is asked for.
ScanHeader ==
  /\ pc = "scanHeader"
  /\ \/ HeaderFound(slot) /\ Fail("pruned") /\ UNCHANGED scan
     \/ ~HeaderFound(slot) /\ slot > window.lo
        /\ slot' = slot - 1 /\ Goto("scanState")
        /\ UNCHANGED <<window, wanted, todo, hits, fallback>>
     \/ ~HeaderFound(slot) /\ slot <= window.lo /\ Fail("noState") /\ UNCHANGED scan
  /\ UNCHANGED node

Scan == ScanState \/ ScanHeader

\* What the ScanWindow of the snapshot reports of a scan that has ended.
MinHitSlot == IF hits = <<>> THEN None ELSE Min({hits[i].slot : i \in DOMAIN hits})
MaxHitSlot == IF hits = <<>> THEN None ELSE Max({hits[i].slot : i \in DOMAIN hits})
SlotsChecked == Cardinality(ScanSlots(window, args.step, wanted) \ todo)

-----------------------------------------------------------------------------
(* Properties. *)

\* The block whose state is current at slot s.
AsOf(s) == Max({b \in proposed : b <= s})

\* Whatever was missed or pruned meanwhile, a hit is the state that was current
\* at the slot asked for, never an older one that happened to be still there.
HitsAreCurrent ==
  \A i \in DOMAIN hits : hits[i].slot = AsOf(hits[i].requested) /\ hits[i].slot \in nonEmpty
================================================================================

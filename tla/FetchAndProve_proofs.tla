-------------------------- MODULE FetchAndProve_proofs --------------------------
(***************************************************************************)
(* Proofs about fetch-and-prove, for every chain, window, step and number  *)
(* of polls, whatever the node finalizes, prunes or fails to answer.       *)
(***************************************************************************)
EXTENDS FetchInvariant, FiniteSetTheorems, SequenceTheorems, WellFoundedInduction, TLAPS

-----------------------------------------------------------------------------
(* Extremes of sets of slots. *)

\* Every set of slots has a smallest one ...
LEMMA HasSmallest ==
  ASSUME NEW S \in SUBSET Nat, S # {}
  PROVE  \E m \in S : \A x \in S : m <= x
<1>1. \E m \in S : \A x \in S : ~(<<x, m>> \in OpToRel(<, Nat))
  BY NatLessThanWellFounded, WFMin
<1>2. PICK m \in S : \A x \in S : ~(<<x, m>> \in OpToRel(<, Nat))
  BY <1>1
<1>3. \A x \in S : ~(x < m)
  BY <1>2 DEF OpToRel
<1> QED BY <1>3

\* ... and, being bounded, a largest one.
LEMMA HasLargest ==
  ASSUME NEW S \in SUBSET Nat, S # {}, NEW bound \in Nat, \A x \in S : x <= bound
  PROVE  \E m \in S : \A x \in S : x <= m
<1> DEFINE Bounds == {n \in Nat : \A x \in S : x <= n}
<1>1. PICK m \in Bounds : \A n \in Bounds : m <= n
  BY HasSmallest
<1>2. m \in S
  <2> SUFFICES ASSUME m \notin S PROVE FALSE
    OBVIOUS
  <2>1. m \in Nat /\ \A x \in S : x \in Nat /\ x <= m /\ x # m
    OBVIOUS
  <2>2. PICK z \in S : TRUE
    OBVIOUS
  <2>3. m > 0 /\ \A x \in S : x <= m - 1
    BY <2>1, <2>2
  <2>4. m - 1 \in Bounds
    BY <2>1, <2>3
  <2> QED BY <1>1, <2>1, <2>4
<1> QED BY <1>2

\* Min of the community modules is the smallest element where there is one ...
LEMMA MinIs ==
  ASSUME NEW S \in SUBSET Int, NEW m \in S, \A x \in S : m <= x
  PROVE  Min(S) = m
<1>1. \E x \in S : \A y \in S : x =< y
  OBVIOUS
<1>2. Min(S) \in S /\ \A y \in S : Min(S) =< y
  BY <1>1, Zenon DEF Min
<1>3. \A a, b \in Int : a =< b /\ b =< a => a = b
  OBVIOUS
<1>4. \A x \in S : x \in Int /\ (m >= x => x =< m)
  OBVIOUS
<1> QED BY <1>2, <1>3, <1>4, Zenon

\* ... and Max the largest.
LEMMA MaxIs ==
  ASSUME NEW S \in SUBSET Int, NEW m \in S, \A x \in S : x <= m
  PROVE  Max(S) = m
<1>1. \E x \in S : \A y \in S : x >= y
  OBVIOUS
<1>2. Max(S) \in S /\ \A y \in S : Max(S) >= y
  BY <1>1, Zenon DEF Max
<1>3. \A a, b \in Int : a =< b /\ b =< a => a = b
  OBVIOUS
<1>4. \A x \in S : x \in Int /\ (m >= x => x =< m)
  OBVIOUS
<1> QED BY <1>2, <1>3, <1>4, Zenon

\* The smallest and the largest slot of a set that has any.
LEMMA Extremes ==
  ASSUME NEW S \in SUBSET Slot, S # {}
  PROVE  /\ Min(S) \in S /\ \A x \in S : Min(S) <= x
         /\ Max(S) \in S /\ \A x \in S : x <= Max(S)
<1>1. MaxEpoch * SlotsPerEpoch \in Nat /\ S \in SUBSET Nat /\ \A x \in S : x <= MaxEpoch * SlotsPerEpoch
  BY FetchAssumption DEF Slot
<1>2. PICK m \in S : \A x \in S : m <= x
  BY <1>1, HasSmallest
<1>3. PICK n \in S : \A x \in S : x <= n
  BY <1>1, HasLargest
<1>4. S \in SUBSET Int
  BY <1>1
<1> QED BY <1>2, <1>3, <1>4, MinIs, MaxIs

\* Epochs and their first slots are in the same order.
LEMMA EpochSlots ==
  ASSUME NEW d \in Nat, NEW e \in 0..MaxEpoch, d <= e
  PROVE  FirstSlot(d) \in Slot /\ FirstSlot(e) \in Slot /\ FirstSlot(d) <= FirstSlot(e)
<1>1. /\ d * SlotsPerEpoch \in Nat /\ e * SlotsPerEpoch \in Nat /\ MaxEpoch * SlotsPerEpoch \in Nat
      /\ d * SlotsPerEpoch <= e * SlotsPerEpoch /\ e * SlotsPerEpoch <= MaxEpoch * SlotsPerEpoch
  BY FetchAssumption
<1> QED BY <1>1 DEF FirstSlot, Slot

\* There is a block that is current at every slot, genesis at the earliest.
LEMMA AsOfProperties ==
  ASSUME 0 \in proposed, proposed \subseteq Slot, NEW s \in Nat
  PROVE  /\ AsOf(s) \in proposed /\ AsOf(s) <= s
         /\ \A b \in proposed : b <= s => b <= AsOf(s)
<1> DEFINE B == {b \in proposed : b <= s}
<1>1. B \in SUBSET Slot /\ B # {}
  OBVIOUS
<1>2. Max(B) \in B /\ \A x \in B : x <= Max(B)
  BY <1>1, Extremes
<1> QED BY <1>2 DEF AsOf

-----------------------------------------------------------------------------
(* Types. *)

\* What a command line gives the program.
LEMMA ArgsType ==
  ASSUME TypeOK
  PROVE  /\ args.watch \in BOOLEAN /\ args.reverse \in BOOLEAN /\ args.inspect \in BOOLEAN
         /\ args.window \in {"none", "slots", "epochs", "recent", "mixed"}
         /\ args.from \in Nat /\ args.to \in Nat /\ args.step \in Nat
         /\ args.limit \in Nat \cup {None} /\ args.maxPolls \in Nat \cup {None}
         /\ args.stateId \in Slot \cup {FinalizedId, HeadId}
         /\ args.files \in {"none", "progress", "log", "both", "same"}
         /\ args \in Args
<1>1. args \in CommandLine /\ args \in Args
  BY FetchAssumption DEF TypeOK, FetchTypeOK
<1> QED BY <1>1 DEF CommandLine

\* The epochs the program and the node hold, and the first slot of its own.
LEMMA EpochType ==
  ASSUME TypeOK
  PROVE  /\ finality \in 0..MaxEpoch /\ finality \in Nat /\ finalizedEpoch \in 0..MaxEpoch
         /\ FirstSlot(finality) \in Slot /\ FirstSlot(finality) \in Nat
         /\ Slot \subseteq Nat
<1>1. /\ finality \in 0..MaxEpoch /\ finality \in Nat /\ finalizedEpoch \in 0..MaxEpoch
  BY FetchAssumption DEF TypeOK, FetchTypeOK
<1>2. FirstSlot(finality) \in Slot
  BY <1>1, EpochSlots
<1>3. MaxEpoch * SlotsPerEpoch \in Nat
  BY FetchAssumption
<1> QED BY <1>1, <1>2, <1>3 DEF Slot

\* A window that is accepted is a window of slots up to the finalized one.
LEMMA WindowType ==
  ASSUME TypeOK, args.window \notin {"none", "mixed"}, NEW r,
         WindowAccepted(args, Window(args, FirstSlot(finality)), FirstSlot(finality), r)
  PROVE  LET w == Window(args, FirstSlot(finality))
         IN  /\ w \in [lo : Nat, hi : Nat] /\ w.hi <= FirstSlot(finality) /\ r \in w.lo..w.hi
             /\ args.step \in Nat \ {0} /\ (args.limit # None => args.limit > 0)
<1> DEFINE fs == FirstSlot(finality)
           w == Window(args, fs)
<1>1. /\ args.window \in {"slots", "epochs", "recent"}
      /\ args.from \in Nat /\ args.to \in Nat /\ args.step \in Nat /\ fs \in Nat
  BY ArgsType, EpochType
<1>2. w \in [lo : Nat, hi : Nat]
  <2>1. CASE args.window = "slots"
    BY <1>1, <2>1 DEF Window
  <2>2. CASE args.window = "epochs"
    <3>1. /\ args.from * SlotsPerEpoch \in Nat
          /\ (args.to + 1) * SlotsPerEpoch \in Nat /\ (args.to + 1) * SlotsPerEpoch >= 1
      BY <1>1, FetchAssumption
    <3>2. w = [lo |-> FirstSlot(args.from), hi |-> FirstSlot(args.to + 1) - 1]
      BY <2>2 DEF Window
    <3> QED BY <3>1, <3>2 DEF FirstSlot
  <2>3. CASE args.window = "recent"
    <3>1. args.from - 1 \in Nat
      BY <1>1, <2>3 DEF WindowAccepted
    <3>2. FirstSlot(args.from - 1) \in Nat
      BY <3>1, FetchAssumption DEF FirstSlot
    <3> DEFINE back == FirstSlot(args.from - 1)
    <3>3. w = [lo |-> IF fs > back THEN fs - back ELSE 0, hi |-> fs]
      BY <2>3 DEF Window
    <3> HIDE DEF fs, back, w
    <3> QED BY <1>1, <3>2, <3>3 DEF back
  <2> QED BY <1>1, <2>1, <2>2, <2>3
<1> HIDE DEF w, fs
<1>3. w.hi <= fs /\ r \in w.lo..w.hi /\ args.step > 0 /\ (args.limit # None => args.limit > 0)
  BY DEF WindowAccepted, w, fs
<1> QED BY <1>1, <1>2, <1>3 DEF w, fs

\* The slots of a scan are slots of the chain, the window's end and the wanted one
\* among them.
LEMMA ScanSlotsType ==
  ASSUME TypeOK, NEW w \in [lo : Nat, hi : Nat], w.hi <= FirstSlot(finality), NEW r \in w.lo..w.hi,
         NEW step
  PROVE  /\ ScanSlots(w, step, r) \subseteq Slot /\ IsFiniteSet(ScanSlots(w, step, r))
         /\ w.hi \in ScanSlots(w, step, r) /\ r \in ScanSlots(w, step, r)
         /\ r \in Slot
<1>1. w.lo \in Nat /\ w.hi \in Nat /\ w.hi \in w.lo..w.hi /\ FirstSlot(finality) \in Slot
  BY EpochType
<1>2. w.lo..w.hi \subseteq Slot
  BY <1>1, FetchAssumption, EpochType DEF Slot
<1>3. ScanSlots(w, step, r) \subseteq w.lo..w.hi
  BY <1>1 DEF ScanSlots
<1>4. IsFiniteSet(ScanSlots(w, step, r))
  <2>1. IsFiniteSet(w.lo..w.hi)
    BY <1>1, FS_Interval
  <2> DEFINE T == ScanSlots(w, step, r)
             U == w.lo..w.hi
  <2>2. IsFiniteSet(U) /\ T \in SUBSET U
    BY <1>3, <2>1
  <2> HIDE DEF T, U
  <2>3. IsFiniteSet(T)
    BY <2>2, FS_Subset
  <2> QED BY <2>3 DEF T
<1> QED BY <1>2, <1>3, <1>4 DEF ScanSlots

\* The next slot comes before all others that are left.
LEMMA NextProperties ==
  ASSUME NEW S \in SUBSET Slot, S # {}
  PROVE  /\ NextOf(S) \in S
         /\ \A t \in S : t # NextOf(S) => Before(NextOf(S), t)
<1>1. \A x \in S : x \in Int
  BY FetchAssumption DEF Slot
<1>2. /\ Min(S) \in S /\ \A x \in S : Min(S) <= x
      /\ Max(S) \in S /\ \A x \in S : x <= Max(S)
  BY Extremes
<1>3. NextOf(S) = IF args.reverse THEN Max(S) ELSE Min(S)
  BY DEF NextOf
<1>4. CASE args.reverse
  BY <1>1, <1>2, <1>3, <1>4 DEF Before
<1>5. CASE ~args.reverse
  BY <1>1, <1>2, <1>3, <1>5 DEF Before
<1> QED BY <1>4, <1>5

-----------------------------------------------------------------------------
(* What a step keeps that leaves a part of the program alone. *)

\* A step that neither scans nor chooses a state keeps what holds of the scan.
LEMMA ScanStays ==
  ASSUME RunIsSound, UNCHANGED <<args, proposed, nonEmpty, scan>>, ~Scanning',
         ScanMode /\ Chosen' => Chosen /\ UNCHANGED <<finality, target, pending>>
  PROVE  HitsAreCurrent' /\ HitsAreVisited' /\ SearchIsOnCourse' /\ ScanHasChosen'
<1>1. UNCHANGED <<args, proposed, nonEmpty, window, wanted, todo, slot, hits, fallback>>
  BY DEF scan
<1>2. ScanMode' = ScanMode /\ Visited' = Visited /\ LimitReached(hits)' = LimitReached(hits)
  BY <1>1 DEF ScanMode, Visited, LimitReached
<1>3. HitsAreCurrent'
  BY <1>1 DEF RunIsSound, HitsAreCurrent, AsOf
<1>4. HitsAreVisited'
  <2> SUFFICES ASSUME ScanMode, Chosen' PROVE HitsAreVisited'
    BY <1>2 DEF HitsAreVisited
  <2>1. HitsAreVisited /\ Chosen /\ finality' = finality
    BY DEF RunIsSound
  <2> QED BY <1>1, <1>2, <2>1 DEF HitsAreVisited, Before, AsOf
<1>5. SearchIsOnCourse' /\ ScanHasChosen'
  BY <1>1, <1>2 DEF RunIsSound, SearchIsOnCourse, ScanHasChosen
<1> QED BY <1>3, <1>4, <1>5

\* EventsTellEveryPoll says of each line what LineTells says.
LEMMA LinesTell ==
  EventsTellEveryPoll <=> (args.maxPolls # None => \A i \in DOMAIN events : LineTells(events, i))
BY DEF EventsTellEveryPoll, LineTells

\* A step that leaves counters and files alone keeps what holds of the watch.
LEMMA WatchStays ==
  ASSUME RunIsSound, TypeOK', UNCHANGED <<args, nonEmpty, watch>>, finality <= finality',
         Watching' => Watching /\ (pc' = "watchState" <=> pc = "watchState")
  PROVE  WatchIsOnCourse' /\ PollingMeansEmpty' /\ TrailIsKept' /\ EventsTellEveryPoll'
<1>1. UNCHANGED <<args, nonEmpty, count, lastChecked, progress, events>>
  BY DEF watch
<1>2. WatchIsOnCourse'
  <2>1. lastChecked # None => lastChecked \in Nat
    BY <1>1, FetchAssumption DEF TypeOK, WatchTypeOK
  <2>2. finality \in Nat /\ finality' \in Nat
    BY EpochType, FetchAssumption DEF RunIsSound, TypeOK, FetchTypeOK
  <2> QED BY <1>1, <2>1, <2>2 DEF RunIsSound, WatchIsOnCourse
<1>3. TrailIsKept'
  BY <1>1 DEF RunIsSound, TrailIsKept, Logged, Epochs
<1>4. PollingMeansEmpty'
  BY <1>1 DEF RunIsSound, PollingMeansEmpty
<1>5. EventsTellEveryPoll'
  <2>1. EventsTellEveryPoll
    BY DEF RunIsSound
  <2>2. args' = args /\ events' = events
    BY <1>1
  <2>3. args.maxPolls # None => \A i \in DOMAIN events : LineTells(events, i)
    BY <2>1, LinesTell
  <2>4. args'.maxPolls # None => \A i \in DOMAIN events' : LineTells(events', i)
    BY <2>2, <2>3
  <2> QED BY <2>4, Zenon DEF EventsTellEveryPoll, LineTells
<1> QED BY <1>2, <1>3, <1>4, <1>5

\* A step that leaves the chosen state alone keeps what holds of it.
LEMMA TargetStays ==
  ASSUME RunIsSound, UNCHANGED <<args, proposed, nonEmpty>>,
         Chosen' => /\ Chosen /\ UNCHANGED <<finality, target, pending>>
                    /\ pc' # "header" => pc # "header" \/ target \in proposed
  PROVE  TargetIsOneState'
BY DEF RunIsSound, TargetIsOneState

\* A snapshot is there only when main has returned, and main does nothing more.
LEMMA ProgramRuns ==
  ASSUME RunIsSound, Program
  PROVE  pc # "exited" /\ snapshot = None /\ ~Succeeded
BY DEF RunIsSound, MainIsOnCourse, Succeeded, Program, Main, GetFinality, Resolve, FetchState,
       Header, Validators, DebugState, WriteSnapshot, NodeFails, Scan, ScanState, ScanHeader, Watch,
       WatchFinality, WatchUnchanged, WatchState, WatchFails, WatchSleep

-----------------------------------------------------------------------------
(* The node, while the program waits. *)

\* Finalizing more and pruning change nothing the program relies on.
LEMMA NodeKeeps ==
  ASSUME RunIsSound,
         \/ (FinalizeMore \/ Prune) /\ UNCHANGED <<main, scan, watch, report>>
         \/ UNCHANGED vars
  PROVE  RunIsSound'
<1>1. /\ UNCHANGED <<args, pc, finality, target, pending, failure, window, wanted, todo, slot, hits, fallback>>
      /\ UNCHANGED <<count, lastChecked, progress, events, defaultFinalizedSlot, debugState, snapshot>>
      /\ UNCHANGED <<proposed, nonEmpty>> /\ UNCHANGED scan /\ UNCHANGED watch
  BY DEF vars, node, main, scan, watch, report, FinalizeMore, Prune
<1>2. TypeOK
  BY DEF RunIsSound
<1>3. retained' \subseteq retained /\ finalizedEpoch' \in finalizedEpoch..MaxEpoch
  BY <1>2 DEF vars, node, FinalizeMore, Prune, TypeOK, FetchTypeOK
<1>4. TypeOK'
  <2>1. FetchTypeOK'
    BY <1>1, <1>2, <1>3 DEF TypeOK, FetchTypeOK
  <2>2. ScanTypeOK' /\ WatchTypeOK' /\ defaultFinalizedSlot' \in Slot /\ debugState' \in BOOLEAN
        /\ snapshot' \in Metadata \cup {None, Torn}
    BY <1>1, <1>2 DEF TypeOK, ScanTypeOK, WatchTypeOK
  <2> QED BY <2>1, <2>2 DEF TypeOK
<1>5. /\ Scanning' = Scanning /\ Watching' = Watching /\ Succeeded' = Succeeded /\ Chosen' = Chosen
      /\ Visited' = Visited /\ ScanMode' = ScanMode /\ NextOf(todo)' = NextOf(todo)
  BY <1>1 DEF Scanning, Watching, Succeeded, Chosen, Visited, ScanMode, NextOf
<1>6. MainIsOnCourse'
  BY <1>1, <1>5 DEF RunIsSound, MainIsOnCourse
<1>7. HitsAreCurrent' /\ HitsAreVisited'
  <2>1. HitsAreCurrent /\ HitsAreVisited
    BY DEF RunIsSound
  <2>2. HitsAreCurrent'
    BY <1>1, <2>1 DEF HitsAreCurrent, AsOf
  <2>3. HitsAreVisited'
    BY <1>1, <1>5, <2>1 DEF HitsAreVisited, AsOf, Before
  <2> QED BY <2>2, <2>3
<1>8. SearchIsOnCourse' /\ ScanHasChosen'
  BY <1>1, <1>5 DEF RunIsSound, SearchIsOnCourse, ScanHasChosen, LimitReached
<1>9. WatchIsOnCourse' /\ PollingMeansEmpty' /\ TrailIsKept' /\ EventsTellEveryPoll'
  <2>1. finality <= finality'
    BY <1>1, <1>2, EpochType
  <2> QED BY <1>1, <1>4, <1>5, <2>1, WatchStays
<1>10. TargetIsOneState'
  BY <1>1, <1>5, TargetStays
<1>11. SnapshotTells'
  BY <1>1, <1>5 DEF RunIsSound, SnapshotTells, Inspected, SlotsChecked, MinHitSlot, MaxHitSlot
<1> QED BY <1>4, <1>6, <1>7, <1>8, <1>9, <1>10, <1>11 DEF RunIsSound

-----------------------------------------------------------------------------
(* main, outside the scan and the watch. *)

\* main fails, chooses the state it asked for, or goes on with the one it has.
LEMMA MainKeeps ==
  ASSUME RunIsSound, snapshot = None,
         UNCHANGED <<node, args, finality, scan, watch, defaultFinalizedSlot, snapshot>>,
         debugState' \in BOOLEAN, failure' \in Failures,
         target' \in Slot \cup {None}, pending' \in BOOLEAN,
         \/ pc' = "exited"
         \/ /\ pc' = "header" /\ ~ScanMode /\ target' \in Slot /\ (pending' <=> target' \in nonEmpty)
            /\ args.watch => target' = FirstSlot(finality)
         \/ /\ pc \in {"header", "validators", "debugState"}
            /\ pc' \in {"validators", "debugState", "write"}
            /\ target' = target /\ pending' = pending /\ (pc = "header" => target \in proposed)
  PROVE  RunIsSound'
<1>1. /\ UNCHANGED <<proposed, nonEmpty, retained, finalizedEpoch, args, finality>>
      /\ UNCHANGED <<window, wanted, todo, slot, hits, fallback, scan>>
      /\ UNCHANGED <<count, lastChecked, progress, events, watch, defaultFinalizedSlot>>
      /\ snapshot' = None
  BY DEF node, scan, watch
<1>2. TypeOK
  BY DEF RunIsSound
<1>3. TypeOK'
  <2>1. FetchTypeOK'
    BY <1>1, <1>2 DEF TypeOK, FetchTypeOK
  <2>2. ScanTypeOK' /\ WatchTypeOK' /\ defaultFinalizedSlot' \in Slot
    BY <1>1, <1>2 DEF TypeOK, ScanTypeOK, WatchTypeOK
  <2> QED BY <1>1, <2>1, <2>2 DEF TypeOK
<1>4. ~Scanning' /\ ~Watching' /\ ~Succeeded' /\ ScanMode' = ScanMode
  BY <1>1 DEF Scanning, Watching, Succeeded, ScanMode
<1>5. pc' \notin {"finality", "resolve", "state"}
  OBVIOUS
<1>6. MainIsOnCourse'
  BY <1>1, <1>4, <1>5 DEF RunIsSound, MainIsOnCourse
<1>7. HitsAreCurrent' /\ HitsAreVisited' /\ SearchIsOnCourse' /\ ScanHasChosen'
  <2>1. ScanMode /\ Chosen' => Chosen /\ UNCHANGED <<finality, target, pending>>
    BY <1>1, <1>4 DEF Chosen
  <2> QED BY <1>1, <1>4, <2>1, ScanStays
<1>8. WatchIsOnCourse' /\ PollingMeansEmpty' /\ TrailIsKept' /\ EventsTellEveryPoll'
  <2>1. finality <= finality'
    BY <1>1, <1>2, EpochType
  <2> QED BY <1>1, <1>3, <1>4, <2>1, WatchStays
<1>9. TargetIsOneState'
  <2>1. CASE pc' = "exited"
    BY <1>4, <2>1 DEF TargetIsOneState, Chosen
  <2>2. CASE pc' = "header"
    BY <1>1, <2>2 DEF TargetIsOneState
  <2>3. CASE pc' # "exited" /\ pc' # "header"
    BY <1>1, <2>3, TargetStays DEF Chosen
  <2> QED BY <2>1, <2>2, <2>3
<1>10. SnapshotTells'
  BY <1>4 DEF SnapshotTells
<1> QED BY <1>3, <1>6, <1>7, <1>8, <1>9, <1>10 DEF RunIsSound

\* main returns an error.
LEMMA FailKeeps ==
  ASSUME RunIsSound, snapshot = None, NEW reason \in Failures, Fail(reason),
         UNCHANGED <<node, scan, watch, report>>
  PROVE  RunIsSound'
<1>1. /\ UNCHANGED <<node, args, finality, scan, watch, defaultFinalizedSlot, snapshot>>
      /\ debugState' = debugState /\ pc' = "exited" /\ target' = target /\ pending' = pending
      /\ failure' = reason
  BY DEF Fail, report
<1>2. debugState \in BOOLEAN /\ target \in Slot \cup {None} /\ pending \in BOOLEAN
  BY DEF RunIsSound, TypeOK, FetchTypeOK
<1> QED BY <1>1, <1>2, MainKeeps

\* The requests of main, from the state of a single slot to the debug state.
LEMMA RequestsKeep ==
  ASSUME RunIsSound, snapshot = None, FetchState \/ Header \/ Validators \/ DebugState \/ NodeFails
  PROVE  RunIsSound'
<1>1. /\ debugState \in BOOLEAN /\ target \in Slot \cup {None} /\ pending \in BOOLEAN
      /\ failure \in Failures /\ wanted \in Slot /\ args.watch \in BOOLEAN
  BY ArgsType DEF RunIsSound, TypeOK, FetchTypeOK, ScanTypeOK
<1>2. "node" \in Failures /\ "notFound" \in Failures
  BY DEF Failures
<1>3. ASSUME NodeFails PROVE RunIsSound'
  BY <1>2, <1>3, FailKeeps DEF NodeFails
<1>4. ASSUME FetchState PROVE RunIsSound'
  <2>1. CASE Fail("notFound")
    BY <1>2, <1>4, <2>1, FailKeeps DEF FetchState
  <2>2. CASE Resolved(wanted, wanted \in nonEmpty)
    <3>1. /\ UNCHANGED <<node, args, finality, scan, watch, defaultFinalizedSlot, snapshot>>
          /\ debugState' = debugState /\ failure' = failure
          /\ pc' = "header" /\ target' = wanted /\ pending' = (wanted \in nonEmpty)
      BY <1>4, <2>2 DEF FetchState, Resolved, report
    <3>2. pc = "state" /\ MainIsOnCourse
      BY <1>4 DEF FetchState, RunIsSound
    <3>3. ~args.watch /\ ~ScanMode
      BY <3>2 DEF MainIsOnCourse, ScanMode
    <3>4. target' = wanted /\ pending' = (wanted \in nonEmpty)
      BY <3>1
    <3>5. pending' \in BOOLEAN
      BY <3>4
    <3>6. pending' <=> target' \in nonEmpty
      BY <3>4, Zenon
    <3> QED BY <1>1, <3>1, <3>3, <3>5, <3>6, MainKeeps
  <2> QED BY <1>4, <2>1, <2>2 DEF FetchState
<1>5. ASSUME Header PROVE RunIsSound'
  <2>1. CASE Fail("notFound")
    BY <1>2, <1>5, <2>1, FailKeeps DEF Header
  <2>2. CASE HeaderFound(target) /\ Goto("validators")
    <3>1. /\ UNCHANGED <<node, args, finality, scan, watch, defaultFinalizedSlot, snapshot>>
          /\ debugState' = debugState /\ failure' = failure
          /\ pc = "header" /\ pc' = "validators" /\ target' = target /\ pending' = pending
          /\ target \in proposed
      BY <1>5, <2>2 DEF Header, HeaderFound, Goto, report
    <3> QED BY <1>1, <3>1, MainKeeps
  <2> QED BY <1>5, <2>1, <2>2 DEF Header
<1>6. ASSUME Validators PROVE RunIsSound'
  <2>1. CASE Fail("notFound")
    BY <1>2, <1>6, <2>1, FailKeeps DEF Validators
  <2>2. CASE Goto("debugState")
    <3>1. /\ UNCHANGED <<node, args, finality, scan, watch, defaultFinalizedSlot, snapshot>>
          /\ debugState' = debugState /\ failure' = failure
          /\ pc = "validators" /\ pc' = "debugState" /\ target' = target /\ pending' = pending
      BY <1>6, <2>2 DEF Validators, Goto, report
    <3> QED BY <1>1, <3>1, MainKeeps
  <2> QED BY <1>6, <2>1, <2>2 DEF Validators
<1>7. ASSUME DebugState PROVE RunIsSound'
  <2>1. /\ UNCHANGED <<node, args, finality, scan, watch, defaultFinalizedSlot, snapshot>>
        /\ debugState' \in BOOLEAN /\ failure' = failure
        /\ pc = "debugState" /\ pc' = "write" /\ target' = target /\ pending' = pending
    BY <1>7 DEF DebugState, DebugStateAnswers, Goto
  <2> QED BY <1>1, <2>1, MainKeeps
<1> QED BY <1>3, <1>4, <1>5, <1>6, <1>7

\* main asks for the finality it starts with.
LEMMA GetFinalityKeeps ==
  ASSUME RunIsSound, snapshot = None, GetFinality
  PROVE  RunIsSound'
<1>1. /\ pc = "finality" /\ pc' = "resolve" /\ finality' = finalizedEpoch
      /\ UNCHANGED <<proposed, nonEmpty, retained, finalizedEpoch, args, target, pending, failure>>
      /\ UNCHANGED <<window, wanted, todo, slot, hits, fallback, scan>>
      /\ UNCHANGED <<count, lastChecked, progress, events, watch, debugState>>
      /\ snapshot' = None /\ defaultFinalizedSlot' = FirstSlot(finality')
  BY DEF GetFinality, FinalityCheckpoints, node, scan, watch
<1>2. TypeOK
  BY DEF RunIsSound
<1>3. finality \in Nat /\ finality' \in 0..MaxEpoch /\ finality <= finality' /\ finality' \in 0..finalizedEpoch
  BY <1>1, <1>2, EpochType, FetchAssumption DEF TypeOK, FetchTypeOK
<1>4. TypeOK'
  <2>1. FetchTypeOK'
    BY <1>1, <1>2, <1>3 DEF TypeOK, FetchTypeOK
  <2>2. ScanTypeOK' /\ WatchTypeOK'
    BY <1>1, <1>2 DEF TypeOK, ScanTypeOK, WatchTypeOK
  <2>3. defaultFinalizedSlot' \in Slot
    BY <1>1, <1>3, EpochSlots
  <2> QED BY <1>1, <1>2, <2>1, <2>2, <2>3 DEF TypeOK
<1>5. ~Scanning' /\ ~Watching' /\ ~Succeeded' /\ ~Chosen'
  BY <1>1 DEF Scanning, Watching, Succeeded, Chosen
<1>6. MainIsOnCourse'
  <2>1. defaultFinalizedSlot' <= FirstSlot(finality')
    BY <1>1, <1>4, <1>3, EpochSlots, FetchAssumption DEF TypeOK, Slot
  <2> QED BY <1>1, <1>5, <2>1 DEF RunIsSound, MainIsOnCourse, FirstSlot
<1>7. HitsAreCurrent' /\ HitsAreVisited' /\ SearchIsOnCourse' /\ ScanHasChosen'
  BY <1>1, <1>5, ScanStays
<1>8. WatchIsOnCourse' /\ PollingMeansEmpty' /\ TrailIsKept' /\ EventsTellEveryPoll'
  BY <1>1, <1>3, <1>4, <1>5, WatchStays
<1> QED BY <1>4, <1>5, <1>6, <1>7, <1>8 DEF RunIsSound, TargetIsOneState, SnapshotTells

\* Whatever --state-id stands for, it is a slot of the chain.
LEMMA RequestedAreSlots ==
  ASSUME TypeOK, NEW s \in RequestedSlots
  PROVE  s \in Slot
<1>1. proposed \subseteq Slot /\ defaultFinalizedSlot \in Slot
      /\ args.stateId \in Slot \cup {FinalizedId, HeadId}
  BY ArgsType DEF TypeOK, FetchTypeOK
<1> QED BY <1>1 DEF RequestedSlots

\* The scan starts with everything to do, the watch with nothing told.
LEMMA ResolveKeeps ==
  ASSUME RunIsSound, snapshot = None, NEW r \in RequestedSlots, Resolve(r)
  PROVE  RunIsSound'
<1>1. /\ UNCHANGED <<proposed, nonEmpty, retained, finalizedEpoch, args, finality, target, pending>>
      /\ UNCHANGED <<count, lastChecked, progress, events, watch>>
      /\ UNCHANGED <<defaultFinalizedSlot, debugState, snapshot>> /\ UNCHANGED node /\ UNCHANGED report
      /\ pc = "resolve"
  BY DEF Resolve, StartScan, node, watch, report, Fail, Goto
<1>2. TypeOK /\ r \in Slot
  BY RequestedAreSlots DEF RunIsSound
<1>3. /\ hits = <<>> /\ ~fallback /\ events = <<>> /\ lastChecked = None
      /\ count = [polls |-> 0, checks |-> 0, skipped |-> 0]
  BY <1>1 DEF RunIsSound, MainIsOnCourse
<1>4. CASE Fail("arguments") /\ UNCHANGED scan
  <2>1. "arguments" \in Failures
    BY DEF Failures
  <2> QED BY <1>1, <1>4, <2>1, FailKeeps
<1>5. ~Succeeded' /\ ScanMode' = ScanMode
  BY <1>1 DEF Succeeded, ScanMode
<1>6. finality <= finality'
  BY <1>1, <1>2, EpochType
<1>7. CASE Goto("watchFinality") /\ args.watch /\ UNCHANGED scan
  <2>1. /\ pc' = "watchFinality" /\ failure' = failure
        /\ UNCHANGED <<window, wanted, todo, slot, hits, fallback, scan>>
    BY <1>7 DEF Goto, scan
  <2>2. TypeOK'
    <3>1. FetchTypeOK' /\ ScanTypeOK'
      BY <1>1, <1>2, <2>1 DEF TypeOK, FetchTypeOK, ScanTypeOK
    <3>2. WatchTypeOK'
      BY <1>1, <1>2 DEF TypeOK, WatchTypeOK
    <3> QED BY <1>1, <1>2, <3>1, <3>2 DEF TypeOK
  <2>3. ~Scanning' /\ ~Chosen'
    BY <1>5, <2>1 DEF Scanning, Chosen
  <2>4. MainIsOnCourse'
    BY <1>1, <1>7, <2>1, <2>3 DEF RunIsSound, MainIsOnCourse
  <2>5. HitsAreCurrent' /\ HitsAreVisited' /\ SearchIsOnCourse' /\ ScanHasChosen'
    BY <1>1, <2>1, <2>3, ScanStays
  <2>6. WatchIsOnCourse' /\ PollingMeansEmpty'
    BY <1>1, <1>3 DEF RunIsSound, WatchIsOnCourse, PollingMeansEmpty
  <2>7. EventsTellEveryPoll'
    BY <1>1, <1>3 DEF EventsTellEveryPoll
  <2>8. TrailIsKept'
    <3>1. {events'[j].epoch : j \in 1..0} = {}
      OBVIOUS
    <3>2. Cardinality({}) = 0
      BY FS_EmptySet
    <3>3. /\ events' = <<>> /\ Len(events') = 0 /\ lastChecked' = None
          /\ count'.polls = 0 /\ count'.checks = 0 /\ count'.skipped = 0
      BY <1>1, <1>3
    <3>4. Epochs(events') = {}
      BY <3>1, <3>3 DEF Epochs
    <3>5. Cardinality(Epochs(events')) = 0
      BY <3>2, <3>4, Zenon
    <3>6. \A e \in Epochs(events') : e <= lastChecked'
      BY <3>4, Zenon
    <3>7. \A i \in DOMAIN events' : events'[i] # Torn /\ events'[i].status = "polling"
      BY <3>3
    <3> QED BY <2>1, <3>3, <3>5, <3>6, <3>7 DEF TrailIsKept
  <2> QED BY <1>5, <2>2, <2>3, <2>4, <2>5, <2>6, <2>7, <2>8 DEF RunIsSound, TargetIsOneState, SnapshotTells
<1>8. CASE /\ pc' \in {"state", "scanState"} /\ failure' = failure /\ UNCHANGED <<hits, fallback>>
           /\ ~args.watch /\ ScanTypeOK'
           /\ pc' = "state" => args.window = "none"
           /\ pc' = "scanState" =>
                /\ args.window # "none"
                /\ window'.hi <= FirstSlot(finality) /\ wanted' \in window'.lo..window'.hi
                /\ args.step > 0 /\ (args.limit # None => args.limit > 0)
                /\ todo' = ScanSlots(window', args.step, wanted')
                /\ todo' # {} /\ todo' \subseteq Slot /\ slot' = NextOf(todo')
  <2>1. TypeOK'
    <3>1. FetchTypeOK' /\ WatchTypeOK'
      BY <1>1, <1>2, <1>8 DEF TypeOK, FetchTypeOK, WatchTypeOK
    <3> QED BY <1>1, <1>2, <1>8, <3>1 DEF TypeOK
  <2>2. ~Watching' /\ ~Chosen' /\ (Scanning' <=> pc' = "scanState")
    BY <1>5, <1>8 DEF Watching, Chosen, Scanning
  <2>3. MainIsOnCourse'
    BY <1>1, <1>8, <2>2 DEF RunIsSound, MainIsOnCourse
  <2>4. WatchIsOnCourse' /\ PollingMeansEmpty' /\ TrailIsKept' /\ EventsTellEveryPoll'
    BY <1>1, <1>6, <2>1, <2>2, WatchStays
  <2>5. HitsAreCurrent'
    BY <1>3, <1>8 DEF HitsAreCurrent
  <2>6. pc' = "scanState" => Visited' = {}
    BY <1>1, <1>8 DEF Visited
  <2>7. HitsAreVisited'
    BY <1>1, <1>3, <1>8, <2>2, <2>6 DEF HitsAreVisited
  <2>8. SearchIsOnCourse'
    <3> SUFFICES ASSUME Scanning' PROVE SearchIsOnCourse'
      BY DEF SearchIsOnCourse
    <3>1. slot' = NextOf(todo') /\ NextOf(todo)' = NextOf(todo') /\ todo' # {}
      BY <1>1, <1>8, <2>2 DEF NextOf
    <3>2. slot' \in Nat
      BY <1>8, EpochType, <1>2 DEF ScanTypeOK
    <3> QED BY <3>1, <3>2 DEF SearchIsOnCourse
  <2> QED BY <1>5, <2>1, <2>2, <2>3, <2>4, <2>5, <2>7, <2>8
          DEF RunIsSound, ScanHasChosen, TargetIsOneState, SnapshotTells
<1>9. CASE ~args.watch /\ args.window = "none" /\ wanted' = r /\ Goto("state")
           /\ UNCHANGED <<window, todo, slot, hits, fallback>>
  <2>1. ScanTypeOK'
    BY <1>2, <1>9 DEF TypeOK, ScanTypeOK
  <2> QED BY <1>8, <1>9, <2>1 DEF Goto
<1>10. CASE ~args.watch /\ args.window # "none" /\ StartScan(r)
  <2> DEFINE fs == FirstSlot(finality)
             w == Window(args, fs)
  <2>1. CASE args.window # "mixed" /\ WindowAccepted(args, w, fs, r) /\ ~(Fail("arguments") /\ UNCHANGED scan)
    <3>1. /\ window' = w /\ wanted' = r /\ todo' = ScanSlots(w, args.step, r) /\ slot' = NextOf(todo')
          /\ pc' = "scanState" /\ failure' = failure /\ UNCHANGED <<hits, fallback>>
      BY <1>10, <2>1 DEF StartScan, Goto
    <3>2. /\ w \in [lo : Nat, hi : Nat] /\ w.hi <= fs /\ r \in w.lo..w.hi
          /\ args.step \in Nat \ {0} /\ (args.limit # None => args.limit > 0)
      BY <1>2, <1>10, <2>1, WindowType
    <3> HIDE DEF w
    <3>3. ScanSlots(w, args.step, r) \subseteq Slot /\ r \in ScanSlots(w, args.step, r)
      BY <1>2, <3>2, ScanSlotsType
    <3>4. todo' # {} /\ todo' \subseteq Slot /\ slot' \in Slot
      BY <3>1, <3>3, NextProperties
    <3>5. ScanTypeOK'
      BY <1>2, <3>1, <3>2, <3>4 DEF TypeOK, ScanTypeOK
    <3> QED BY <1>8, <1>10, <3>1, <3>2, <3>4, <3>5
  <2> QED BY <1>4, <1>10, <2>1 DEF StartScan
<1> QED BY <1>4, <1>7, <1>9, <1>10 DEF Resolve

\* The slots that a hit names.
LEMMA HitsType ==
  ASSUME ScanTypeOK
  PROVE  \A i \in DOMAIN hits : hits[i].requested \in Slot /\ hits[i].slot \in Slot
<1> DEFINE R == [requested : Slot, slot : Slot]
<1>1. hits \in Seq(R)
  BY DEF ScanTypeOK
<1>2. \A i \in DOMAIN hits : hits[i] \in R
  <2> HIDE DEF R
  <2> QED BY <1>1
<1> QED BY <1>2

\* What the snapshot reports of the scan.
LEMMA ScanReportType ==
  ASSUME RunIsSound
  PROVE  /\ MinHitSlot \in Slot \cup {None} /\ MaxHitSlot \in Slot \cup {None}
         /\ ScanMode /\ Chosen => SlotsChecked \in Nat
<1>1. hits \in Seq([requested : Slot, slot : Slot])
  BY DEF RunIsSound, TypeOK, ScanTypeOK
<1> DEFINE S == {hits[i].slot : i \in DOMAIN hits}
<1>2. S \in SUBSET Slot
  BY HitsType DEF RunIsSound, TypeOK
<1>3. hits # <<>> => S # {}
  <2>1. hits # <<>> => 1 \in DOMAIN hits
    BY <1>1
  <2> QED BY <2>1
<1>4. S # {} => Min(S) \in S /\ Max(S) \in S
  <2> HIDE DEF S
  <2> QED BY <1>2, Extremes
<1>5. MinHitSlot \in Slot \cup {None} /\ MaxHitSlot \in Slot \cup {None}
  BY <1>2, <1>3, <1>4, Zenon DEF MinHitSlot, MaxHitSlot
<1>6. ASSUME ScanMode, Chosen PROVE SlotsChecked \in Nat
  <2>1. /\ TypeOK /\ window \in [lo : Nat, hi : Nat]
        /\ window.hi <= FirstSlot(finality) /\ wanted \in window.lo..window.hi
    BY <1>6 DEF RunIsSound, TypeOK, ScanTypeOK, HitsAreVisited
  <2>2. IsFiniteSet(ScanSlots(window, args.step, wanted))
    BY <2>1, ScanSlotsType
  <2> DEFINE T == ScanSlots(window, args.step, wanted)
             V == T \ todo
  <2>3. IsFiniteSet(T) /\ V \in SUBSET T
    BY <2>2
  <2> HIDE DEF T, V
  <2>4. Cardinality(V) \in Nat
    BY <2>3, FS_Subset, FS_CardinalityType
  <2> QED BY <2>4 DEF V, T, SlotsChecked
<1> QED BY <1>5, <1>6

\* The snapshot tells what main has.
LEMMA WriteKeeps ==
  ASSUME RunIsSound, snapshot = None, WriteSnapshot
  PROVE  RunIsSound'
<1>1. /\ UNCHANGED <<proposed, nonEmpty, retained, finalizedEpoch, args, finality, target, pending>>
      /\ UNCHANGED <<window, wanted, todo, slot, hits, fallback, scan>>
      /\ UNCHANGED <<count, lastChecked, progress, events, watch, defaultFinalizedSlot, debugState>>
      /\ pc = "write" /\ pc' = "exited" /\ failure' \in {failure, "io"}
  BY DEF WriteSnapshot, Fail, Goto, node, scan, watch
<1>2. TypeOK /\ Chosen
  BY <1>1 DEF RunIsSound, Chosen
<1> DEFINE written == [slot |-> target, finalizedEpoch |-> finality,
                       finalizedSlot |-> defaultFinalizedSlot, debug |-> debugState,
                       pending |-> pending, inspected |-> Inspected,
                       truncated |-> pending /\ ~args.inspect,
                       checked |-> IF ScanMode THEN SlotsChecked ELSE 0,
                       first |-> MinHitSlot, last |-> MaxHitSlot]
<1>3. snapshot' = written \/ snapshot' \in {None, Torn}
  BY DEF WriteSnapshot
<1>4. written \in Metadata
  <2>1. target \in Slot /\ finality \in 0..MaxEpoch /\ defaultFinalizedSlot \in Slot /\ debugState \in BOOLEAN
    BY <1>2, EpochType DEF RunIsSound, TargetIsOneState, TypeOK
  <2>2. pending \in BOOLEAN /\ args.inspect \in BOOLEAN
    BY <1>2, ArgsType DEF TypeOK, FetchTypeOK
  <2>3. Inspected \in BOOLEAN /\ (pending /\ ~args.inspect) \in BOOLEAN
    BY <2>2 DEF Inspected
  <2>4. (IF ScanMode THEN SlotsChecked ELSE 0) \in Nat
    BY <1>2, ScanReportType
  <2>5. MinHitSlot \in Slot \cup {None} /\ MaxHitSlot \in Slot \cup {None}
    BY ScanReportType
  <2> QED BY <2>1, <2>2, <2>3, <2>4, <2>5 DEF Metadata
<1>5. TypeOK'
  <2>1. FetchTypeOK'
    BY <1>1, <1>2 DEF TypeOK, FetchTypeOK, Failures
  <2>2. ScanTypeOK' /\ WatchTypeOK' /\ defaultFinalizedSlot' \in Slot /\ debugState' \in BOOLEAN
    BY <1>1, <1>2 DEF TypeOK, ScanTypeOK, WatchTypeOK
  <2>3. snapshot' \in Metadata \cup {None, Torn}
    BY <1>3, <1>4
  <2> QED BY <2>1, <2>2, <2>3 DEF TypeOK
<1>6. ~Scanning' /\ ~Watching' /\ ScanMode' = ScanMode
  BY <1>1 DEF Scanning, Watching, ScanMode
<1>7. MainIsOnCourse'
  BY <1>1, <1>6 DEF RunIsSound, MainIsOnCourse
<1>8. HitsAreCurrent' /\ HitsAreVisited' /\ SearchIsOnCourse' /\ ScanHasChosen'
  BY <1>1, <1>2, <1>6, ScanStays
<1>9. WatchIsOnCourse' /\ PollingMeansEmpty' /\ TrailIsKept' /\ EventsTellEveryPoll'
  <2>1. finality <= finality'
    BY <1>1, <1>2, EpochType
  <2> QED BY <1>1, <1>5, <1>6, <2>1, WatchStays
<1>10. TargetIsOneState'
  BY <1>1, <1>2, TargetStays
<1>11. SnapshotTells'
  <2>1. CASE snapshot' \in {None, Torn}
    BY <2>1 DEF SnapshotTells, Succeeded
  <2>2. CASE snapshot' = written
    <3>1. /\ Inspected' = Inspected /\ SlotsChecked' = SlotsChecked
          /\ MinHitSlot' = MinHitSlot /\ MaxHitSlot' = MaxHitSlot
      BY <1>1 DEF Inspected, SlotsChecked, MinHitSlot, MaxHitSlot
    <3> QED BY <1>1, <1>6, <2>2, <3>1 DEF SnapshotTells
  <2> QED BY <1>3, <2>1, <2>2
<1> QED BY <1>5, <1>7, <1>8, <1>9, <1>10, <1>11 DEF RunIsSound

-----------------------------------------------------------------------------
(* The scan. *)

\* What a list is after one more element.
LEMMA AppendIs ==
  ASSUME NEW R, NEW q \in Seq(R), NEW e \in R
  PROVE  /\ Append(q, e) \in Seq(R) /\ Len(Append(q, e)) = Len(q) + 1
         /\ \A i \in 1..Len(q) : Append(q, e)[i] = q[i]
         /\ Append(q, e)[Len(q) + 1] = e
         /\ DOMAIN q = 1..Len(q) /\ DOMAIN Append(q, e) = 1..Len(q) + 1 /\ Len(q) \in Nat
OBVIOUS

\* A step of the scan that goes on with it or chooses a state.
LEMMA ScanKeeps ==
  ASSUME RunIsSound, snapshot = None, Scanning,
         UNCHANGED <<node, args, finality, failure, watch, report>>,
         ScanTypeOK', HitsAreCurrent', HitsAreVisited', SearchIsOnCourse',
         \/ pc' \in {"scanState", "scanHeader"} /\ target' = target /\ pending' = pending
         \/ /\ pc' = "header" /\ ScanHasChosen'
            /\ target' \in Slot /\ pending' \in BOOLEAN /\ (pending' <=> target' \in nonEmpty)
  PROVE  RunIsSound'
<1>1. /\ UNCHANGED <<proposed, nonEmpty, retained, finalizedEpoch, args, finality, failure>>
      /\ UNCHANGED <<count, lastChecked, progress, events, watch>>
      /\ UNCHANGED <<defaultFinalizedSlot, debugState>> /\ snapshot' = None
  BY DEF node, watch, report
<1>2. TypeOK
  BY DEF RunIsSound
<1>3. TypeOK'
  <2>1. FetchTypeOK'
    BY <1>1, <1>2 DEF TypeOK, FetchTypeOK
  <2>2. WatchTypeOK'
    BY <1>1, <1>2 DEF TypeOK, WatchTypeOK
  <2> QED BY <1>1, <1>2, <2>1, <2>2 DEF TypeOK
<1>4. ~Watching' /\ ~Succeeded' /\ (Chosen' <=> pc' = "header")
  BY <1>1 DEF Watching, Succeeded, Chosen
<1>5. ~args.watch /\ args.window # "none"
  BY DEF RunIsSound, MainIsOnCourse
<1>6. MainIsOnCourse'
  BY <1>1, <1>4, <1>5 DEF RunIsSound, MainIsOnCourse
<1>7. ScanHasChosen'
  BY <1>4 DEF ScanHasChosen
<1>8. WatchIsOnCourse' /\ PollingMeansEmpty' /\ TrailIsKept' /\ EventsTellEveryPoll'
  <2>1. finality <= finality'
    BY <1>1, <1>2, EpochType
  <2> QED BY <1>1, <1>3, <1>4, <2>1, WatchStays
<1>9. TargetIsOneState'
  BY <1>1, <1>4, <1>5 DEF TargetIsOneState
<1> QED BY <1>3, <1>4, <1>6, <1>7, <1>8, <1>9 DEF RunIsSound, SnapshotTells

\* The search goes back to the slot before, or asks for the header of this one.
LEMMA SearchKeeps ==
  ASSUME RunIsSound, snapshot = None, Scanning,
         UNCHANGED <<node, args, finality, failure, watch, report, target, pending>>,
         UNCHANGED <<window, wanted, todo, hits, fallback>>,
         pc' \in {"scanState", "scanHeader"},
         slot' = slot \/ (slot' = slot - 1 /\ slot \notin proposed /\ slot > window.lo)
  PROVE  RunIsSound'
<1>1. /\ UNCHANGED <<proposed, nonEmpty, args, finality>> /\ Scanning'
  BY DEF node, Scanning
<1>2. TypeOK /\ ScanTypeOK /\ HitsAreCurrent /\ HitsAreVisited /\ SearchIsOnCourse
  BY DEF RunIsSound, TypeOK
<1>3. slot \in Nat /\ window.lo \in Nat /\ proposed \subseteq Nat /\ Slot = 0..MaxEpoch * SlotsPerEpoch
      /\ MaxEpoch * SlotsPerEpoch \in Nat
  BY <1>2, EpochType, FetchAssumption DEF TypeOK, FetchTypeOK, ScanTypeOK, Slot
<1>4. slot' \in Slot
  BY <1>2, <1>3 DEF ScanTypeOK
<1>5. ScanTypeOK'
  BY <1>2, <1>4 DEF ScanTypeOK
<1>6. HitsAreCurrent'
  BY <1>1, <1>2 DEF HitsAreCurrent, AsOf
<1>7. HitsAreVisited'
  <2>1. ScanMode' = ScanMode /\ Visited' = Visited
    BY <1>1 DEF ScanMode, Visited
  <2> QED BY <1>1, <1>2, <2>1 DEF HitsAreVisited, Before, AsOf
<1>8. SearchIsOnCourse'
  <2>1. NextOf(todo)' = NextOf(todo) /\ NextOf(todo) \in Nat
    <3>1. todo \in SUBSET Slot /\ todo # {}
      BY <1>2 DEF ScanTypeOK, SearchIsOnCourse
    <3>2. NextOf(todo) \in Slot
      BY <3>1, NextProperties
    <3> QED BY <1>1, <1>3, <3>2 DEF NextOf
  <2> QED BY <1>1, <1>2, <1>3, <2>1 DEF SearchIsOnCourse
<1> QED BY <1>5, <1>6, <1>7, <1>8, ScanKeeps

\* The state found for a slot is the one that was current there.
LEMMA FoundIsCurrent ==
  ASSUME RunIsSound, Scanning, slot \in proposed
  PROVE  /\ AsOf(NextOf(todo)) = slot /\ NextOf(todo) \in todo /\ NextOf(todo) \in Slot
         /\ \A t \in todo : t # NextOf(todo) => Before(NextOf(todo), t)
<1>1. TypeOK /\ SearchIsOnCourse /\ 0 \in proposed
  BY DEF RunIsSound, MainIsOnCourse
<1>2. todo \in SUBSET Slot /\ todo # {} /\ proposed \subseteq Slot
  BY <1>1 DEF SearchIsOnCourse, TypeOK, ScanTypeOK, FetchTypeOK
<1>3. /\ NextOf(todo) \in todo
      /\ \A t \in todo : t # NextOf(todo) => Before(NextOf(todo), t)
  BY <1>2, NextProperties
<1>4. NextOf(todo) \in Nat /\ Slot \subseteq Nat
  BY <1>1, <1>2, <1>3, EpochType
<1>5. /\ AsOf(NextOf(todo)) \in proposed /\ AsOf(NextOf(todo)) <= NextOf(todo)
      /\ \A b \in proposed : b <= NextOf(todo) => b <= AsOf(NextOf(todo))
  BY <1>1, <1>2, <1>4, AsOfProperties
<1>6. slot <= NextOf(todo) /\ \A b \in proposed : b <= NextOf(todo) => b <= slot
  BY <1>1 DEF SearchIsOnCourse
<1>7. AsOf(NextOf(todo)) = slot
  <2> DEFINE a == AsOf(NextOf(todo))
  <2>1. slot <= a /\ a <= slot
    BY <1>5, <1>6
  <2>2. slot \in Nat /\ a \in Nat
    BY <1>2, <1>4, <1>5
  <2> HIDE DEF a
  <2>3. a = slot
    BY <2>1, <2>2
  <2> QED BY <2>3 DEF a
<1> QED BY <1>2, <1>3, <1>7

\* What a visit does to the hits.
LEMMA VisitIsKept ==
  ASSUME RunIsSound, Scanning, slot \in proposed,
         UNCHANGED <<node, args, finality, window, wanted>>,
         todo' = todo \ {NextOf(todo)},
         hits' = IF slot \in nonEmpty
                 THEN Append(hits, [requested |-> NextOf(todo), slot |-> slot]) ELSE hits,
         fallback' = IF NextOf(todo) = wanted THEN slot \in nonEmpty ELSE fallback
  PROVE  /\ HitsAreCurrent' /\ HitsAreVisited'
         /\ hits' \in Seq([requested : Slot, slot : Slot]) /\ fallback' \in BOOLEAN
         /\ slot \in nonEmpty => hits' # <<>>
<1> DEFINE q == NextOf(todo)
           found == slot \in nonEmpty
           R == [requested : Slot, slot : Slot]
           e == [requested |-> q, slot |-> slot]
<1>1. /\ TypeOK /\ ScanTypeOK /\ HitsAreCurrent /\ HitsAreVisited
      /\ UNCHANGED <<proposed, nonEmpty, args, finality, window, wanted>>
  BY DEF RunIsSound, TypeOK, node
<1>2. AsOf(q) = slot /\ q \in todo /\ q \in Slot /\ \A t \in todo : t # q => Before(q, t)
  BY FoundIsCurrent
<1>3. /\ ScanMode /\ Slot \subseteq Nat /\ proposed \subseteq Slot /\ slot \in Slot
      /\ hits \in Seq(R) /\ todo \subseteq Slot /\ fallback \in BOOLEAN /\ e \in R
  BY <1>1, <1>2, EpochType
     DEF RunIsSound, MainIsOnCourse, ScanMode, TypeOK, FetchTypeOK, ScanTypeOK
<1>4. \A i \in DOMAIN hits : hits[i].requested \in Slot
  BY <1>1, HitsType
<1>5. Visited' = Visited \cup {q} /\ q \in ScanSlots(window, args.step, wanted) /\ q \notin Visited
  BY <1>1, <1>2, <1>3 DEF Visited, HitsAreVisited
<1>6. /\ hits' \in Seq(R) /\ DOMAIN hits = 1..Len(hits) /\ Len(hits) \in Nat
      /\ \A i \in DOMAIN hits : i \in DOMAIN hits' /\ hits'[i] = hits[i]
      /\ \A i \in DOMAIN hits' : i \in DOMAIN hits \/ (found /\ i = Len(hits) + 1 /\ hits'[i] = e)
      /\ found => Len(hits) + 1 \in DOMAIN hits' /\ hits'[Len(hits) + 1] = e /\ hits' # <<>>
      /\ hits # <<>> => hits' # <<>>
  <2> HIDE DEF R
  <2>1. hits \in Seq(R) /\ e \in R
    BY <1>3
  <2>2. hits' = IF found THEN Append(hits, e) ELSE hits
    OBVIOUS
  <2> HIDE DEF e, found
  <2>3. CASE found
    <3>1. hits' = Append(hits, e)
      BY <2>2, <2>3
    <3>2. /\ hits' \in Seq(R) /\ Len(hits') = Len(hits) + 1
          /\ \A i \in 1..Len(hits) : hits'[i] = hits[i]
          /\ hits'[Len(hits) + 1] = e
          /\ DOMAIN hits = 1..Len(hits) /\ DOMAIN hits' = 1..Len(hits) + 1 /\ Len(hits) \in Nat
      BY <2>1, <3>1, AppendIs
    <3> QED BY <2>3, <3>2
  <2>4. CASE ~found
    <3>1. hits' = hits
      BY <2>2, <2>4
    <3>2. DOMAIN hits = 1..Len(hits) /\ Len(hits) \in Nat
      BY <2>1
    <3> QED BY <2>1, <2>4, <3>1, <3>2
  <2> QED BY <2>3, <2>4
<1>16. e.requested = q /\ e.slot = slot /\ (found <=> slot \in nonEmpty)
  OBVIOUS
<1>17. hits \in Seq(R) /\ fallback \in BOOLEAN
  BY <1>3
<1>18. fallback' \in BOOLEAN
  <2>1. CASE q = wanted
    <3>1. fallback' = (slot \in nonEmpty)
      BY <2>1, Zenon
    <3>2. (slot \in nonEmpty) \in BOOLEAN
      OBVIOUS
    <3> QED BY <3>1, <3>2, Zenon
  <2>2. CASE q # wanted
    <3>1. fallback' = fallback
      BY <2>2, Zenon
    <3> QED BY <1>17, <3>1
  <2> QED BY <2>1, <2>2
<1>19. fallback' => found \/ fallback
  BY Zenon
<1> HIDE DEF R, e, found
<1>7. hits' \in Seq(R)
  BY <1>6, <1>17
<1>8. found => hits' # <<>>
  BY <1>6
<1>9. HitsAreCurrent'
  <2>1. \A i \in DOMAIN hits : hits[i].slot = AsOf(hits[i].requested) /\ hits[i].slot \in nonEmpty
    BY <1>1 DEF HitsAreCurrent
  <2>2. ASSUME NEW i \in DOMAIN hits'
        PROVE  hits'[i].slot = AsOf(hits'[i].requested) /\ hits'[i].slot \in nonEmpty
    <3>1. CASE i \in DOMAIN hits
      <4>1. hits'[i] = hits[i]
        BY <1>6, <3>1
      <4> QED BY <2>1, <3>1, <4>1
    <3>2. CASE i \notin DOMAIN hits
      <4>1. found /\ hits'[i] = e
        BY <1>6, <2>2, <3>2
      <4> QED BY <1>2, <1>16, <4>1
    <3> QED BY <3>1, <3>2
  <2> QED BY <1>1, <2>2 DEF HitsAreCurrent, AsOf
<1>10. \A s \in Visited', t \in todo' : Before(s, t)
  BY <1>1, <1>2, <1>3, <1>5 DEF HitsAreVisited
<1>11. \A i \in DOMAIN hits' : /\ hits'[i].requested \in Visited'
                               /\ ~Before(hits'[i].requested, hits'[1].requested)
  <2>1. \A i \in DOMAIN hits : /\ hits[i].requested \in Visited
                               /\ ~Before(hits[i].requested, hits[1].requested)
    BY <1>1, <1>3 DEF HitsAreVisited
  <2> SUFFICES ASSUME NEW i \in DOMAIN hits'
               PROVE  /\ hits'[i].requested \in Visited'
                      /\ ~Before(hits'[i].requested, hits'[1].requested)
    OBVIOUS
  <2>2. CASE i \in DOMAIN hits
    <3>1. hits'[i] = hits[i] /\ hits'[1] = hits[1]
      BY <1>6, <2>2
    <3> QED BY <1>5, <2>1, <2>2, <3>1
  <2>3. CASE i \notin DOMAIN hits
    <3>1. found /\ hits'[i] = e /\ i = Len(hits) + 1
      BY <1>6, <2>3
    <3>2. hits'[i].requested = q
      BY <1>16, <3>1
    <3>3. CASE Len(hits) = 0
      <4> HIDE DEF q
      <4>0. i = 1 /\ q \in Nat
        BY <1>2, <1>3, <3>1, <3>3
      <4>1. hits'[1].requested = q /\ q \in Nat
        BY <3>2, <4>0
      <4>2. ~Before(q, q)
        BY <4>1 DEF Before
      <4> QED BY <1>5, <3>2, <4>1, <4>2
    <3>4. CASE Len(hits) # 0
      <4>1. 1 \in DOMAIN hits /\ hits'[1] = hits[1]
        BY <1>6, <3>1, <3>4
      <4>2. hits[1].requested \in Visited /\ hits[1].requested \in Nat /\ q \in Nat
        BY <1>2, <1>3, <1>4, <2>1, <4>1
      <4>3. Before(hits[1].requested, q)
        BY <1>1, <1>2, <1>3, <4>2 DEF HitsAreVisited
      <4>4. ~Before(q, hits[1].requested)
        BY <4>2, <4>3 DEF Before
      <4> QED BY <1>5, <3>2, <4>1, <4>4
    <3> QED BY <3>3, <3>4
  <2> QED BY <2>2, <2>3
<1>12. \A s \in Visited' : AsOf(s) \in nonEmpty => \E i \in DOMAIN hits' : hits'[i].requested = s
  <2> SUFFICES ASSUME NEW s \in Visited', AsOf(s) \in nonEmpty
               PROVE  \E i \in DOMAIN hits' : hits'[i].requested = s
    OBVIOUS
  <2>1. CASE s = q
    <3>1. found
      BY <1>2, <1>16, <2>1
    <3>2. Len(hits) + 1 \in DOMAIN hits' /\ hits'[Len(hits) + 1].requested = q
      BY <1>6, <1>16, <3>1
    <3> QED BY <2>1, <3>2
  <2>2. CASE s # q
    <3>1. PICK i \in DOMAIN hits : hits[i].requested = s
      BY <1>1, <1>3, <1>5, <2>2 DEF HitsAreVisited
    <3>2. i \in DOMAIN hits' /\ hits'[i] = hits[i]
      BY <1>6, <3>1
    <3> QED BY <3>1, <3>2
  <2> QED BY <2>1, <2>2
<1>13. fallback' => hits' # <<>>
  <2>1. fallback => hits # <<>>
    BY <1>1, <1>3 DEF HitsAreVisited
  <2> QED BY <1>8, <1>19, <2>1, <1>6
<1>14. HitsAreVisited'
  <2>1. todo' \subseteq ScanSlots(window, args.step, wanted)
    BY <1>1, <1>3 DEF HitsAreVisited
  <2>2. /\ window.hi <= FirstSlot(finality) /\ wanted \in window.lo..window.hi /\ args.step > 0
        /\ (args.limit # None => args.limit > 0)
    BY <1>1, <1>3 DEF HitsAreVisited
  <2> HIDE DEF q
  <2> QED BY <1>1, <1>10, <1>11, <1>12, <1>13, <2>1, <2>2 DEF HitsAreVisited, Before, AsOf
<1> QED BY <1>7, <1>8, <1>9, <1>14, <1>16, <1>18 DEF R

\* A visit goes on with the next slot, or chooses the first hit or the wanted slot.
LEMMA VisitKeeps ==
  ASSUME RunIsSound, snapshot = None, Scanning, slot \in proposed, Visit,
         UNCHANGED <<node, watch, report>>
  PROVE  RunIsSound'
<1> DEFINE q == NextOf(todo)
           found == slot \in nonEmpty
<1>1. /\ UNCHANGED <<node, args, finality, failure, watch, report, window, wanted>>
      /\ todo' = todo \ {q}
      /\ hits' = IF found THEN Append(hits, [requested |-> q, slot |-> slot]) ELSE hits
      /\ fallback' = IF q = wanted THEN found ELSE fallback
  BY DEF Visit, Resolved, Goto
<1>2. /\ HitsAreCurrent' /\ HitsAreVisited'
      /\ hits' \in Seq([requested : Slot, slot : Slot]) /\ fallback' \in BOOLEAN
      /\ found => hits' # <<>>
  BY <1>1, VisitIsKept
<1>3. /\ TypeOK /\ ScanTypeOK /\ UNCHANGED <<proposed, nonEmpty, args, finality, window, wanted>>
      /\ todo' \in SUBSET Slot
  BY <1>1 DEF RunIsSound, TypeOK, ScanTypeOK, node
<1>4. ASSUME slot' \in Slot PROVE ScanTypeOK'
  BY <1>2, <1>3, <1>4 DEF ScanTypeOK
<1>5. slot \in Slot /\ wanted \in Slot
  BY <1>3 DEF ScanTypeOK
<1>6. CASE todo' = {} \/ (found /\ LimitReached(hits'))
  <2>1. /\ pc' = "header" /\ slot' = slot
        /\ IF hits' = <<>> THEN Resolved(wanted, fallback') ELSE Resolved(hits'[1].slot, TRUE)
    BY <1>6 DEF Visit, Resolved
  <2>2. ScanTypeOK'
    BY <1>4, <1>5, <2>1
  <2>3. ~Scanning' /\ SearchIsOnCourse' /\ LimitReached(hits)' = LimitReached(hits')
    BY <1>3, <2>1 DEF Scanning, SearchIsOnCourse, LimitReached
  <2>4. CASE hits' = <<>>
    <3>1. target' = wanted /\ pending' = fallback'
      BY <2>1, <2>4, Zenon DEF Resolved
    <3>2. todo' = {} /\ ScanMode' /\ Chosen'
      BY <1>2, <1>3, <1>6, <2>1, <2>4 DEF RunIsSound, MainIsOnCourse, ScanMode, Chosen
    <3>3. ~fallback'
      BY <1>2, <2>4, <3>2 DEF HitsAreVisited
    <3>4. ~pending'
      BY <3>1, <3>3, Zenon
    <3>5. pending' \in BOOLEAN
      BY <1>2, <3>1, Zenon
    <3>6. wanted \notin nonEmpty
      <4> SUFFICES ASSUME wanted \in nonEmpty PROVE FALSE
        OBVIOUS
      <4>1. wanted \in window.lo..window.hi
        BY <1>3, <3>2 DEF HitsAreVisited, RunIsSound, ScanMode
      <4>2. wanted \in Visited'
        BY <1>3, <3>2 DEF Visited, ScanSlots
      <4>3. wanted \in proposed /\ 0 \in proposed /\ proposed \subseteq Slot /\ wanted \in Nat
        BY <1>3, <1>5, EpochType DEF RunIsSound, MainIsOnCourse, TypeOK, FetchTypeOK
      <4>4. /\ AsOf(wanted) \in proposed /\ AsOf(wanted) <= wanted
            /\ \A b \in proposed : b <= wanted => b <= AsOf(wanted)
        BY <4>3, AsOfProperties
      <4>5. AsOf(wanted) \in Nat
        BY <1>3, <4>3, <4>4, EpochType
      <4>6. AsOf(wanted) = wanted
        <5> DEFINE a == AsOf(wanted)
        <5>1. a <= wanted /\ wanted <= a /\ a \in Nat /\ wanted \in Nat
          BY <4>3, <4>4, <4>5
        <5> HIDE DEF a
        <5>2. a = wanted
          BY <5>1
        <5> QED BY <5>2 DEF a
      <4>7. AsOf(wanted)' = AsOf(wanted)
        BY <1>3 DEF AsOf
      <4>8. \A s \in Visited' : AsOf(s)' \in nonEmpty' => \E i \in DOMAIN hits' : hits'[i].requested = s
        BY <1>2, <1>3, <3>2 DEF HitsAreVisited, AsOf
      <4>9. AsOf(wanted)' \in nonEmpty'
        BY <1>3, <4>6, <4>7
      <4> QED BY <1>3, <2>4, <4>2, <4>8, <4>9 DEF AsOf
    <3>7. ScanHasChosen'
      BY <1>3, <2>4, <3>1, <3>2, <3>4 DEF ScanHasChosen
    <3>8. target' \in Slot /\ (pending' <=> target' \in nonEmpty)
      BY <1>5, <3>1, <3>4, <3>6
    <3> QED BY <1>1, <1>2, <2>1, <2>2, <2>3, <3>5, <3>7, <3>8, ScanKeeps
  <2>5. CASE hits' # <<>>
    <3>1. target' = hits'[1].slot /\ pending' = TRUE
      BY <2>1, <2>5, Zenon DEF Resolved
    <3>2. 1 \in DOMAIN hits'
      BY <1>2, <2>5
    <3>3. hits'[1].slot \in nonEmpty
      BY <1>2, <1>3, <3>2 DEF HitsAreCurrent
    <3>4. target' \in Slot /\ pending' \in BOOLEAN /\ (pending' <=> target' \in nonEmpty)
      BY <1>3, <3>1, <3>3 DEF TypeOK, FetchTypeOK
    <3>5. ScanHasChosen'
      BY <1>6, <2>3, <2>5, <3>1 DEF ScanHasChosen
    <3> QED BY <1>1, <1>2, <2>1, <2>2, <2>3, <3>4, <3>5, ScanKeeps
  <2> QED BY <2>4, <2>5
<1>7. CASE ~(todo' = {} \/ (found /\ LimitReached(hits')))
  <2>1. slot' = NextOf(todo') /\ pc' = "scanState" /\ target' = target /\ pending' = pending
    BY <1>7 DEF Visit, Goto
  <2>2. slot' \in Slot /\ todo' # {}
    BY <1>3, <1>7, <2>1, NextProperties
  <2>3. SearchIsOnCourse'
    <3>1. NextOf(todo)' = slot' /\ slot' \in Nat
      BY <1>3, <2>1, <2>2, EpochType DEF NextOf
    <3> QED BY <2>2, <3>1 DEF SearchIsOnCourse
  <2> QED BY <1>1, <1>2, <1>4, <2>1, <2>2, <2>3, ScanKeeps
<1> QED BY <1>6, <1>7

\* Every step of the scan.
LEMMA ScanStepsKeep ==
  ASSUME RunIsSound, snapshot = None, Scan, UNCHANGED <<watch, report>>
  PROVE  RunIsSound'
<1>1. Scanning /\ UNCHANGED <<node, watch, report>>
  BY DEF Scan, ScanState, ScanHeader, Scanning
<1>2. "pruned" \in Failures /\ "noState" \in Failures /\ retained \subseteq proposed
  BY DEF Failures, RunIsSound, TypeOK, FetchTypeOK
<1>3. ASSUME ScanState PROVE RunIsSound'
  <2>1. CASE StateFound(slot) /\ Visit
    <3>1. slot \in proposed
      BY <1>2, <2>1 DEF StateFound
    <3> QED BY <1>1, <2>1, <3>1, VisitKeeps
  <2>2. CASE Goto("scanHeader") /\ UNCHANGED scan
    <3>1. /\ UNCHANGED <<window, wanted, todo, hits, fallback>> /\ slot' = slot /\ pc' = "scanHeader"
          /\ UNCHANGED <<args, finality, failure, target, pending>>
      BY <2>2 DEF scan, Goto
    <3> QED BY <1>1, <3>1, SearchKeeps
  <2> QED BY <1>3, <2>1, <2>2 DEF ScanState
<1>4. ASSUME ScanHeader PROVE RunIsSound'
  <2>1. CASE (Fail("pruned") \/ Fail("noState")) /\ UNCHANGED scan
    BY <1>1, <1>2, <2>1, FailKeeps
  <2>2. CASE /\ ~HeaderFound(slot) /\ slot > window.lo /\ slot' = slot - 1 /\ Goto("scanState")
             /\ UNCHANGED <<window, wanted, todo, hits, fallback>>
    <3>1. /\ slot \notin proposed /\ pc' = "scanState"
          /\ UNCHANGED <<args, finality, failure, target, pending>>
      BY <2>2 DEF HeaderFound, Goto
    <3> QED BY <1>1, <2>2, <3>1, SearchKeeps
  <2> QED BY <1>4, <2>1, <2>2 DEF ScanHeader
<1> QED BY <1>3, <1>4 DEF Scan

-----------------------------------------------------------------------------
(* The watch. *)

\* A new line of the log, after lines that all told of a poll.
LEMMA NewLineTells ==
  ASSUME NEW q \in Seq(Summary \cup {Torn}), NEW e \in Summary \cup {Torn},
         \A i \in DOMAIN q : q[i] # Torn /\ q[i].status = "polling" /\ LineTells(q, i),
         e # Torn /\ e.status = "polling" =>
           /\ e.count.polls = Len(q) + 1
           /\ e.count.polls = e.count.checks + e.count.skipped
           /\ e.count.checks = Cardinality(Epochs(q) \cup {e.epoch})
  PROVE  /\ \A i \in DOMAIN Append(q, e) : LineTells(Append(q, e), i)
         /\ Epochs(Append(q, e)) = Epochs(q) \cup {e.epoch}
<1> DEFINE es == Append(q, e)
           n == Len(q)
<1>1. /\ es \in Seq(Summary \cup {Torn}) /\ Len(es) = n + 1
      /\ \A i \in 1..n : es[i] = q[i]
      /\ es[n + 1] = e
      /\ DOMAIN q = 1..n /\ DOMAIN es = 1..n + 1 /\ n \in Nat
  BY AppendIs
<1> HIDE DEF es, n
<1>2. \A i \in 1..n : {es[j].epoch : j \in 1..i} = {q[j].epoch : j \in 1..i}
  BY <1>1
<1>3. {es[j].epoch : j \in 1..n + 1} = {q[j].epoch : j \in 1..n} \cup {e.epoch}
  <2>1. 1..n + 1 = (1..n) \cup {n + 1}
    BY <1>1
  <2> QED BY <1>1, <2>1
<1>4. Epochs(es) = Epochs(q) \cup {e.epoch}
  BY <1>1, <1>3 DEF Epochs, n
<1>5. ASSUME NEW i \in DOMAIN es PROVE LineTells(es, i)
  <2>1. CASE i \in 1..n
    <3>1. es[i] = q[i] /\ q[i] # Torn /\ q[i].status = "polling" /\ LineTells(q, i)
      BY <1>1, <2>1
    <3>2. {es[j].epoch : j \in 1..i} = {q[j].epoch : j \in 1..i}
      BY <1>2, <2>1
    <3> QED BY <3>1, <3>2, Zenon DEF LineTells
  <2>2. CASE i = n + 1
    <3>1. es[i] = e /\ i = Len(es)
      BY <1>1, <2>2
    <3>2. CASE e = Torn \/ e.status # "polling"
      BY <3>1, <3>2, Zenon DEF LineTells
    <3>3. CASE ~(e = Torn \/ e.status # "polling")
      <4>1. /\ e.count.polls = i
            /\ e.count.polls = e.count.checks + e.count.skipped
            /\ e.count.checks = Cardinality({es[j].epoch : j \in 1..i})
        BY <1>3, <2>2, <3>3 DEF n, Epochs
      <4> QED BY <3>1, <3>3, <4>1, Zenon DEF LineTells
    <3> QED BY <3>2, <3>3
  <2> QED BY <1>1, <2>1, <2>2
<1> QED BY <1>4, <1>5 DEF es

\* The report of a poll or of an error, whatever became of the files.
LEMMA ReportKeeps ==
  ASSUME RunIsSound, snapshot = None, Watching, UNCHANGED <<node, scan, report>>,
         NEW status \in Status, NEW reason \in Failures, Report(status, reason),
         count' \in Counters, lastChecked' \in {lastChecked, finality},
         status \in {"polling", "max_polls"} =>
           lastChecked' = finality /\ FirstSlot(finality) \notin nonEmpty,
         status = "found" => FirstSlot(finality) \in nonEmpty,
         status = "polling" /\ Logged /\ args.maxPolls # None =>
           /\ count'.polls = Len(events) + 1
           /\ count'.polls = count'.checks + count'.skipped
           /\ count'.checks = Cardinality(Epochs(events) \cup {finality})
  PROVE  RunIsSound'
<1> DEFINE summary == [status |-> status, epoch |-> finality, count |-> count']
<1>1. /\ UNCHANGED <<proposed, nonEmpty, retained, finalizedEpoch, args, finality>>
      /\ UNCHANGED <<window, wanted, todo, slot, hits, fallback, scan>>
      /\ UNCHANGED <<defaultFinalizedSlot, debugState>> /\ snapshot' = None
  BY DEF Report, Fail, Goto, Resolved, node, scan, report
<1>2. TypeOK /\ finality \in 0..MaxEpoch /\ finality \in Nat /\ FirstSlot(finality) \in Slot
  BY EpochType DEF RunIsSound
<1>3. args.watch /\ ~ScanMode
  BY DEF RunIsSound, MainIsOnCourse, ScanMode
<1>4. /\ summary \in Summary /\ summary.status = status /\ summary.epoch = finality
      /\ summary.count = count'
  BY <1>2 DEF Summary
<1>5. /\ progress' \in {progress, Torn, summary}
      /\ \/ events' = events /\ (pc' = "exited" \/ ~Logged)
         \/ Logged /\ events' = Append(events, Torn) /\ pc' = "exited"
         \/ Logged /\ events' = Append(events, summary)
      /\ \/ pc' = "exited" /\ failure' \in {reason, "io"} /\ target' = target /\ pending' = pending
         \/ pc' = "watchSleep" /\ status = "polling" /\ UNCHANGED <<failure, target, pending>>
         \/ /\ pc' = "header" /\ status \in {"found", "max_polls"} /\ failure' = failure
            /\ target' = FirstSlot(finality) /\ pending' = (status = "found")
  BY Zenon DEF Report, Fail, Goto, Resolved, Logged
<1> HIDE DEF summary
<1>6. progress' \in Summary \cup {None, Torn} /\ lastChecked' \in 0..MaxEpoch \cup {None}
  BY <1>2, <1>4, <1>5 DEF TypeOK, WatchTypeOK
<1>7. events \in Seq(Summary \cup {Torn}) /\ events' \in Seq(Summary \cup {Torn})
  <2> DEFINE R == Summary \cup {Torn}
  <2>1. events \in Seq(R) /\ summary \in R /\ Torn \in R
    BY <1>2, <1>4 DEF TypeOK, WatchTypeOK
  <2> HIDE DEF R
  <2>2. \A e \in R : Append(events, e) \in Seq(R)
    BY <2>1
  <2>3. events' \in Seq(R)
    BY <1>5, <2>1, <2>2
  <2> QED BY <2>1, <2>3 DEF R
<1>8. target' \in Slot \cup {None} /\ pending' \in BOOLEAN
  <2>1. target \in Slot \cup {None} /\ pending \in BOOLEAN
    BY <1>2 DEF TypeOK, FetchTypeOK
  <2> QED BY <1>2, <1>5, <2>1
<1>9. TypeOK'
  <2>1. failure' \in Failures
    BY <1>2, <1>5 DEF TypeOK, FetchTypeOK, Failures
  <2>2. FetchTypeOK'
    BY <1>1, <1>2, <1>8, <2>1 DEF TypeOK, FetchTypeOK
  <2>3. ScanTypeOK'
    BY <1>1, <1>2 DEF TypeOK, ScanTypeOK
  <2>4. WatchTypeOK'
    BY <1>6, <1>7 DEF WatchTypeOK
  <2> QED BY <1>1, <1>2, <2>2, <2>3, <2>4 DEF TypeOK
<1>10. /\ ~Scanning' /\ ~Succeeded' /\ (Watching' <=> pc' = "watchSleep") /\ (Chosen' <=> pc' = "header")
       /\ ~ScanMode'
  BY <1>1, <1>3, <1>5 DEF Scanning, Succeeded, Watching, Chosen, ScanMode
<1>11. MainIsOnCourse'
  BY <1>1, <1>3, <1>5, <1>10 DEF RunIsSound, MainIsOnCourse
<1>12. HitsAreCurrent' /\ HitsAreVisited' /\ SearchIsOnCourse' /\ ScanHasChosen'
  BY <1>1, <1>3, <1>10, ScanStays
<1>13. WatchIsOnCourse'
  <2>1. lastChecked' # None => lastChecked' <= finality
    BY <1>2 DEF RunIsSound, WatchIsOnCourse
  <2> QED BY <1>1, <1>5, <1>10, <2>1 DEF WatchIsOnCourse, FirstSlot
<1>14. PollingMeansEmpty'
  <2>1. PollingMeansEmpty
    BY DEF RunIsSound
  <2>2. CASE progress' = progress \/ progress' = Torn
    BY <1>1, <2>1, <2>2 DEF PollingMeansEmpty, FirstSlot
  <2>3. CASE progress' = summary
    BY <1>1, <1>4, <2>3 DEF PollingMeansEmpty, FirstSlot
  <2> QED BY <1>5, <2>2, <2>3
<1>15. TargetIsOneState'
  BY <1>1, <1>2, <1>5, <1>10 DEF TargetIsOneState, FirstSlot
<1>16. args.maxPolls # None /\ Logged =>
         /\ \A i \in DOMAIN events : events[i] # Torn /\ events[i].status = "polling"
         /\ \A e \in Epochs(events) : e <= lastChecked
         /\ lastChecked = None => events = <<>>
  BY Zenon DEF RunIsSound, TrailIsKept
<1>17. args.maxPolls # None => \A i \in DOMAIN events : LineTells(events, i)
  BY LinesTell DEF RunIsSound
<1>18. ASSUME args.maxPolls # None, Logged, NEW e \in Summary \cup {Torn}, e \in {Torn, summary}
       PROVE  /\ \A i \in DOMAIN Append(events, e) : LineTells(Append(events, e), i)
              /\ Epochs(Append(events, e)) = Epochs(events) \cup {e.epoch}
  <2>1. e # Torn /\ e.status = "polling" =>
          /\ e.count.polls = Len(events) + 1
          /\ e.count.polls = e.count.checks + e.count.skipped
          /\ e.count.checks = Cardinality(Epochs(events) \cup {e.epoch})
    BY <1>4, <1>18
  <2>2. \A i \in DOMAIN events : events[i] # Torn /\ events[i].status = "polling" /\ LineTells(events, i)
    BY <1>16, <1>17, <1>18
  <2> QED BY <1>7, <2>1, <2>2, NewLineTells
<1>19. EventsTellEveryPoll'
  <2>1. ASSUME args.maxPolls # None PROVE \A i \in DOMAIN events' : LineTells(events', i)
    <3>1. CASE events' = events
      BY <1>17, <2>1, <3>1
    <3>2. CASE Logged /\ events' = Append(events, Torn)
      BY <1>18, <2>1, <3>2
    <3>3. CASE Logged /\ events' = Append(events, summary)
      BY <1>4, <1>18, <2>1, <3>3
    <3> QED BY <1>5, <3>1, <3>2, <3>3
  <2>2. args'.maxPolls # None => \A i \in DOMAIN events' : LineTells(events', i)
    BY <1>1, <2>1
  <2> QED BY <2>2, Zenon DEF EventsTellEveryPoll, LineTells
<1>20. TrailIsKept'
  <2>1. ~Logged' => events' = <<>>
    BY <1>1, <1>5 DEF RunIsSound, TrailIsKept, Logged
  <2>2. ASSUME Watching', Logged', args'.maxPolls # None
        PROVE  /\ \A i \in DOMAIN events' : events'[i] # Torn /\ events'[i].status = "polling"
               /\ Len(events') = count'.polls
               /\ Len(events') = count'.checks + count'.skipped
               /\ count'.checks = Cardinality(Epochs(events'))
               /\ lastChecked' = finality /\ finality \in Epochs(events')
               /\ \A e \in Epochs(events') : e <= finality
    <3>1. /\ pc' = "watchSleep" /\ status = "polling" /\ Logged /\ args.maxPolls # None
          /\ events' = Append(events, summary)
      BY <1>1, <1>5, <1>10, <2>2 DEF Logged
    <3>2. summary \in Summary \cup {Torn} /\ summary # Torn
      BY <1>4, TornAssumption
    <3>3. Epochs(events') = Epochs(events) \cup {finality}
      BY <1>4, <1>18, <3>1, <3>2
    <3>4. /\ Len(events') = Len(events) + 1 /\ DOMAIN events' = 1..Len(events) + 1
          /\ DOMAIN events = 1..Len(events)
          /\ \A i \in 1..Len(events) : events'[i] = events[i]
          /\ events'[Len(events) + 1] = summary
      <4> DEFINE R == Summary \cup {Torn}
      <4>1. events \in Seq(R) /\ summary \in R
        BY <1>7, <3>2
      <4> HIDE DEF R
      <4> QED BY <3>1, <4>1, AppendIs
    <3>5. \A i \in DOMAIN events' : events'[i] # Torn /\ events'[i].status = "polling"
      <4> SUFFICES ASSUME NEW i \in DOMAIN events'
                   PROVE events'[i] # Torn /\ events'[i].status = "polling"
        OBVIOUS
      <4>1. CASE i \in DOMAIN events
        BY <1>16, <3>1, <3>4, <4>1
      <4>2. CASE i \notin DOMAIN events
        <5>1. events'[i] = summary
          BY <3>4, <4>2
        <5> QED BY <1>4, <3>1, <3>2, <5>1
      <4> QED BY <4>1, <4>2
    <3>6. \A e \in Epochs(events) : e <= finality
      <4>1. CASE lastChecked = None
        <5>1. events = <<>>
          BY <1>16, <3>1, <4>1
        <5> QED BY <5>1 DEF Epochs
      <4>2. CASE lastChecked # None
        <5>1. lastChecked \in Nat /\ lastChecked <= finality
          BY <1>2, <4>2, FetchAssumption DEF RunIsSound, WatchIsOnCourse, TypeOK, WatchTypeOK
        <5>2. \A e \in Epochs(events) : e \in Nat
          BY <1>7, <1>16, <3>1, <3>4, FetchAssumption DEF Epochs, Summary
        <5> QED BY <1>2, <1>16, <3>1, <5>1, <5>2
      <4> QED BY <4>1, <4>2
    <3> QED BY <1>2, <3>1, <3>3, <3>4, <3>5, <3>6
  <2>3. lastChecked' # None <=> ~(lastChecked' = None)
    OBVIOUS
  <2> QED BY <1>2, <1>10, <2>1, <2>2, FetchAssumption DEF TrailIsKept
<1> QED BY <1>9, <1>10, <1>11, <1>12, <1>13, <1>14, <1>15, <1>19, <1>20 DEF RunIsSound, SnapshotTells

\* Counters stay numbers, and count each poll when polls are limited.
LEMMA CountedType ==
  ASSUME TypeOK, NEW field \in {"polls", "checks", "skipped"}
  PROVE  /\ count \in Counters /\ Counted(field) \in Counters
         /\ args.maxPolls # None => Counted(field) = [count EXCEPT ![field] = @ + 1]
<1>1. count \in Counters
  BY DEF TypeOK, WatchTypeOK
<1>2. [count EXCEPT ![field] = @ + 1] \in Counters
  BY <1>1 DEF Counters
<1> QED BY <1>1, <1>2 DEF Counted

\* A poll starts, with a finality that has only moved on.
LEMMA WatchFinalityKeeps ==
  ASSUME RunIsSound, snapshot = None, WatchFinality, UNCHANGED <<scan, report>>
  PROVE  RunIsSound'
<1>1. /\ UNCHANGED <<proposed, nonEmpty, retained, finalizedEpoch, args, target, pending, failure>>
      /\ UNCHANGED <<window, wanted, todo, slot, hits, fallback, scan>>
      /\ UNCHANGED <<lastChecked, progress, events, defaultFinalizedSlot, debugState>> /\ snapshot' = None
      /\ pc = "watchFinality" /\ pc' = "watchState" /\ count' = Counted("polls")
      /\ finality' \in {finality, finalizedEpoch}
  BY DEF WatchFinality, FinalityCheckpoints, node, scan, report
<1>2. TypeOK
  BY DEF RunIsSound
<1>3. finality \in Nat /\ finality' \in 0..MaxEpoch /\ finality <= finality' /\ finality' \in 0..finalizedEpoch
  BY <1>1, <1>2, EpochType, FetchAssumption DEF TypeOK, FetchTypeOK
<1>4. count \in Counters /\ count' \in Counters
  BY <1>1, <1>2, CountedType
<1>5. TypeOK'
  <2>1. FetchTypeOK'
    BY <1>1, <1>2, <1>3 DEF TypeOK, FetchTypeOK
  <2>2. ScanTypeOK' /\ WatchTypeOK'
    BY <1>1, <1>2, <1>4 DEF TypeOK, ScanTypeOK, WatchTypeOK
  <2> QED BY <1>1, <1>2, <2>1, <2>2 DEF TypeOK
<1>6. ~Scanning' /\ Watching /\ Watching' /\ ~Succeeded' /\ ~Chosen'
  BY <1>1 DEF Scanning, Watching, Succeeded, Chosen
<1>7. args.watch
  BY <1>6 DEF RunIsSound, MainIsOnCourse
<1>8. MainIsOnCourse'
  <2>1. defaultFinalizedSlot \in Nat /\ defaultFinalizedSlot <= FirstSlot(finality)
    BY <1>2, EpochType DEF RunIsSound, MainIsOnCourse, TypeOK
  <2>2. FirstSlot(finality) <= FirstSlot(finality')
    BY <1>3, EpochSlots
  <2>3. FirstSlot(finality) \in Nat /\ FirstSlot(finality') \in Nat
    BY <1>2, <1>3, EpochSlots, EpochType
  <2>4. defaultFinalizedSlot <= FirstSlot(finality')
    BY <2>1, <2>2, <2>3
  <2> QED BY <1>1, <1>6, <1>7, <2>4 DEF RunIsSound, MainIsOnCourse, FirstSlot
<1>9. HitsAreCurrent' /\ HitsAreVisited' /\ SearchIsOnCourse' /\ ScanHasChosen'
  BY <1>1, <1>6, ScanStays
<1>10. WatchIsOnCourse'
  <2>1. lastChecked # None => lastChecked \in Nat
    BY <1>2, FetchAssumption DEF TypeOK, WatchTypeOK
  <2> QED BY <1>1, <1>3, <1>6, <2>1 DEF RunIsSound, WatchIsOnCourse, FirstSlot
<1>11. PollingMeansEmpty' /\ EventsTellEveryPoll'
  <2>1. PollingMeansEmpty'
    BY <1>1 DEF RunIsSound, PollingMeansEmpty, FirstSlot
  <2>2. args'.maxPolls # None => \A i \in DOMAIN events' : LineTells(events', i)
    BY <1>1, LinesTell DEF RunIsSound
  <2> QED BY <2>1, <2>2, Zenon DEF EventsTellEveryPoll, LineTells
<1>12. TrailIsKept'
  <2>1. args.maxPolls # None =>
          count'.polls = count.polls + 1 /\ count'.checks = count.checks /\ count'.skipped = count.skipped
    BY <1>1, <1>2, <1>4, CountedType DEF Counters
  <2>2. TrailIsKept
    BY DEF RunIsSound
  <2> QED BY <1>1, <1>6, <2>1, <2>2 DEF TrailIsKept, Logged
<1> QED BY <1>5, <1>6, <1>8, <1>9, <1>10, <1>11, <1>12 DEF RunIsSound, TargetIsOneState, SnapshotTells

\* A poll ends: its state was the one checked last, or it is checked now.
LEMMA PollKeeps ==
  ASSUME RunIsSound, snapshot = None, WatchUnchanged \/ WatchState, UNCHANGED <<scan, report>>
  PROVE  RunIsSound'
<1>1. TypeOK /\ pc = "watchState" /\ Watching /\ UNCHANGED <<node, scan, report>> /\ args.watch
  BY DEF RunIsSound, MainIsOnCourse, Watching, WatchUnchanged, WatchState
<1>2. /\ finality \in 0..MaxEpoch /\ finality \in Nat /\ finality # None
      /\ lastChecked \in 0..MaxEpoch \cup {None} /\ count \in Counters
      /\ count.polls \in Nat /\ count.checks \in Nat /\ count.skipped \in Nat
  BY <1>1, EpochType, FetchAssumption DEF TypeOK, WatchTypeOK, Counters
<1>3. /\ Waiting \in {"polling", "max_polls"} /\ {"polling", "max_polls", "found"} \subseteq Status
      /\ "none" \in Failures
  BY DEF Waiting, Status, Failures
<1>4. WatchIsOnCourse /\ TrailIsKept /\ events \in Seq(Summary \cup {Torn})
  BY <1>1 DEF RunIsSound, TypeOK, WatchTypeOK
<1> DEFINE Told == Logged /\ args.maxPolls # None
<1>5. Told => /\ count.polls = Len(events) + 1 /\ Len(events) = count.checks + count.skipped
              /\ count.checks = Cardinality(Epochs(events))
              /\ IF lastChecked = None THEN events = <<>> ELSE lastChecked \in Epochs(events)
              /\ \A e \in Epochs(events) : e <= lastChecked
              /\ \A i \in DOMAIN events : events[i] # Torn
  BY <1>1, <1>4 DEF TrailIsKept
<1>6. ASSUME WatchUnchanged PROVE RunIsSound'
  <2>1. /\ lastChecked = finality /\ lastChecked' = lastChecked /\ count' = Counted("skipped")
        /\ Report(Waiting, "none")
    BY <1>6 DEF WatchUnchanged
  <2>2. count' \in Counters /\ (args.maxPolls # None => count' = [count EXCEPT !.skipped = @ + 1])
    BY <1>1, <2>1, CountedType
  <2>3. FirstSlot(finality) \notin nonEmpty
    BY <1>1, <1>2, <1>4, <2>1 DEF WatchIsOnCourse
  <2>4. Told =>
          /\ count'.polls = Len(events) + 1
          /\ count'.polls = count'.checks + count'.skipped
          /\ count'.checks = Cardinality(Epochs(events) \cup {finality})
    <3> SUFFICES ASSUME Told
                 PROVE  /\ count'.polls = Len(events) + 1
                        /\ count'.polls = count'.checks + count'.skipped
                        /\ count'.checks = Cardinality(Epochs(events) \cup {finality})
      OBVIOUS
    <3>1. /\ count'.polls = count.polls /\ count'.checks = count.checks
          /\ count'.skipped = count.skipped + 1
      BY <1>2, <2>2 DEF Counters
    <3>2. Epochs(events) \cup {finality} = Epochs(events)
      BY <1>2, <1>5, <2>1
    <3>3. /\ count.polls = Len(events) + 1 /\ Len(events) = count.checks + count.skipped
          /\ count.checks = Cardinality(Epochs(events))
      BY <1>5
    <3>4. count'.polls = Len(events) + 1 /\ count'.checks = Cardinality(Epochs(events) \cup {finality})
      BY <3>1, <3>2, <3>3
    <3>5. count'.polls = count'.checks + count'.skipped
      BY <1>2, <3>1, <3>3
    <3> QED BY <3>4, <3>5
  <2> QED BY <1>1, <1>3, <2>1, <2>2, <2>3, <2>4, ReportKeeps
<1>7. ASSUME WatchState PROVE RunIsSound'
  <2> DEFINE status == IF FirstSlot(finality) \in nonEmpty THEN "found" ELSE Waiting
  <2>1. /\ lastChecked # finality /\ lastChecked' = finality /\ count' = Counted("checks")
        /\ Report(status, "none")
    BY <1>7 DEF WatchState
  <2>2. status \in Status /\ (status = "found" => FirstSlot(finality) \in nonEmpty)
    BY <1>3
  <2>3. status \in {"polling", "max_polls"} => FirstSlot(finality) \notin nonEmpty
    OBVIOUS
  <2>4. count' \in Counters /\ (args.maxPolls # None => count' = [count EXCEPT !.checks = @ + 1])
    BY <1>1, <2>1, CountedType
  <2>5. Told =>
          /\ count'.polls = Len(events) + 1
          /\ count'.polls = count'.checks + count'.skipped
          /\ count'.checks = Cardinality(Epochs(events) \cup {finality})
    <3> SUFFICES ASSUME Told
                 PROVE  /\ count'.polls = Len(events) + 1
                        /\ count'.polls = count'.checks + count'.skipped
                        /\ count'.checks = Cardinality(Epochs(events) \cup {finality})
      OBVIOUS
    <3>1. /\ count'.polls = count.polls /\ count'.checks = count.checks + 1
          /\ count'.skipped = count.skipped
      BY <1>2, <2>4 DEF Counters
    <3>2. Epochs(events) \in SUBSET (0..MaxEpoch)
      BY <1>4, <1>5 DEF Epochs, Summary
    <3>3. IsFiniteSet(Epochs(events))
      <4>1. IsFiniteSet(0..MaxEpoch)
        BY FetchAssumption, FS_Interval
      <4> DEFINE U == 0..MaxEpoch
      <4>2. Epochs(events) \in SUBSET U /\ IsFiniteSet(U)
        BY <3>2, <4>1
      <4> HIDE DEF U
      <4> QED BY <4>2, FS_Subset
    <3>4. finality \notin Epochs(events)
      <4>1. CASE lastChecked = None
        <5>1. events = <<>>
          BY <1>5, <4>1
        <5> QED BY <5>1 DEF Epochs
      <4>2. CASE lastChecked # None
        <5>1. lastChecked \in Nat /\ lastChecked < finality
          BY <1>2, <1>4, <2>1, <4>2, FetchAssumption DEF WatchIsOnCourse
        <5> QED BY <1>2, <1>5, <5>1
      <4> QED BY <4>1, <4>2
    <3>5. Cardinality(Epochs(events) \cup {finality}) = Cardinality(Epochs(events)) + 1
      BY <3>3, <3>4, FS_AddElement
    <3> QED BY <1>2, <1>5, <3>1, <3>5
  <2> HIDE DEF status
  <2> QED BY <1>1, <1>3, <2>1, <2>2, <2>3, <2>4, <2>5, ReportKeeps
<1> QED BY <1>6, <1>7

\* Every step of the watch.
LEMMA WatchStepsKeep ==
  ASSUME RunIsSound, snapshot = None, Watch, UNCHANGED <<scan, report>>
  PROVE  RunIsSound'
<1>1. ASSUME WatchFails PROVE RunIsSound'
  <2>1. /\ count' = count /\ lastChecked' = lastChecked /\ UNCHANGED <<node, scan, report>> /\ Watching
        /\ Report("error", "node") \/ Report("error", "notFound")
    BY <1>1 DEF WatchFails, Watching
  <2>2. count' \in Counters
    BY <2>1 DEF RunIsSound, TypeOK, WatchTypeOK
  <2>3. "error" \in Status /\ "node" \in Failures /\ "notFound" \in Failures
    BY DEF Status, Failures
  <2> QED BY <2>1, <2>2, <2>3, ReportKeeps
<1>2. ASSUME WatchSleep PROVE RunIsSound'
  <2>1. /\ UNCHANGED <<proposed, nonEmpty, retained, finalizedEpoch, args, finality, target, pending, failure>>
        /\ UNCHANGED <<window, wanted, todo, slot, hits, fallback, scan>>
        /\ UNCHANGED <<count, lastChecked, progress, events, watch>>
        /\ UNCHANGED <<defaultFinalizedSlot, debugState>> /\ snapshot' = None
        /\ pc = "watchSleep" /\ pc' = "watchFinality"
    BY <1>2 DEF WatchSleep, Goto, node, scan, watch, report
  <2>2. TypeOK
    BY DEF RunIsSound
  <2>3. TypeOK'
    <3>1. FetchTypeOK'
      BY <2>1, <2>2 DEF TypeOK, FetchTypeOK
    <3>2. ScanTypeOK' /\ WatchTypeOK'
      BY <2>1, <2>2 DEF TypeOK, ScanTypeOK, WatchTypeOK
    <3> QED BY <2>1, <2>2, <3>1, <3>2 DEF TypeOK
  <2>4. ~Scanning' /\ Watching /\ Watching' /\ ~Succeeded' /\ ~Chosen'
    BY <2>1 DEF Scanning, Watching, Succeeded, Chosen
  <2>5. MainIsOnCourse'
    BY <2>1, <2>4 DEF RunIsSound, MainIsOnCourse
  <2>6. HitsAreCurrent' /\ HitsAreVisited' /\ SearchIsOnCourse' /\ ScanHasChosen'
    BY <2>1, <2>4, ScanStays
  <2>7. WatchIsOnCourse' /\ PollingMeansEmpty' /\ TrailIsKept' /\ EventsTellEveryPoll'
    <3>1. finality <= finality'
      BY <2>1, <2>2, EpochType
    <3> QED BY <2>1, <2>3, <2>4, <3>1, WatchStays
  <2> QED BY <2>3, <2>4, <2>5, <2>6, <2>7 DEF RunIsSound, TargetIsOneState, SnapshotTells
<1> QED BY <1>1, <1>2, WatchFinalityKeeps, PollKeeps DEF Watch

-----------------------------------------------------------------------------
(* Every run is sound. *)

\* The program starts soundly ...
LEMMA RunInit == Init => RunIsSound
<1> SUFFICES ASSUME Init PROVE RunIsSound
  OBVIOUS
<1>1. /\ FetchInit /\ ScanInit /\ WatchInit
      /\ defaultFinalizedSlot = 0 /\ debugState = FALSE /\ snapshot = None
  BY DEF Init
<1>2. MaxEpoch * SlotsPerEpoch \in Nat /\ 0 \in Slot
  BY FetchAssumption DEF Slot
<1>3. TypeOK
  <2>1. FetchTypeOK
    <3>1. /\ proposed \subseteq Slot /\ nonEmpty \subseteq proposed /\ retained \subseteq proposed
          /\ finalizedEpoch \in 0..MaxEpoch /\ args \in Args /\ finality = 0 /\ target = None
          /\ pending = FALSE /\ failure = "none"
      BY <1>1 DEF FetchInit
    <3>2. finality \in 0..finalizedEpoch
      BY <3>1, FetchAssumption
    <3> QED BY <3>1, <3>2 DEF FetchTypeOK, Failures
  <2>2. ScanTypeOK
    <3> DEFINE R == [requested : Slot, slot : Slot]
    <3>1. /\ window = [lo |-> 0, hi |-> 0] /\ wanted = 0 /\ todo = {} /\ slot = 0
          /\ hits = <<>> /\ fallback = FALSE
      BY <1>1 DEF ScanInit
    <3> HIDE DEF R
    <3>2. hits \in Seq(R)
      BY <3>1
    <3> QED BY <1>2, <3>1, <3>2 DEF ScanTypeOK, R
  <2>3. WatchTypeOK
    BY <1>1 DEF WatchInit, WatchTypeOK, Counters
  <2> QED BY <1>1, <1>2, <2>1, <2>2, <2>3 DEF TypeOK
<1>4. ~Scanning /\ ~Watching /\ ~Succeeded /\ ~Chosen
  BY <1>1 DEF FetchInit, Scanning, Watching, Succeeded, Chosen
<1>5. MainIsOnCourse
  <2>1. FirstSlot(0) = 0
    BY FetchAssumption DEF FirstSlot
  <2> QED BY <1>1, <1>4, <2>1 DEF FetchInit, ScanInit, WatchInit, MainIsOnCourse
<1>6. HitsAreCurrent /\ HitsAreVisited /\ SearchIsOnCourse /\ ScanHasChosen
  BY <1>1, <1>4 DEF ScanInit, HitsAreCurrent, HitsAreVisited, SearchIsOnCourse, ScanHasChosen
<1>7. WatchIsOnCourse /\ PollingMeansEmpty /\ TrailIsKept /\ EventsTellEveryPoll
  BY <1>1, <1>4 DEF WatchInit, WatchIsOnCourse, PollingMeansEmpty, TrailIsKept, EventsTellEveryPoll
<1> QED BY <1>3, <1>4, <1>5, <1>6, <1>7 DEF RunIsSound, TargetIsOneState, SnapshotTells

\* ... and each step of program and node keeps it so.
LEMMA RunNext == RunIsSound /\ [Next]_vars => RunIsSound'
<1> SUFFICES ASSUME RunIsSound, [Next]_vars PROVE RunIsSound'
  OBVIOUS
<1>1. CASE Program
  <2>1. snapshot = None
    BY <1>1, ProgramRuns
  <2>2. CASE Main
    BY <2>1, <2>2, GetFinalityKeeps, ResolveKeeps, RequestsKeep, WriteKeeps DEF Main
  <2>3. CASE Scan /\ UNCHANGED <<watch, report>>
    BY <2>1, <2>3, ScanStepsKeep
  <2>4. CASE Watch /\ UNCHANGED <<scan, report>>
    BY <2>1, <2>4, WatchStepsKeep
  <2> QED BY <1>1, <2>2, <2>3, <2>4 DEF Program
<1>2. CASE (FinalizeMore \/ Prune) /\ UNCHANGED <<main, scan, watch, report>>
  BY <1>2, NodeKeeps
<1>3. CASE UNCHANGED vars
  BY <1>3, NodeKeeps
<1> QED BY <1>1, <1>2, <1>3 DEF Next

\* Every state of every run of fetch-and-prove is sound: the invariant the
\* properties below follow from.
THEOREM RunIsSoundHolds == Spec => []RunIsSound
BY RunInit, RunNext, PTL DEF Spec

\* Every state of every run is typed.
THEOREM FetchTypeCorrect == Spec => []TypeOK
<1>1. RunIsSound => TypeOK
  BY DEF RunIsSound
<1> QED BY <1>1, RunIsSoundHolds, PTL

\* A hit of the historical scan is the state that was current at its slot,
\* whatever was missed or pruned.
THEOREM HitsAreCurrentHolds == Spec => []HitsAreCurrent
<1>1. RunIsSound => HitsAreCurrent
  BY DEF RunIsSound
<1> QED BY <1>1, RunIsSoundHolds, PTL

\* A progress file that says "polling" names an empty finalized state.
THEOREM PollingMeansEmptyHolds == Spec => []PollingMeansEmpty
<1>1. RunIsSound => PollingMeansEmpty
  BY DEF RunIsSound
<1> QED BY <1>1, RunIsSoundHolds, PTL

\* The event log has one line per poll, in order, and no finalized state twice.
THEOREM EventsTellEveryPollHolds == Spec => []EventsTellEveryPoll
<1>1. RunIsSound => EventsTellEveryPoll
  BY DEF RunIsSound
<1> QED BY <1>1, RunIsSoundHolds, PTL

\* A snapshot's block and its pending consolidations are of one state, although
\* they came from different requests.
THEOREM SnapshotIsOfOneStateHolds == Spec => []SnapshotIsOfOneState
<1>1. RunIsSound => SnapshotIsOfOneState
  <2> SUFFICES ASSUME RunIsSound, Succeeded
               PROVE  /\ snapshot.slot \in proposed
                      /\ snapshot.pending <=> snapshot.slot \in nonEmpty
    BY DEF SnapshotIsOfOneState
  <2>1. Chosen /\ pc = "exited"
    BY DEF RunIsSound, MainIsOnCourse, Chosen, Succeeded
  <2>2. target \in proposed /\ (pending <=> target \in nonEmpty)
    BY <2>1 DEF RunIsSound, TargetIsOneState
  <2>3. snapshot.slot = target /\ snapshot.pending = pending
    BY Zenon DEF RunIsSound, SnapshotTells
  <2>4. snapshot.pending <=> snapshot.slot \in nonEmpty
    BY <2>2, <2>3, Zenon
  <2> QED BY <2>2, <2>3, <2>4
<1> QED BY <1>1, RunIsSoundHolds, PTL

\* A later slot has the same block or a later one.
LEMMA AsOfIsMonotone ==
  ASSUME RunIsSound, NEW s \in Nat, NEW t \in Nat, s <= t
  PROVE  AsOf(s) <= AsOf(t) /\ AsOf(s) \in Nat /\ AsOf(t) \in Nat /\ AsOf(s) <= s
<1>1. 0 \in proposed /\ proposed \subseteq Slot /\ Slot \subseteq Nat
  BY EpochType DEF RunIsSound, MainIsOnCourse, TypeOK, FetchTypeOK
<1>2. AsOf(s) \in proposed /\ AsOf(s) <= s /\ AsOf(t) \in proposed
  BY <1>1, AsOfProperties
<1>3. \A b \in proposed : b <= t => b <= AsOf(t)
  BY <1>1, AsOfProperties
<1>4. AsOf(s) \in Nat /\ AsOf(t) \in Nat
  BY <1>1, <1>2
<1>5. AsOf(s) <= t
  BY <1>2, <1>4
<1> QED BY <1>2, <1>3, <1>4, <1>5

\* What holds of a scan that has chosen a state.
LEMMA ScanEnds ==
  ASSUME RunIsSound, Succeeded, ScanMode
  PROVE  /\ window.lo \in Nat /\ window.hi \in Nat /\ window.hi <= FirstSlot(finality)
         /\ wanted \in window.lo..window.hi /\ FirstSlot(finality) \in Nat
         /\ ScanSlots(window, args.step, wanted) \subseteq window.lo..window.hi
         /\ IsFiniteSet(ScanSlots(window, args.step, wanted))
         /\ ScanPoint \subseteq ScanSlots(window, args.step, wanted)
         /\ Visited = ScanSlots(window, args.step, wanted) \ todo
         /\ \A s \in Visited, t \in todo : Before(s, t)
         /\ \A i \in DOMAIN hits : /\ hits[i].requested \in Visited /\ hits[i].slot = AsOf(hits[i].requested)
                                   /\ ~Before(hits[i].requested, hits[1].requested)
         /\ \A s \in Visited : AsOf(s) \in nonEmpty => \E i \in DOMAIN hits : hits[i].requested = s
         /\ todo = {} \/ (hits # <<>> /\ LimitReached(hits))
         /\ IF hits = <<>> THEN target = wanted /\ ~pending ELSE target = hits[1].slot /\ pending
         /\ hits # <<>> => 1 \in DOMAIN hits
<1>1. Chosen /\ TypeOK
  BY DEF Chosen, RunIsSound
<1>2. /\ window \in [lo : Nat, hi : Nat] /\ window.lo \in Nat /\ window.hi \in Nat /\ FirstSlot(finality) \in Nat
      /\ hits \in Seq([requested : Slot, slot : Slot])
  BY <1>1, EpochType DEF TypeOK, ScanTypeOK
<1>3. /\ window.hi <= FirstSlot(finality) /\ wanted \in window.lo..window.hi
      /\ \A s \in Visited, t \in todo : Before(s, t)
      /\ \A s \in Visited : AsOf(s) \in nonEmpty => \E i \in DOMAIN hits : hits[i].requested = s
  BY <1>1 DEF RunIsSound, HitsAreVisited
<1>4. \A i \in DOMAIN hits : /\ hits[i].requested \in Visited /\ hits[i].slot = AsOf(hits[i].requested)
                             /\ ~Before(hits[i].requested, hits[1].requested)
  BY <1>1 DEF RunIsSound, HitsAreVisited, HitsAreCurrent
<1>5. /\ todo = {} \/ (hits # <<>> /\ LimitReached(hits))
      /\ IF hits = <<>> THEN target = wanted /\ ~pending ELSE target = hits[1].slot /\ pending
  BY <1>1 DEF RunIsSound, ScanHasChosen
<1>6. IsFiniteSet(ScanSlots(window, args.step, wanted))
  BY <1>1, <1>2, <1>3, ScanSlotsType
<1>7. ScanSlots(window, args.step, wanted) \subseteq window.lo..window.hi
  BY <1>2, <1>3 DEF ScanSlots
<1>8. ScanPoint \subseteq ScanSlots(window, args.step, wanted)
  BY DEF ScanPoint, ScanSlots
<1>9. hits # <<>> => 1 \in DOMAIN hits
  BY <1>2
<1> QED BY <1>2, <1>3, <1>4, <1>5, <1>6, <1>7, <1>8, <1>9 DEF Visited

\* Watching and scanning capture finalized states only, and the finality in the
\* snapshot covers the state beside it.
THEOREM SnapshotIsFinalizedHolds == Spec => []SnapshotIsFinalized
<1>1. RunIsSound => SnapshotIsFinalized
  <2> SUFFICES ASSUME RunIsSound, Succeeded
               PROVE  /\ snapshot.finalizedSlot <= FirstSlot(snapshot.finalizedEpoch)
                      /\ ScanMode => snapshot.slot <= snapshot.finalizedSlot
                      /\ args.watch => snapshot.slot = FirstSlot(snapshot.finalizedEpoch)
    BY DEF SnapshotIsFinalized
  <2>1. /\ snapshot.slot = target /\ snapshot.finalizedEpoch = finality
        /\ snapshot.finalizedSlot = defaultFinalizedSlot
    BY DEF RunIsSound, SnapshotTells
  <2>2. /\ defaultFinalizedSlot <= FirstSlot(finality)
        /\ ~args.watch => defaultFinalizedSlot = FirstSlot(finality)
    BY DEF RunIsSound, MainIsOnCourse
  <2>3. args.watch => target = FirstSlot(finality)
    BY DEF RunIsSound, TargetIsOneState, Chosen
  <2>4. ASSUME ScanMode PROVE target <= defaultFinalizedSlot
    <3>1. defaultFinalizedSlot = FirstSlot(finality)
      BY <2>2, <2>4 DEF ScanMode
    <3>2. CASE hits = <<>>
      <4>1. target = wanted /\ wanted \in window.lo..window.hi /\ window.hi <= FirstSlot(finality)
            /\ window.lo \in Nat /\ window.hi \in Nat /\ FirstSlot(finality) \in Nat
        BY <2>4, <3>2, ScanEnds
      <4> QED BY <3>1, <4>1
    <3>3. CASE hits # <<>>
      <4> DEFINE r == hits[1].requested
      <4>1. /\ target = AsOf(r) /\ r \in window.lo..window.hi /\ window.hi <= FirstSlot(finality)
            /\ window.lo \in Nat /\ window.hi \in Nat /\ FirstSlot(finality) \in Nat
        BY <2>4, <3>3, ScanEnds
      <4> HIDE DEF r
      <4>2. r \in Nat /\ r <= FirstSlot(finality)
        BY <4>1
      <4>3. AsOf(r) <= r /\ AsOf(r) \in Nat
        BY <4>2, AsOfIsMonotone
      <4>4. AsOf(r) <= FirstSlot(finality)
        BY <4>1, <4>2, <4>3
      <4> QED BY <3>1, <4>1, <4>4
    <3> QED BY <3>2, <3>3
  <2> QED BY <2>1, <2>2, <2>3, <2>4
<1> QED BY <1>1, RunIsSoundHolds, PTL

\* A scan that --scan-hit-limit did not cut short found every non-empty state of
\* its window that was current at a step or at the end, and its first and last
\* hit are the outermost of them.
THEOREM ScanMissesNothingHolds == Spec => []ScanMissesNothing
<1>1. RunIsSound => ScanMissesNothing
  <2> SUFFICES ASSUME RunIsSound, Succeeded, ScanMode, ~LimitReached(hits)
               PROVE  /\ snapshot.checked >= Cardinality(ScanPoint)
                      /\ \A s \in ScanPoint : AsOf(s) \in nonEmpty =>
                           /\ \E i \in DOMAIN hits : hits[i].slot = AsOf(s)
                           /\ snapshot.first <= AsOf(s) /\ AsOf(s) <= snapshot.last
    BY DEF ScanMissesNothing
  <2> DEFINE T == ScanSlots(window, args.step, wanted)
             H == {hits[i].slot : i \in DOMAIN hits}
  <2>1. snapshot.checked = SlotsChecked /\ snapshot.first = MinHitSlot /\ snapshot.last = MaxHitSlot
    BY DEF RunIsSound, SnapshotTells
  <2>2. todo = {}
    BY ScanEnds
  <2>3. snapshot.checked >= Cardinality(ScanPoint)
    <3>1. SlotsChecked = Cardinality(T)
      <4>1. T \ todo = T
        BY <2>2
      <4> QED BY <4>1 DEF SlotsChecked
    <3>2. IsFiniteSet(T) /\ ScanPoint \in SUBSET T
      BY ScanEnds
    <3> HIDE DEF T
    <3>3. Cardinality(ScanPoint) <= Cardinality(T)
      BY <3>2, FS_Subset
    <3>4. Cardinality(ScanPoint) \in Nat /\ Cardinality(T) \in Nat
      BY <3>2, FS_Subset, FS_CardinalityType
    <3> QED BY <2>1, <3>1, <3>3, <3>4
  <2>4. ASSUME NEW s \in ScanPoint, AsOf(s) \in nonEmpty
        PROVE  /\ \E i \in DOMAIN hits : hits[i].slot = AsOf(s)
               /\ snapshot.first <= AsOf(s) /\ AsOf(s) <= snapshot.last
    <3>1. s \in Visited
      BY <2>2, ScanEnds
    <3>2. PICK i \in DOMAIN hits : hits[i].requested = s
      BY <2>4, <3>1, ScanEnds
    <3>3. hits[i].slot = AsOf(s)
      BY <3>2, ScanEnds
    <3>4. H \in SUBSET Slot
      BY HitsType DEF RunIsSound, TypeOK
    <3>5. AsOf(s) \in H /\ H # {} /\ hits # <<>>
      BY <3>2, <3>3
    <3>6. MinHitSlot = Min(H) /\ MaxHitSlot = Max(H)
      BY <3>5 DEF MinHitSlot, MaxHitSlot
    <3> HIDE DEF H
    <3>7. Min(H) <= AsOf(s) /\ AsOf(s) <= Max(H)
      BY <3>4, <3>5, Extremes
    <3> QED BY <2>1, <3>2, <3>3, <3>6, <3>7
  <2> QED BY <2>3, <2>4
<1> QED BY <1>1, RunIsSoundHolds, PTL

\* The state a scan chooses is the earliest non-empty one of its steps, or the
\* latest in reverse, also when --scan-hit-limit ended it.
THEOREM ScanResultIsExtremeHolds == Spec => []ScanResultIsExtreme
<1>1. RunIsSound => ScanResultIsExtreme
  <2> SUFFICES ASSUME RunIsSound, Succeeded, ScanMode, NEW s \in ScanPoint, AsOf(s) \in nonEmpty
               PROVE  /\ snapshot.pending
                      /\ IF args.reverse THEN snapshot.slot >= AsOf(s) ELSE snapshot.slot <= AsOf(s)
    BY DEF ScanResultIsExtreme
  <2>1. snapshot.slot = target /\ snapshot.pending = pending
    BY DEF RunIsSound, SnapshotTells
  <2>2. /\ window.lo \in Nat /\ window.hi \in Nat /\ s \in window.lo..window.hi
        /\ s \in Visited \/ s \in todo
    BY ScanEnds
  <2>3. s \in Nat
    BY <2>2
  <2>4. hits # <<>> /\ 1 \in DOMAIN hits
    <3>1. CASE s \in Visited
      <4>1. PICK i \in DOMAIN hits : hits[i].requested = s
        BY <3>1, ScanEnds
      <4>2. hits # <<>>
        BY <4>1
      <4> QED BY <4>2, ScanEnds
    <3>2. CASE s \in todo
      <4>1. todo # {}
        BY <3>2
      <4> QED BY <4>1, ScanEnds
    <3> QED BY <2>2, <3>1, <3>2
  <2> DEFINE r == hits[1].requested
  <2>5. pending /\ target = AsOf(r) /\ r \in Visited
    BY <2>4, ScanEnds
  <2>6. r \in Nat
    <3>1. r \in Slot
      BY <2>4, HitsType DEF RunIsSound, TypeOK
    <3> QED BY <3>1, EpochType DEF RunIsSound
  <2>7. ~Before(s, r)
    <3>1. CASE s \in Visited
      <4>1. PICK i \in DOMAIN hits : hits[i].requested = s
        BY <3>1, ScanEnds
      <4> QED BY <4>1, ScanEnds
    <3>2. CASE s \in todo
      <4>1. Before(r, s)
        BY <2>5, <3>2, ScanEnds
      <4> HIDE DEF r
      <4> QED BY <2>3, <2>6, <4>1 DEF Before
    <3> QED BY <2>2, <3>1, <3>2
  <2> HIDE DEF r
  <2>8. IF args.reverse THEN AsOf(r) >= AsOf(s) ELSE AsOf(r) <= AsOf(s)
    <3>1. CASE args.reverse
      <4>1. s <= r
        BY <2>3, <2>6, <2>7, <3>1 DEF Before
      <4>2. AsOf(s) <= AsOf(r) /\ AsOf(s) \in Nat /\ AsOf(r) \in Nat
        BY <2>3, <2>6, <4>1, AsOfIsMonotone
      <4> QED BY <3>1, <4>2
    <3>2. CASE ~args.reverse
      <4>1. r <= s
        BY <2>3, <2>6, <2>7, <3>2 DEF Before
      <4>2. AsOf(r) <= AsOf(s)
        BY <2>3, <2>6, <4>1, AsOfIsMonotone
      <4> QED BY <3>2, <4>2
    <3> QED BY <3>1, <3>2
  <2> QED BY <2>1, <2>5, <2>8, Zenon
<1> QED BY <1>1, RunIsSoundHolds, PTL
================================================================================

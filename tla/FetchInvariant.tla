----------------------------- MODULE FetchInvariant -----------------------------
(***************************************************************************)
(* The inductive invariant of fetch-and-prove: where a scan, a watch or a  *)
(* single request stands, and what the state it chooses has in common with *)
(* what was asked for.  FetchAndProve_proofs.tla proves it and derives the *)
(* program's safety properties from it.                                    *)
(***************************************************************************)
EXTENDS FetchAndProve

Scanning == pc \in {"scanState", "scanHeader"}
Watching == pc \in {"watchFinality", "watchState", "watchSleep"}

\* A state has been chosen, and the snapshot, if it is written, is of it.
Chosen == pc \in {"header", "validators", "debugState", "write"} \/ Succeeded

\* main goes one of its three ways, its finality covers the slot it started with,
\* and the chain has its genesis block.
MainIsOnCourse ==
  /\ 0 \in proposed
  /\ pc = "state" \/ Scanning => ~args.watch
  /\ pc = "state" => args.window = "none"
  /\ Scanning => args.window # "none"
  /\ Watching => args.watch
  /\ snapshot # None => pc = "exited"
  /\ pc \in {"finality", "resolve"} =>
       /\ hits = <<>> /\ ~fallback /\ events = <<>> /\ lastChecked = None
       /\ count = [polls |-> 0, checks |-> 0, skipped |-> 0]
  /\ defaultFinalizedSlot <= FirstSlot(finality)
  /\ ~args.watch => defaultFinalizedSlot = FirstSlot(finality)

-----------------------------------------------------------------------------
\* The scan.

Visited == ScanSlots(window, args.step, wanted) \ todo

\* The direction of the scan.
Before(s, t) == IF args.reverse THEN t < s ELSE s < t

\* What is visited comes before what is left to do, the first hit before the
\* others, and no visited slot with a non-empty state went without a hit.
HitsAreVisited ==
  ScanMode /\ (Scanning \/ Chosen) =>
    /\ window.hi <= FirstSlot(finality) /\ wanted \in window.lo..window.hi /\ args.step > 0
    /\ args.limit # None => args.limit > 0
    /\ todo \subseteq ScanSlots(window, args.step, wanted)
    /\ \A s \in Visited, t \in todo : Before(s, t)
    /\ \A i \in DOMAIN hits : /\ hits[i].requested \in Visited
                              /\ ~Before(hits[i].requested, hits[1].requested)
    /\ \A s \in Visited : AsOf(s) \in nonEmpty => \E i \in DOMAIN hits : hits[i].requested = s
    /\ fallback => hits # <<>>

\* The fallback passes over slots without a block only.
SearchIsOnCourse ==
  Scanning => /\ todo # {} /\ slot <= NextOf(todo)
              /\ \A b \in proposed : b <= NextOf(todo) => b <= slot

\* The scan chose the first hit, or there was none.
ScanHasChosen ==
  ScanMode /\ Chosen =>
    /\ todo = {} \/ (hits # <<>> /\ LimitReached(hits))
    /\ IF hits = <<>> THEN target = wanted /\ ~pending ELSE target = hits[1].slot /\ pending

-----------------------------------------------------------------------------
\* The watch.

\* As long as it goes on, the last state it fetched was an empty one.
WatchIsOnCourse ==
  /\ lastChecked # None => lastChecked <= finality
  /\ Watching /\ lastChecked # None => FirstSlot(lastChecked) \notin nonEmpty

Logged == args.files \in {"log", "both"}
Epochs(es) == {es[j].epoch : j \in 1..Len(es)}

\* What line i of the event log es tells, as in EventsTellEveryPoll.
LineTells(es, i) ==
  IF es[i] = Torn \/ es[i].status # "polling"
  THEN i = Len(es)
  ELSE /\ es[i].count.polls = i
       /\ es[i].count.polls = es[i].count.checks + es[i].count.skipped
       /\ es[i].count.checks = Cardinality({es[j].epoch : j \in 1..i})

\* As long as it goes on, it has told of every poll, and every state it fetched
\* was of a later epoch than those before.
TrailIsKept ==
  /\ ~Logged => events = <<>>
  /\ Watching /\ Logged /\ args.maxPolls # None =>
       /\ \A i \in DOMAIN events : events[i] # Torn /\ events[i].status = "polling"
       /\ count.polls = IF pc = "watchState" THEN Len(events) + 1 ELSE Len(events)
       /\ Len(events) = count.checks + count.skipped
       /\ count.checks = Cardinality(Epochs(events))
       /\ IF lastChecked = None THEN events = <<>> ELSE lastChecked \in Epochs(events)
       /\ \A e \in Epochs(events) : e <= lastChecked

-----------------------------------------------------------------------------
\* The state that was chosen, and what the snapshot says of it.

TargetIsOneState ==
  Chosen => /\ target \in Slot
            /\ pending <=> target \in nonEmpty
            /\ pc # "header" => target \in proposed
            /\ args.watch => target = FirstSlot(finality)

SnapshotTells ==
  Succeeded =>
    /\ snapshot.slot = target
    /\ snapshot.finalizedEpoch = finality /\ snapshot.finalizedSlot = defaultFinalizedSlot
    /\ snapshot.pending = pending /\ snapshot.inspected = Inspected
    /\ snapshot.truncated = (pending /\ ~args.inspect)
    /\ ScanMode => snapshot.checked = SlotsChecked
    /\ snapshot.first = MinHitSlot /\ snapshot.last = MaxHitSlot

RunIsSound ==
  /\ TypeOK /\ MainIsOnCourse
  /\ HitsAreCurrent /\ HitsAreVisited /\ SearchIsOnCourse /\ ScanHasChosen
  /\ WatchIsOnCourse /\ PollingMeansEmpty /\ TrailIsKept /\ EventsTellEveryPoll
  /\ TargetIsOneState /\ SnapshotTells
================================================================================

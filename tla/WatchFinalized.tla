---------------------------- MODULE WatchFinalized ----------------------------
(***************************************************************************)
(* The --watch-finalized mode of fetch-and-prove: watch_finalized_state    *)
(* and the progress file it keeps for other programs to read.              *)
(***************************************************************************)
EXTENDS FetchBase

VARIABLES
  count,        \* polls, and those that fetched a state or skipped an unchanged one
  lastChecked,  \* the finalized epoch whose state was fetched last
  progress,     \* the progress file
  events        \* the lines appended to the event log

watch == <<count, lastChecked, progress, events>>

Status == {"polling", "found", "max_polls", "error"}

Counters == [polls : Nat, checks : Nat, skipped : Nat]

\* WatchSummary: the slot and the terminal flag follow from epoch and status.
Summary == [status : Status, epoch : 0..MaxEpoch, count : Counters]

ASSUME TornAssumption == Torn \notin Summary

WatchTypeOK ==
  /\ count \in Counters
  /\ lastChecked \in 0..MaxEpoch \cup {None}
  /\ progress \in Summary \cup {None, Torn}
  /\ events \in Seq(Summary \cup {Torn})

WatchInit ==
  /\ count = [polls |-> 0, checks |-> 0, skipped |-> 0]
  /\ lastChecked = None /\ progress = None /\ events = <<>>

\* The ensure! checks of watch_finalized_state on the pace and number of its polls.
PollsAccepted(a) == a.pollSeconds > 0 /\ (a.maxPolls # None => a.maxPolls > 0)

\* Those of resolve_target_state, and then these.
WatchAccepted(a) ==
  /\ a.window = "none"
  /\ a.step = SlotsPerEpoch /\ ~a.reverse /\ a.limit = None
  /\ a.stateId = FinalizedId
  /\ PollsAccepted(a)

-----------------------------------------------------------------------------
\* write_watch_progress, and what the status calls for once it has succeeded.
\* The progress file is replaced before the event is appended; each may fail,
\* and both are refused when they are the same file.
Report(status, reason) ==
  LET summary  == [status |-> status, epoch |-> finality, count |-> count']
      replaced == args.files \in {"progress", "both"}
      logged   == args.files \in {"log", "both"}
  IN  \/ /\ args.files # "same"
         /\ progress' = IF replaced THEN summary ELSE progress
         /\ events' = IF logged THEN Append(events, summary) ELSE events
         /\ \/ status = "polling" /\ Goto("watchSleep")
            \/ status \in {"found", "max_polls"} /\ Resolved(FirstSlot(finality), status = "found")
            \/ status = "error" /\ Fail(reason)
      \/ replaced /\ progress' \in {progress, Torn} /\ UNCHANGED events /\ Fail("io")
      \/ /\ logged
         /\ progress' = IF replaced THEN summary ELSE progress
         /\ events' \in {events, Append(events, Torn)}
         /\ Fail("io")
      \/ args.files = "same" /\ UNCHANGED <<progress, events>> /\ Fail("io")

LastPoll == args.maxPolls # None /\ count.polls >= args.maxPolls
Waiting == IF LastPoll THEN "max_polls" ELSE "polling"

\* Bound: without --watch-max-polls nothing depends on the counters, and they
\* stay at the first poll.
Counted(field) ==
  IF args.maxPolls # None \/ count[field] = 0 THEN [count EXCEPT ![field] = @ + 1] ELSE count

\* The first poll uses the checkpoint main has, later ones ask for it.
WatchFinality ==
  /\ pc = "watchFinality"
  /\ finality' = IF count.polls = 0 THEN finality ELSE FinalityCheckpoints
  /\ count' = Counted("polls")
  /\ pc' = "watchState"
  /\ UNCHANGED <<node, args, target, pending, failure, lastChecked, progress, events>>

WatchUnchanged_Once ==
  /\ pc = "watchState"
  /\ lastChecked # None
  /\ count' = Counted("skipped")
  /\ Report(Waiting, "none")
  /\ UNCHANGED <<node, lastChecked>>

\* The finalized slot has not moved since it was checked.
WatchUnchanged ==
  /\ pc = "watchState"
  /\ lastChecked = finality
  /\ count' = Counted("skipped")
  /\ Report(Waiting, "none")
  /\ UNCHANGED <<node, lastChecked>>

WatchState_Forgets ==
  /\ pc = "watchState"
  /\ lastChecked # finality
  /\ StateFound(FirstSlot(finality))
  /\ count' = Counted("checks")
  /\ Report(IF FirstSlot(finality) \in nonEmpty THEN "found" ELSE Waiting, "none")
  /\ UNCHANGED <<node, lastChecked>>

\* The pending consolidations of the finalized slot.
WatchState ==
  /\ pc = "watchState"
  /\ lastChecked # finality
  /\ StateFound(FirstSlot(finality))
  /\ lastChecked' = finality
  /\ count' = Counted("checks")
  /\ Report(IF FirstSlot(finality) \in nonEmpty THEN "found" ELSE Waiting, "none")
  /\ UNCHANGED node

\* A request fails, or the finalized slot was missed: the watch ends with an error.
WatchFails ==
  /\ count' = count
  /\ \/ pc = "watchFinality" /\ count.polls > 0 /\ Report("error", "node")
     \/ pc = "watchState" /\ lastChecked # finality /\ Report("error", "node")
     \/ pc = "watchState" /\ lastChecked # finality /\ ~StateFound(FirstSlot(finality))
        /\ Report("error", "notFound")
  /\ UNCHANGED <<node, lastChecked>>

WatchSleep ==
  /\ pc = "watchSleep"
  /\ Goto("watchFinality")
  /\ UNCHANGED <<node, watch>>

Watch == WatchFinality \/ WatchUnchanged \/ WatchState \/ WatchFails \/ WatchSleep

-----------------------------------------------------------------------------
(* Properties. *)

\* As long as the progress file says that the watcher is still polling, the
\* finalized state it names has nothing to capture: no poll, skipped ones
\* included, passes over a state with pending consolidations.
PollingMeansEmpty ==
  progress \notin {None, Torn} /\ progress.status = "polling" =>
    FirstSlot(progress.epoch) \notin nonEmpty

\* The event log is a full poll-by-poll trail: one line per poll, in order, each
\* poll a check or a skip, no finalized state checked twice and none passed over;
\* only the last line tells of an error, an end or a write that failed.
EventsTellEveryPoll ==
  args.maxPolls # None =>
    \A i \in DOMAIN events :
      IF events[i] = Torn \/ events[i].status # "polling"
      THEN i = Len(events)
      ELSE /\ events[i].count.polls = i
           /\ events[i].count.polls = events[i].count.checks + events[i].count.skipped
           /\ events[i].count.checks = Cardinality({events[j].epoch : j \in 1..i})
================================================================================

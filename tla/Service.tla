-------------------------------- MODULE Service --------------------------------
(***************************************************************************)
(* The service as a process (prover/crates/service/src/main.rs): the       *)
(* scanner task, the two servers, and one HTTP request being answered      *)
(* (api.rs) on another thread.  A handler takes AppState apart: every      *)
(* atomic, every record and the error is read by a step of its own, in the *)
(* order of the source, and the scanner may write between any two of them. *)
(* A value that a response only shows (the slots of /status and /metrics,  *)
(* slots_behind once the status of /health is decided) is not kept.        *)
(***************************************************************************)
EXTENDS Scanner

CONSTANTS
  HealthyLag,  \* the 64 slots of is_healthy
  None         \* not a /status request

ASSUME ServiceAssumption == HealthyLag \in Nat /\ None \notin Nat

VARIABLES
  servers,  \* the listeners of the API and of the metrics
  up,       \* main is running
  asked,    \* main returned because somebody pressed ctrl-c
  step,     \* what the handler does next
  resp      \* what it has so far of its response

process == <<servers, up, asked>>
svars == <<vars, process, step, resp>>

Server == {"api", "metrics"}

\* floor is a history value, the last epoch processed when the request came;
\* epoch and head are loads of /status and /health; asks are the sources whose
\* records the response is about, left those not looked up yet, shown those
\* found; healthy and quiet (no error) are what /health and /status answer.
Response ==
  [floor : Epochs, epoch : Epochs \cup {None}, head : Nat,
   asks : SUBSET Source, left : SUBSET Source, shown : SUBSET Source,
   healthy : BOOLEAN, quiet : BOOLEAN]

Blank ==
  [floor |-> 0, epoch |-> None, head |-> 0, asks |-> {}, left |-> {}, shown |-> {},
   healthy |-> TRUE, quiet |-> TRUE]

STypeOK ==
  /\ TypeOK
  /\ servers \in [Server -> {"serving", "failed"}] /\ up \in BOOLEAN /\ asked \in BOOLEAN
  /\ step \in {"idle", "head", "current", "epoch", "records", "error", "answered"}
  /\ resp \in Response

\* Whether each TcpListener::bind succeeds is decided when the process starts.
SInit ==
  /\ Init
  /\ servers \in [Server -> {"serving", "failed"}]
  /\ up = TRUE /\ asked = FALSE
  /\ step = "idle" /\ resp = Blank

-----------------------------------------------------------------------------
\* The handlers.

\* u64::saturating_sub.
SaturatingSub(a, b) == IF a > b THEN a - b ELSE 0

Stage(from, to) == step = from /\ step' = to /\ UNCHANGED <<vars, process>>

\* The routers: the API server has every route, the metrics server its own only.
Request(server, about, first) ==
  /\ up /\ servers[server] = "serving"
  /\ Stage("idle", first) \/ Stage("answered", first)
  /\ resp' = [Blank EXCEPT !.floor = last, !.asks = about, !.left = about]

\* is_healthy calls slots_behind, which loads the head first ...
LoadHead == Stage("head", "current") /\ resp' = [resp EXCEPT !.head = headSlot]

IsHealthy_Strict ==
  /\ Stage("current", "answered")
  /\ resp' = [Blank EXCEPT !.healthy = SaturatingSub(resp.head, currentSlot) < HealthyLag]

\* ... and then the slot.
IsHealthy ==
  /\ Stage("current", "answered")
  /\ resp' = [Blank EXCEPT !.healthy = SaturatingSub(resp.head, currentSlot) <= HealthyLag]

LoadEpoch == Stage("epoch", "records") /\ resp' = [resp EXCEPT !.epoch = currentEpoch]

\* status_counts, all_consolidations and get_consolidation: nobody locks the map
\* as a whole, each record is there or not when its turn comes.
ReadRecord(s) ==
  /\ Stage("records", "records")
  /\ s \in resp.left
  /\ resp' = [resp EXCEPT !.left = @ \ {s}, !.shown = IF seen[s] = NotSeen THEN @ ELSE @ \cup {s}]

\* The records are in the response; only /status goes on, with the error.
RecordsRead ==
  /\ resp.left = {}
  /\ Stage("records", IF resp.epoch = None THEN "answered" ELSE "error")
  /\ resp' = [Blank EXCEPT !.epoch = resp.epoch]

LoadError == Stage("error", "answered") /\ resp' = [Blank EXCEPT !.quiet = ~lastError]

Handler ==
  \/ Request("api", {}, "head")                            \* /health
  \/ Request("api", Source, "epoch")                       \* /status
  \/ Request("api", Source, "records")                     \* /consolidations
  \/ \E s \in Source : Request("api", {s}, "records")      \* /consolidations/{source_index}
  \/ \E server \in Server : Request(server, Source, "records")  \* /metrics
  \/ LoadHead \/ IsHealthy
  \/ LoadEpoch \/ (\E s \in Source : ReadRecord(s)) \/ RecordsRead \/ LoadError

-----------------------------------------------------------------------------
\* main.

ServerEnded_ApiOnly == servers["api"] = "failed"

ServerEnded == \E s \in Server : servers[s] = "failed"

\* The select: ctrl-c, or a server task that has ended; the scanner task never
\* does.  main returns Ok whichever arm was taken, so that a supervisor sees a
\* success; the tasks and AppState are gone.
MainReturns ==
  /\ up
  /\ up' = FALSE
  /\ asked' \in {TRUE} \cup (IF ServerEnded THEN {FALSE} ELSE {})
  /\ Fresh /\ step' = "idle" /\ resp' = Blank
  /\ UNCHANGED <<node, servers, crashes>>

\* The process is killed and the supervisor starts another.
Killed ==
  /\ up /\ Restart
  /\ servers' \in [Server -> {"serving", "failed"}]
  /\ step' = "idle" /\ resp' = Blank
  /\ UNCHANGED <<up, asked>>

-----------------------------------------------------------------------------
Task(A) == up /\ A /\ UNCHANGED <<process, step, resp>>

SNext ==
  \/ Chain /\ UNCHANGED <<process, step, resp>>
  \/ Task(Poll)
  \/ Handler
  \/ MainReturns \/ Killed

\* The fairness of the scanner, and a select that wakes up.
SFairness ==
  /\ WF_svars(Task(Wake)) /\ WF_svars(Task(FinishPoll))
  /\ \A s \in Source : WF_svars(Task(Process(s)))
  /\ SF_svars(Task(GetHeadSlot)) /\ SF_svars(Task(GetFinalityCheckpoints))
  /\ SF_svars(Task(GetPendingConsolidations))
  /\ WF_svars(ServerEnded /\ MainReturns)

SSpec == SInit /\ [][SNext]_svars /\ SFairness

-----------------------------------------------------------------------------
(* Properties. *)

\* No false alarm: the handler decides "degraded" only while the service really
\* is more than 64 slots behind the head it knows, although it compares a head
\* loaded earlier with a slot loaded later.
NoFalseAlarm ==
  [][step = "current" /\ step' = "answered" /\ ~resp'.healthy =>
       headSlot - currentSlot > HealthyLag]_svars

\* Polling again, as every epoch does while a consolidation is pending, never
\* rewrites its record; only the end of the process loses it.
RecordsAreKept ==
  [][\A s \in Tracked : seen'[s] = seen[s] \/ crashes' # crashes \/ ~up']_svars

\* Every response about records shows all that were pending at the last epoch
\* processed when its request came, although the map is read record by record
\* while the scanner writes it.
ResponsesShowProcessed ==
  [][step = "records" /\ step' # "records" /\ up' =>
       queueAt[resp.floor] \cap resp.asks \subseteq resp.shown \/ crashes' # crashes]_svars

\* A /status without an error names an epoch that was processed, or that a poll
\* is processing at this moment: it reads the epoch before the error, and a poll
\* that fails leaves the error until an epoch at least as late was processed.
QuietStatusIsProcessed ==
  [][step = "error" /\ step' = "answered" /\ resp'.quiet =>
       resp.epoch <= last \/ pc \in {"fetch", "process"}]_svars

\* A consolidation that stays in the finalized state is recorded in the end and
\* for good, through failed polls, jumps of finality and restarts, as long as the
\* process stays up.
EventuallyTracked ==
  \A s \in Source : <>[](s \in queueAt[finalized]) /\ <>[]up => <>[](s \in Tracked)

\* The service does not linger half alive: when one of its servers is not there,
\* the process ends.
NoHalfService == []<>(up => \A s \in Server : servers[s] = "serving")

\* "Restart=on-failure": the unit is down only because somebody asked for it.
DownMeansAsked == ~up => asked
================================================================================

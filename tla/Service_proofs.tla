----------------------------- MODULE Service_proofs -----------------------------
(***************************************************************************)
(* Proofs about the service, for every set of consolidations, every epoch  *)
(* length and every number of restarts: what the scanner has recorded and  *)
(* what a handler that reads beside it may answer.                         *)
(***************************************************************************)
EXTENDS ServiceInvariant, TLAPS

-----------------------------------------------------------------------------
(* The scanner. *)

\* Before genesis is final nothing is tracked and nothing had to be.
LEMMA ScannerInit == Init => ScannerIsSound
<1> SUFFICES ASSUME Init PROVE ScannerIsSound
  OBVIOUS
<1> USE ScannerAssumption DEF Init
<1>1. 0 \in Epochs
  BY DEF Epochs
<1>2. TypeOK
  BY <1>1 DEF TypeOK
<1>3. ScannerTrails
  BY <1>1 DEF ScannerTrails
<1>4. PollIsOnCourse
  BY DEF PollIsOnCourse
<1>5. ProcessedMeansTracked /\ TrackedWasFinal /\ UnprocessedShowsError
  BY <1>1 DEF ProcessedMeansTracked, TrackedWasFinal, UnprocessedShowsError, Tracked
<1> QED BY <1>2, <1>3, <1>4, <1>5 DEF ScannerIsSound

\* The chain leaves the finalized past alone.
LEMMA ChainKeepsFinality ==
  ASSUME TypeOK, ScannerTrails, Chain
  PROVE  /\ TypeOK' /\ finalized <= finalized' /\ chainSlot <= chainSlot'
         /\ finalized' * SlotsPerEpoch <= chainSlot'
         /\ \A e \in 0..finalized : queueAt'[e] = queueAt[e]
         /\ UNCHANGED <<app, pc, checkpoint, todo, last, crashes>>
<1> USE ScannerAssumption
<1>1. /\ chainSlot \in Nat /\ finalized \in 0..MaxEpoch /\ queueAt \in [Epochs -> SUBSET Source]
      /\ finalized * SlotsPerEpoch <= chainSlot /\ queue \subseteq Source /\ done \subseteq Source
  BY DEF TypeOK, Epochs, ScannerTrails
<1>2. CASE NextSlot
  <2> DEFINE e == chainSlot' \div SlotsPerEpoch
  <2>1. /\ chainSlot' = chainSlot + 1 /\ queue' \subseteq Source /\ done' \subseteq Source
        /\ UNCHANGED <<finalized, app, pc, checkpoint, todo, last, crashes>>
    BY <1>1, <1>2 DEF NextSlot
  <2>2. queueAt' = IF chainSlot' % SlotsPerEpoch = 0 THEN [queueAt EXCEPT ![e] = queue'] ELSE queueAt
    BY <1>2 DEF NextSlot
  <2>3. chainSlot' % SlotsPerEpoch = 0 => e > finalized
    <3>1. SUFFICES ASSUME chainSlot' % SlotsPerEpoch = 0, e <= finalized PROVE FALSE
      BY <1>1, <2>1
    <3>2. e \in Int /\ chainSlot' = SlotsPerEpoch * e
      BY <1>1, <2>1, <3>1
    <3> HIDE DEF e
    <3>3. SlotsPerEpoch * e <= SlotsPerEpoch * finalized
      BY <1>1, <3>1, <3>2
    <3> QED BY <1>1, <2>1, <3>2, <3>3
  <2> HIDE DEF e
  <2>4. queueAt' \in [Epochs -> SUBSET Source]
    BY <1>1, <2>1, <2>2
  <2>5. \A k \in 0..finalized : queueAt'[k] = queueAt[k]
    BY <1>1, <2>2, <2>3 DEF Epochs
  <2> QED BY <1>1, <2>1, <2>4, <2>5 DEF TypeOK, app
<1>3. CASE Finalize
  <2>1. PICK e \in Epochs : finalized < e /\ e * SlotsPerEpoch <= chainSlot /\ finalized' = e
    BY <1>3 DEF Finalize
  <2>2. UNCHANGED <<chainSlot, queue, queueAt, done, app, pc, checkpoint, todo, last, crashes>>
    BY <1>3 DEF Finalize
  <2> QED BY <1>1, <2>1, <2>2 DEF TypeOK, app, Epochs
<1> QED BY <1>2, <1>3 DEF Chain

\* What the scanner knows of finality stays true when the chain moves on.
LEMMA ChainKeepsScanner ==
  ASSUME ScannerIsSound, Chain
  PROVE  ScannerIsSound'
<1> USE ScannerAssumption
<1>1. TypeOK /\ ScannerTrails
  BY DEF ScannerIsSound
<1>2. /\ TypeOK' /\ finalized <= finalized' /\ chainSlot <= chainSlot'
      /\ finalized' * SlotsPerEpoch <= chainSlot'
      /\ \A e \in 0..finalized : queueAt'[e] = queueAt[e]
      /\ UNCHANGED <<app, pc, checkpoint, todo, last, crashes>>
  BY <1>1, ChainKeepsFinality
<1>3. /\ finalized \in Nat /\ finalized' \in Nat /\ chainSlot \in Nat /\ chainSlot' \in Nat
      /\ last \in Nat /\ checkpoint \in Nat /\ currentEpoch \in Nat /\ headSlot \in Nat
      /\ last <= finalized /\ checkpoint <= finalized /\ currentEpoch <= finalized
      /\ headSlot <= chainSlot
  BY <1>1, <1>2 DEF TypeOK, ScannerTrails, Epochs
<1>4. UNCHANGED <<headSlot, currentSlot, currentEpoch, seen, lastError>>
  BY <1>2 DEF app
<1>5. queueAt'[0] = queueAt[0] /\ queueAt'[last] = queueAt[last] /\ queueAt'[checkpoint] = queueAt[checkpoint]
  BY <1>2, <1>3
<1>6. ScannerTrails'
  BY <1>1, <1>2, <1>3, <1>4, <1>5 DEF ScannerTrails
<1>7. PollIsOnCourse' /\ ProcessedMeansTracked' /\ UnprocessedShowsError'
  BY <1>2, <1>4, <1>5 DEF ScannerIsSound, PollIsOnCourse, ProcessedMeansTracked, UnprocessedShowsError, Tracked
<1>8. TrackedWasFinal'
  <2>1. ASSUME NEW s \in Source, seen[s] # NotSeen
        PROVE  seen[s] <= finalized' /\ s \in queueAt'[seen[s]]
    <3>1. seen[s] <= finalized /\ s \in queueAt[seen[s]] /\ seen[s] \in Nat
      BY <1>1, <2>1 DEF ScannerIsSound, TrackedWasFinal, Tracked, TypeOK, Epochs
    <3> QED BY <1>2, <1>3, <3>1
  <2> QED BY <1>4, <2>1 DEF TrackedWasFinal, Tracked
<1> QED BY <1>2, <1>6, <1>7, <1>8 DEF ScannerIsSound

\* No step of a poll loses sight of a finalized consolidation.
LEMMA PollKeepsScanner ==
  ASSUME ScannerIsSound, Poll
  PROVE  ScannerIsSound' /\ UNCHANGED <<node, crashes>>
<1> USE ScannerAssumption
<1>1. /\ finalized \in 0..MaxEpoch /\ chainSlot \in Nat
      /\ last \in 0..MaxEpoch /\ checkpoint \in 0..MaxEpoch /\ currentEpoch \in 0..MaxEpoch
      /\ headSlot \in Nat /\ currentSlot \in Nat /\ finalized * SlotsPerEpoch \in Nat
      /\ seen \in [Source -> Epochs \cup {NotSeen}] /\ queueAt \in [Epochs -> SUBSET Source]
      /\ todo \subseteq Source /\ queueAt[checkpoint] \subseteq Source
      /\ last <= finalized /\ checkpoint <= finalized /\ currentEpoch <= finalized
  BY DEF ScannerIsSound, TypeOK, ScannerTrails, Epochs
<1> USE DEF ScannerIsSound
<1>2. CASE GetHeadSlot
  <2>1. /\ pc = "head" /\ pc' = "checkpoints" /\ headSlot' = chainSlot
        /\ UNCHANGED <<node, currentSlot, currentEpoch, seen, lastError, checkpoint, todo, last, crashes>>
    BY <1>2 DEF GetHeadSlot
  <2>2. TypeOK' /\ ScannerTrails'
    BY <1>1, <2>1 DEF TypeOK, ScannerTrails, node
  <2>3. PollIsOnCourse' /\ ProcessedMeansTracked' /\ TrackedWasFinal' /\ UnprocessedShowsError'
    BY <2>1 DEF PollIsOnCourse, ProcessedMeansTracked, TrackedWasFinal, UnprocessedShowsError,
                Tracked, node
  <2> QED BY <2>1, <2>2, <2>3
<1>3. CASE GetFinalityCheckpoints
  <2>1. /\ pc = "checkpoints" /\ checkpoint' = finalized /\ currentEpoch' = finalized
        /\ currentSlot' = finalized * SlotsPerEpoch
        /\ \/ finalized <= last /\ pc' = "sleep" /\ lastError' = FALSE
           \/ finalized > last /\ pc' = "fetch" /\ lastError' = lastError
        /\ UNCHANGED <<node, headSlot, seen, todo, last, crashes>>
    BY <1>1, <1>3 DEF GetFinalityCheckpoints
  <2>2. TypeOK' /\ ScannerTrails'
    <3>1. currentSlot' \in Nat /\ currentEpoch' \in Epochs /\ checkpoint' \in Epochs
      BY <1>1, <2>1 DEF Epochs
    <3>2. TypeOK'
      BY <2>1, <3>1 DEF TypeOK, node
    <3>3. ScannerTrails'
      BY <1>1, <2>1 DEF ScannerTrails, node
    <3> QED BY <3>2, <3>3
  <2>3. PollIsOnCourse' /\ ProcessedMeansTracked' /\ TrackedWasFinal'
    BY <2>1 DEF PollIsOnCourse, ProcessedMeansTracked, TrackedWasFinal, Tracked, node
  <2>4. UnprocessedShowsError'
    BY <1>1, <2>1 DEF UnprocessedShowsError
  <2> QED BY <2>1, <2>2, <2>3, <2>4
<1>4. CASE GetPendingConsolidations
  <2>1. /\ pc = "fetch" /\ todo' = queueAt[checkpoint] /\ pc' = "process"
        /\ UNCHANGED <<node, app, checkpoint, last, crashes>>
    BY <1>4 DEF GetPendingConsolidations
  <2>2. TypeOK' /\ ScannerTrails'
    BY <1>1, <2>1 DEF TypeOK, ScannerTrails, node, app
  <2>3. PollIsOnCourse' /\ ProcessedMeansTracked' /\ TrackedWasFinal' /\ UnprocessedShowsError'
    BY <2>1 DEF PollIsOnCourse, ProcessedMeansTracked, TrackedWasFinal, UnprocessedShowsError,
                Tracked, node, app
  <2> QED BY <2>1, <2>2, <2>3
<1>5. ASSUME NEW s \in Source, Process(s)
      PROVE  ScannerIsSound' /\ UNCHANGED <<node, crashes>>
  <2>1. /\ pc = "process" /\ s \in todo /\ todo' = todo \ {s}
        /\ seen' = IF seen[s] = NotSeen THEN [seen EXCEPT ![s] = checkpoint] ELSE seen
        /\ UNCHANGED <<node, headSlot, currentSlot, currentEpoch, lastError, pc, checkpoint, last, crashes>>
    BY <1>5 DEF Process
  <2>2. TypeOK' /\ ScannerTrails'
    <3>1. seen' \in [Source -> Epochs \cup {NotSeen}] /\ todo' \subseteq Source
      BY <1>1, <2>1 DEF Epochs
    <3> QED BY <1>1, <2>1, <3>1 DEF TypeOK, ScannerTrails, node
  <2>3. Tracked' = Tracked \cup {s}
    BY <1>1, <2>1 DEF Tracked, NotSeen, Epochs
  <2>4. PollIsOnCourse' /\ ProcessedMeansTracked' /\ UnprocessedShowsError'
    BY <2>1, <2>3 DEF PollIsOnCourse, ProcessedMeansTracked, UnprocessedShowsError, node
  <2>5. TrackedWasFinal'
    <3>1. s \in queueAt[checkpoint]
      BY <2>1 DEF PollIsOnCourse
    <3> QED BY <1>1, <2>1, <2>3, <3>1 DEF TrackedWasFinal, Tracked, node
  <2> QED BY <2>1, <2>2, <2>4, <2>5
<1>6. CASE FinishPoll
  <2>1. /\ pc = "process" /\ todo = {} /\ last' = checkpoint /\ lastError' = FALSE /\ pc' = "sleep"
        /\ UNCHANGED <<node, headSlot, currentSlot, currentEpoch, seen, checkpoint, todo, crashes>>
    BY <1>6 DEF FinishPoll
  <2>2. TypeOK' /\ ScannerTrails'
    BY <1>1, <2>1 DEF TypeOK, ScannerTrails, node
  <2>3. PollIsOnCourse' /\ ProcessedMeansTracked' /\ TrackedWasFinal' /\ UnprocessedShowsError'
    BY <1>1, <2>1 DEF PollIsOnCourse, ProcessedMeansTracked, TrackedWasFinal, UnprocessedShowsError,
                Tracked, node
  <2> QED BY <2>1, <2>2, <2>3
<1>7. CASE FailPoll
  <2>1. /\ lastError' = TRUE /\ pc' = "sleep"
        /\ UNCHANGED <<node, headSlot, currentSlot, currentEpoch, seen, checkpoint, todo, last, crashes>>
    BY <1>7 DEF FailPoll
  <2>2. TypeOK' /\ ScannerTrails'
    BY <2>1 DEF TypeOK, ScannerTrails, node
  <2>3. PollIsOnCourse' /\ ProcessedMeansTracked' /\ TrackedWasFinal' /\ UnprocessedShowsError'
    BY <2>1 DEF PollIsOnCourse, ProcessedMeansTracked, TrackedWasFinal, UnprocessedShowsError,
                Tracked, node
  <2> QED BY <2>1, <2>2, <2>3
<1>8. CASE Wake
  <2>1. pc = "sleep" /\ pc' = "head" /\ UNCHANGED <<node, app, checkpoint, todo, last, crashes>>
    BY <1>8 DEF Wake
  <2>2. TypeOK' /\ ScannerTrails'
    BY <2>1 DEF TypeOK, ScannerTrails, node, app
  <2>3. PollIsOnCourse' /\ ProcessedMeansTracked' /\ TrackedWasFinal' /\ UnprocessedShowsError'
    BY <2>1 DEF PollIsOnCourse, ProcessedMeansTracked, TrackedWasFinal, UnprocessedShowsError,
                Tracked, node, app
  <2> QED BY <2>1, <2>2, <2>3
<1> QED BY <1>2, <1>3, <1>4, <1>5, <1>6, <1>7, <1>8 DEF Poll

\* A new process has tracked nothing and claims to have processed nothing.
LEMMA NewProcessKeepsScanner ==
  ASSUME TypeOK, ScannerTrails, Fresh, UNCHANGED node, crashes' \in Nat
  PROVE  ScannerIsSound'
<1> USE ScannerAssumption DEF Fresh, node
<1>1. 0 \in Epochs /\ finalized \in Nat /\ chainSlot \in Nat
  BY DEF Epochs, TypeOK
<1>2. TypeOK'
  BY <1>1 DEF TypeOK
<1>3. ScannerTrails'
  BY <1>1 DEF ScannerTrails
<1>4. PollIsOnCourse'
  BY DEF PollIsOnCourse
<1>5. queueAt'[0] = {}
  BY DEF ScannerTrails
<1>6. ProcessedMeansTracked' /\ TrackedWasFinal' /\ UnprocessedShowsError'
  BY <1>5 DEF ProcessedMeansTracked, TrackedWasFinal, UnprocessedShowsError, Tracked
<1> QED BY <1>2, <1>3, <1>4, <1>6 DEF ScannerIsSound

\* A step of the service that is none of the scanner's leaves it sound.
LEMMA ScannerStutters == ASSUME ScannerIsSound, UNCHANGED vars PROVE ScannerIsSound'
BY DEF ScannerIsSound, TypeOK, ScannerTrails, PollIsOnCourse, ProcessedMeansTracked,
       TrackedWasFinal, UnprocessedShowsError, Tracked, vars, node, app

\* The scanner alone, restarted at any moment: it is sound.
THEOREM ScannerIsSoundHolds == Spec => []ScannerIsSound
<1>1. ScannerIsSound /\ [Next]_vars => ScannerIsSound'
  <2> SUFFICES ASSUME ScannerIsSound, [Next]_vars PROVE ScannerIsSound'
    OBVIOUS
  <2>1. CASE Restart
    <3>1. Fresh /\ UNCHANGED node /\ crashes' \in Nat
      BY <2>1 DEF Restart, ScannerIsSound, TypeOK
    <3> QED BY <3>1, NewProcessKeepsScanner DEF ScannerIsSound
  <2> QED BY <2>1, ChainKeepsScanner, PollKeepsScanner, ScannerStutters DEF Next
<1> QED BY <1>1, ScannerInit, PTL DEF Spec

-----------------------------------------------------------------------------
(* The handlers. *)

\* While the process runs, the scanner only adds to what a handler has read.
LEMMA ScannerGoesOn ==
  ASSUME ScannerIsSound, Chain \/ Poll
  PROVE  /\ headSlot <= headSlot' /\ currentEpoch <= currentEpoch' /\ finalized <= finalized'
         /\ \A e \in 0..finalized : queueAt'[e] = queueAt[e]
         /\ \A s \in Tracked : seen'[s] = seen[s]
         /\ Tracked \subseteq Tracked' /\ crashes' = crashes
<1> USE ScannerAssumption
<1>1. /\ headSlot \in Nat /\ chainSlot \in Nat /\ finalized \in Nat /\ currentEpoch \in Nat
      /\ headSlot <= chainSlot /\ currentEpoch <= finalized
      /\ seen \in [Source -> Epochs \cup {NotSeen}]
  BY DEF ScannerIsSound, ScannerTrails, TypeOK, Epochs
<1>2. CASE Chain
  <2>1. /\ finalized <= finalized' /\ UNCHANGED <<app, pc, checkpoint, todo, last, crashes>>
        /\ \A e \in 0..finalized : queueAt'[e] = queueAt[e]
    BY <1>2, ChainKeepsFinality DEF ScannerIsSound
  <2> QED BY <1>1, <2>1 DEF app, Tracked
<1>3. CASE Poll
  <2>1. UNCHANGED <<node, crashes>>
    BY <1>3, PollKeepsScanner
  <2>2. headSlot <= headSlot' /\ currentEpoch <= currentEpoch'
    BY <1>1, <1>3 DEF Poll, GetHeadSlot, GetFinalityCheckpoints, GetPendingConsolidations,
                      Process, FinishPoll, FailPoll, Wake, app
  <2>3. UNCHANGED seen \/ \E s \in Source : Process(s)
    BY <1>3 DEF Poll, GetHeadSlot, GetFinalityCheckpoints, GetPendingConsolidations,
                FinishPoll, FailPoll, Wake, app
  <2>4. \A s \in Tracked : seen'[s] = seen[s]
    BY <1>1, <2>3 DEF Process, Tracked
  <2> QED BY <1>1, <2>1, <2>2, <2>4 DEF node, Tracked
<1> QED BY <1>2, <1>3

\* A handler that has nothing in hand is sound.
LEMMA BlankType == Blank \in Response
BY ScannerAssumption DEF Blank, Response, Epochs

\* What a handler of any endpoint reads, it reads of the scanner's past or present.
LEMMA HandlerKeepsService ==
  ASSUME ServiceIsSound, Handler
  PROVE  /\ resp' \in Response /\ step' \in {"idle", "head", "current", "epoch", "records", "error", "answered"}
         /\ HandlerIsSound' /\ UNCHANGED <<vars, process>>
<1> USE ScannerAssumption, ServiceAssumption
<1>1. /\ TypeOK /\ ScannerTrails /\ ProcessedMeansTracked /\ HandlerIsSound
      /\ resp \in Response
      /\ step \in {"idle", "head", "current", "epoch", "records", "error", "answered"}
  BY DEF ServiceIsSound, ScannerIsSound, STypeOK
<1>2. UNCHANGED <<vars, process>>
  BY DEF Handler, Stage, Request, LoadHead, IsHealthy, LoadEpoch, ReadRecord, RecordsRead, LoadError
<1>3. UNCHANGED <<headSlot, currentEpoch, finalized, queueAt, seen, last, Tracked>>
  BY <1>2 DEF vars, app, node, Tracked
<1>4. /\ headSlot \in Nat /\ currentEpoch \in Epochs /\ last \in Epochs /\ finalized \in Nat
      /\ last <= finalized /\ queueAt[last] \subseteq Tracked /\ queueAt[0] = {}
      /\ 0 \in Epochs /\ 0 \in Nat /\ None \notin Epochs /\ Epochs \subseteq Nat
  BY <1>1 DEF TypeOK, ScannerTrails, ProcessedMeansTracked, Epochs
<1>5. /\ resp.floor \in Epochs /\ resp.epoch \in Epochs \cup {None} /\ resp.head \in Nat
      /\ resp.asks \subseteq Source /\ resp.left \subseteq Source /\ resp.shown \subseteq Source
  BY <1>1 DEF Response
<1>6. ASSUME NEW server \in Server, NEW about \in SUBSET Source,
             NEW first \in {"head", "epoch", "records"}, Request(server, about, first)
      PROVE  /\ resp' \in Response /\ HandlerIsSound'
             /\ step' \in {"idle", "head", "current", "epoch", "records", "error", "answered"}
  <2>1. resp' = [Blank EXCEPT !.floor = last, !.asks = about, !.left = about] /\ step' = first
    BY <1>6 DEF Request, Stage
  <2>2. /\ resp'.floor = last /\ resp'.asks = about /\ resp'.left = about
        /\ resp'.head = 0 /\ resp'.epoch = None
    BY <2>1 DEF Blank
  <2>3. resp' \in Response
    BY <1>4, <2>1, BlankType DEF Response
  <2>4. HandlerIsSound'
    BY <1>3, <1>4, <2>1, <2>2 DEF HandlerIsSound
  <2> QED BY <2>1, <2>3, <2>4
<1>7. ASSUME LoadHead
      PROVE  /\ resp' \in Response /\ HandlerIsSound' /\ step' = "current"
  <2>1. resp' = [resp EXCEPT !.head = headSlot] /\ step' = "current"
    BY <1>7 DEF LoadHead, Stage
  <2>2. /\ resp'.head = headSlot /\ resp'.floor = resp.floor /\ resp'.epoch = resp.epoch
        /\ resp'.asks = resp.asks /\ resp'.left = resp.left /\ resp'.shown = resp.shown
    BY <1>1, <2>1 DEF Response
  <2>3. resp' \in Response
    BY <1>1, <1>4, <2>1 DEF Response
  <2> QED BY <1>1, <1>3, <1>4, <2>1, <2>2, <2>3 DEF HandlerIsSound
<1>8. ASSUME resp'.floor = 0, resp'.asks = {}, resp'.head = 0,
             resp'.epoch = None \/ (resp'.epoch \in Epochs /\ resp'.epoch <= currentEpoch),
             step' = "error" => resp'.epoch # None
      PROVE  HandlerIsSound'
  BY <1>3, <1>4, <1>8 DEF HandlerIsSound
<1>9. ASSUME IsHealthy
      PROVE  /\ resp' \in Response /\ HandlerIsSound' /\ step' = "answered"
  <2> DEFINE h == SaturatingSub(resp.head, currentSlot) <= HealthyLag
  <2>1. step' = "answered" /\ resp' = [Blank EXCEPT !.healthy = h] /\ h \in BOOLEAN
    BY <1>9 DEF IsHealthy, Stage
  <2> HIDE DEF h
  <2>2. resp' \in Response
    BY <2>1, BlankType DEF Response
  <2>3. resp'.floor = 0 /\ resp'.asks = {} /\ resp'.head = 0 /\ resp'.epoch = None
    BY <2>1 DEF Blank
  <2> QED BY <1>8, <2>1, <2>2, <2>3
<1>10. ASSUME LoadEpoch
       PROVE  /\ resp' \in Response /\ HandlerIsSound' /\ step' = "records"
  <2>1. resp' = [resp EXCEPT !.epoch = currentEpoch] /\ step' = "records"
    BY <1>10 DEF LoadEpoch, Stage
  <2>2. /\ resp'.epoch = currentEpoch /\ resp'.floor = resp.floor /\ resp'.head = resp.head
        /\ resp'.asks = resp.asks /\ resp'.left = resp.left /\ resp'.shown = resp.shown
    BY <1>1, <2>1 DEF Response
  <2>3. resp' \in Response
    BY <1>1, <1>4, <2>1 DEF Response
  <2> QED BY <1>1, <1>3, <1>4, <2>1, <2>2, <2>3 DEF HandlerIsSound
<1>11. ASSUME NEW s \in Source, ReadRecord(s)
       PROVE  /\ resp' \in Response /\ HandlerIsSound' /\ step' = "records"
  <2> DEFINE shown == IF seen[s] = NotSeen THEN resp.shown ELSE resp.shown \cup {s}
  <2>1. step' = "records" /\ resp' = [resp EXCEPT !.left = @ \ {s}, !.shown = shown]
    BY <1>1, <1>11 DEF ReadRecord, Stage, Response
  <2>2. /\ resp'.epoch = resp.epoch /\ resp'.floor = resp.floor /\ resp'.head = resp.head
        /\ resp'.asks = resp.asks /\ resp'.left = resp.left \ {s} /\ resp'.shown = shown
    BY <1>1, <2>1 DEF Response
  <2>3. resp' \in Response
    BY <1>1, <1>5, <2>1 DEF Response
  <2>4. s \in Tracked => s \in shown
    BY DEF Tracked
  <2>5. queueAt[resp.floor] \cap resp.asks \subseteq shown \cup (resp.left \ {s})
    BY <1>1, <2>4 DEF HandlerIsSound
  <2> HIDE DEF shown
  <2> QED BY <1>1, <1>3, <2>1, <2>2, <2>3, <2>5 DEF HandlerIsSound
<1>12. ASSUME RecordsRead
       PROVE  /\ resp' \in Response /\ HandlerIsSound'
              /\ step' \in {"answered", "error"}
  <2>1. /\ step' = IF resp.epoch = None THEN "answered" ELSE "error"
        /\ resp' = [Blank EXCEPT !.epoch = resp.epoch]
    BY <1>12 DEF RecordsRead, Stage
  <2>2. resp' \in Response
    BY <1>5, <2>1, BlankType DEF Response
  <2>3. resp'.floor = 0 /\ resp'.asks = {} /\ resp'.head = 0 /\ resp'.epoch = resp.epoch
    BY <2>1 DEF Blank
  <2>4. resp.epoch # None => resp.epoch <= currentEpoch
    BY <1>1 DEF HandlerIsSound
  <2> QED BY <1>5, <1>8, <2>1, <2>2, <2>3, <2>4
<1>13. ASSUME LoadError
       PROVE  /\ resp' \in Response /\ HandlerIsSound' /\ step' = "answered"
  <2> DEFINE q == ~lastError
  <2>1. step' = "answered" /\ resp' = [Blank EXCEPT !.quiet = q] /\ q \in BOOLEAN
    BY <1>13 DEF LoadError, Stage
  <2> HIDE DEF q
  <2>2. resp' \in Response
    BY <2>1, BlankType DEF Response
  <2>3. resp'.floor = 0 /\ resp'.asks = {} /\ resp'.head = 0 /\ resp'.epoch = None
    BY <2>1 DEF Blank
  <2> QED BY <1>8, <2>1, <2>2, <2>3
<1>14. \A s \in Source : {s} \in SUBSET Source /\ {} \in SUBSET Source /\ Source \in SUBSET Source
  OBVIOUS
<1>15. "api" \in Server
  BY DEF Server
<1>16. CASE \/ Request("api", {}, "head")
            \/ Request("api", Source, "epoch")
            \/ Request("api", Source, "records")
            \/ \E s \in Source : Request("api", {s}, "records")
            \/ \E server \in Server : Request(server, Source, "records")
  BY <1>2, <1>6, <1>14, <1>15, <1>16
<1> QED BY <1>2, <1>7, <1>9, <1>10, <1>11, <1>12, <1>13, <1>16 DEF Handler

\* A request in flight does not lose what it has read when the scanner goes on.
LEMMA ScannerKeepsHandler ==
  ASSUME ServiceIsSound, Chain \/ Poll, UNCHANGED <<process, step, resp>>
  PROVE  ServiceIsSound'
<1>1. ScannerIsSound /\ STypeOK /\ HandlerIsSound /\ resp \in Response
  BY DEF ServiceIsSound, STypeOK
<1>2. ScannerIsSound'
  BY <1>1, ChainKeepsScanner, PollKeepsScanner
<1>3. STypeOK'
  BY <1>1, <1>2 DEF STypeOK, ScannerIsSound, process
<1>4. HandlerIsSound'
  <2>1. /\ headSlot <= headSlot' /\ currentEpoch <= currentEpoch' /\ finalized <= finalized'
        /\ \A e \in 0..finalized : queueAt'[e] = queueAt[e]
        /\ Tracked \subseteq Tracked'
    BY <1>1, ScannerGoesOn
  <2>2. /\ headSlot \in Nat /\ headSlot' \in Nat /\ currentEpoch \in Nat /\ currentEpoch' \in Nat
        /\ finalized \in Nat /\ finalized' \in Nat
        /\ resp.floor \in Nat /\ resp.head \in Nat /\ (resp.epoch # None => resp.epoch \in Nat)
    BY <1>1, <1>2 DEF ScannerIsSound, TypeOK, Response, Epochs
  <2>3. queueAt'[resp.floor] = queueAt[resp.floor]
    BY <1>1, <2>1, <2>2 DEF HandlerIsSound
  <2> QED BY <1>1, <2>1, <2>2, <2>3 DEF HandlerIsSound
<1> QED BY <1>2, <1>3, <1>4 DEF ServiceIsSound

\* A process that ends takes its requests with it.
LEMMA NewProcessKeepsService ==
  ASSUME ServiceIsSound, Fresh, UNCHANGED node, crashes' \in Nat,
         step' = "idle", resp' = Blank, up' \in BOOLEAN, asked' \in BOOLEAN,
         servers' \in [Server -> {"serving", "failed"}]
  PROVE  ServiceIsSound'
<1>1. ScannerIsSound'
  BY NewProcessKeepsScanner DEF ServiceIsSound, ScannerIsSound
<1>2. STypeOK'
  BY <1>1, BlankType DEF STypeOK, ScannerIsSound
<1>3. headSlot' = 0 /\ queueAt'[0] = {} /\ finalized' \in Nat
  BY <1>1 DEF Fresh, ScannerIsSound, ScannerTrails, TypeOK, Epochs
<1>4. HandlerIsSound'
  BY <1>3 DEF HandlerIsSound, Blank
<1> QED BY <1>1, <1>2, <1>4 DEF ServiceIsSound

\* A service that starts has answered nothing and processed nothing.
LEMMA ServiceInit == SInit => ServiceIsSound
<1> SUFFICES ASSUME SInit PROVE ServiceIsSound
  OBVIOUS
<1>1. ScannerIsSound
  BY ScannerInit DEF SInit
<1>2. STypeOK
  BY <1>1, BlankType DEF SInit, STypeOK, ScannerIsSound
<1>3. headSlot = 0 /\ finalized = 0 /\ queueAt[0] = {} /\ resp = Blank /\ step = "idle"
  BY <1>1 DEF SInit, Init, ScannerIsSound, ScannerTrails
<1>4. HandlerIsSound
  BY <1>3 DEF HandlerIsSound, Blank
<1> QED BY <1>1, <1>2, <1>4 DEF ServiceIsSound

\* Every step of the process, of its tasks and of its requests.
LEMMA ServiceNext == ServiceIsSound /\ [SNext]_svars => ServiceIsSound'
<1> SUFFICES ASSUME ServiceIsSound, [SNext]_svars PROVE ServiceIsSound'
  OBVIOUS
<1>1. STypeOK /\ TypeOK
  BY DEF ServiceIsSound, STypeOK
<1>2. CASE Chain /\ UNCHANGED <<process, step, resp>>
  BY <1>2, ScannerKeepsHandler
<1>3. CASE Task(Poll)
  BY <1>3, ScannerKeepsHandler DEF Task
<1>4. CASE Handler \/ UNCHANGED svars
  <2>1. UNCHANGED <<vars, process>>
    BY <1>4, HandlerKeepsService DEF svars
  <2>2. ScannerIsSound'
    BY <2>1, ScannerStutters DEF ServiceIsSound
  <2>3. CASE Handler
    BY <1>1, <2>1, <2>2, <2>3, HandlerKeepsService
       DEF ServiceIsSound, STypeOK, ScannerIsSound, process
  <2>4. CASE UNCHANGED svars
    BY <1>1, <2>2, <2>4
       DEF ServiceIsSound, STypeOK, ScannerIsSound, HandlerIsSound, svars, vars, process, node, app, Tracked
  <2> QED BY <1>4, <2>3, <2>4
<1>5. CASE MainReturns
  <2>1. /\ Fresh /\ UNCHANGED <<node, servers, crashes>> /\ up' = FALSE /\ asked' \in BOOLEAN
        /\ step' = "idle" /\ resp' = Blank
    BY <1>5 DEF MainReturns
  <2> QED BY <1>1, <2>1, NewProcessKeepsService DEF STypeOK, TypeOK
<1>6. CASE Killed
  <2>1. /\ Fresh /\ UNCHANGED <<node, up, asked>> /\ crashes' = crashes + 1
        /\ servers' \in [Server -> {"serving", "failed"}]
        /\ step' = "idle" /\ resp' = Blank
    BY <1>6 DEF Killed, Restart
  <2> QED BY <1>1, <2>1, NewProcessKeepsService DEF STypeOK, TypeOK
<1> QED BY <1>2, <1>3, <1>4, <1>5, <1>6 DEF SNext

\* The invariant of the whole service, its requests in flight included.
THEOREM ServiceIsSoundHolds == SSpec => []ServiceIsSound
BY ServiceInit, ServiceNext, PTL DEF SSpec

\* The service and its requests in flight keep their types.
THEOREM STypeCorrect == SSpec => []STypeOK
<1>1. ServiceIsSound => STypeOK
  BY DEF ServiceIsSound
<1> QED BY <1>1, ServiceIsSoundHolds, PTL

\* An epoch the scanner is done with had all its consolidations recorded first.
THEOREM ProcessedMeansTrackedHolds == SSpec => []ProcessedMeansTracked
<1>1. ServiceIsSound => ProcessedMeansTracked
  BY DEF ServiceIsSound, ScannerIsSound
<1> QED BY <1>1, ServiceIsSoundHolds, PTL

\* A record is evidence of finality.
THEOREM TrackedWasFinalHolds == SSpec => []TrackedWasFinal
<1>1. ServiceIsSound => TrackedWasFinal
  BY DEF ServiceIsSound, ScannerIsSound
<1> QED BY <1>1, ServiceIsSoundHolds, PTL

\* Unprocessed finality never looks like success.
THEOREM UnprocessedShowsErrorHolds == SSpec => []UnprocessedShowsError
<1>1. ServiceIsSound => UnprocessedShowsError
  BY DEF ServiceIsSound, ScannerIsSound
<1> QED BY <1>1, ServiceIsSoundHolds, PTL

-----------------------------------------------------------------------------
(* What a step may never do. *)

\* The decision about health is never worse than the scanner's own numbers.
THEOREM NoFalseAlarmHolds == SSpec => NoFalseAlarm
<1> DEFINE Justified == step = "current" /\ step' = "answered" /\ ~resp'.healthy =>
                          headSlot - currentSlot > HealthyLag
<1>1. ServiceIsSound /\ [SNext]_svars => [Justified]_svars
  <2> SUFFICES ASSUME ServiceIsSound, [SNext]_svars,
                      step = "current", step' = "answered", ~resp'.healthy
               PROVE  headSlot - currentSlot > HealthyLag
    OBVIOUS
  <2>1. IsHealthy
    BY DEF SNext, svars, Task, Handler, MainReturns, Killed, Request, Stage, LoadHead,
           LoadEpoch, ReadRecord, RecordsRead, LoadError
  <2> DEFINE h == SaturatingSub(resp.head, currentSlot) <= HealthyLag
  <2>2. ~h
    <3>1. resp' = [Blank EXCEPT !.healthy = h]
      BY <2>1 DEF IsHealthy
    <3> HIDE DEF h
    <3> QED BY <3>1 DEF Blank
  <2>3. /\ resp.head \in Nat /\ resp.head <= headSlot /\ headSlot \in Nat /\ currentSlot \in Nat
        /\ HealthyLag \in Nat
    BY ServiceAssumption DEF ServiceIsSound, STypeOK, Response, HandlerIsSound, TypeOK
  <2> QED BY <2>2, <2>3 DEF SaturatingSub
<1> QED BY <1>1, ServiceIsSoundHolds, PTL DEF SSpec, NoFalseAlarm

\* Only the end of the process loses or changes a record.
THEOREM RecordsAreKeptHolds == SSpec => RecordsAreKept
<1> DEFINE Kept == \A s \in Tracked : seen'[s] = seen[s] \/ crashes' # crashes \/ ~up'
<1>1. ServiceIsSound /\ [SNext]_svars => [Kept]_svars
  <2> SUFFICES ASSUME ServiceIsSound, [SNext]_svars PROVE Kept
    OBVIOUS
  <2>1. CASE Chain \/ Poll
    BY <2>1, ScannerGoesOn DEF ServiceIsSound
  <2>2. CASE Handler \/ UNCHANGED svars
    <3>1. UNCHANGED vars
      BY <2>2, HandlerKeepsService DEF svars
    <3> QED BY <3>1 DEF vars, app
  <2>3. CASE MainReturns
    BY <2>3 DEF MainReturns
  <2>4. CASE Killed
    <3>1. crashes' = crashes + 1 /\ crashes \in Nat
      BY <2>4 DEF Killed, Restart, ServiceIsSound, STypeOK, TypeOK
    <3> QED BY <3>1
  <2> QED BY <2>1, <2>2, <2>3, <2>4 DEF SNext, Task
<1> QED BY <1>1, ServiceIsSoundHolds, PTL DEF SSpec, RecordsAreKept

\* A response about records shows all that were processed when its request came.
THEOREM ResponsesShowProcessedHolds == SSpec => ResponsesShowProcessed
<1> DEFINE Complete == step = "records" /\ step' # "records" /\ up' =>
                         queueAt[resp.floor] \cap resp.asks \subseteq resp.shown \/ crashes' # crashes
<1>1. ServiceIsSound /\ [SNext]_svars => [Complete]_svars
  <2> SUFFICES ASSUME ServiceIsSound, [SNext]_svars,
                      step = "records", step' # "records", up', crashes' = crashes
               PROVE  queueAt[resp.floor] \cap resp.asks \subseteq resp.shown
    OBVIOUS
  <2>1. ~MainReturns
    BY DEF MainReturns
  <2>2. ~Killed
    <3>1. crashes \in Nat
      BY DEF ServiceIsSound, STypeOK, TypeOK
    <3>2. crashes' # crashes + 1
      BY <3>1
    <3> QED BY <3>2 DEF Killed, Restart
  <2>3. RecordsRead
    BY <2>1, <2>2 DEF SNext, svars, Task, Handler, Request, Stage, LoadHead, IsHealthy,
                      LoadEpoch, ReadRecord, LoadError
  <2>4. resp.left = {}
    BY <2>3 DEF RecordsRead
  <2> QED BY <2>4 DEF ServiceIsSound, HandlerIsSound
<1> QED BY <1>1, ServiceIsSoundHolds, PTL DEF SSpec, ResponsesShowProcessed

\* A status without an error is one of an epoch that was or is being processed.
THEOREM QuietStatusIsProcessedHolds == SSpec => QuietStatusIsProcessed
<1> DEFINE Processed == step = "error" /\ step' = "answered" /\ resp'.quiet =>
                          resp.epoch <= last \/ pc \in {"fetch", "process"}
<1>1. ServiceIsSound /\ [SNext]_svars => [Processed]_svars
  <2> SUFFICES ASSUME ServiceIsSound, [SNext]_svars, step = "error", step' = "answered",
                      resp'.quiet, pc \notin {"fetch", "process"}
               PROVE  resp.epoch <= last
    OBVIOUS
  <2>1. LoadError
    BY DEF SNext, svars, Task, Handler, MainReturns, Killed, Request, Stage, LoadHead,
           IsHealthy, LoadEpoch, ReadRecord, RecordsRead
  <2>2. ~lastError
    <3>1. resp' = [Blank EXCEPT !.quiet = ~lastError]
      BY <2>1 DEF LoadError
    <3> QED BY <3>1 DEF Blank
  <2>3. currentEpoch \in Nat /\ last \in Nat /\ currentEpoch <= last
    BY <2>2 DEF ServiceIsSound, ScannerIsSound, UnprocessedShowsError, TypeOK, Epochs
  <2>4. resp.epoch \in Nat /\ resp.epoch <= currentEpoch
    BY DEF ServiceIsSound, HandlerIsSound, STypeOK, Response, Epochs
  <2> QED BY <2>3, <2>4
<1> QED BY <1>1, ServiceIsSoundHolds, PTL DEF SSpec, QuietStatusIsProcessed
================================================================================

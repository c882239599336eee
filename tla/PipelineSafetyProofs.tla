------------------------ MODULE PipelineSafetyProofs ------------------------
(* The safety invariants of AnalysisPipeline hold of every behaviour, for  *)
(* any number of files, requests, consumers, attempts and faults.          *)
EXTENDS AnalysisPipelineProofs

-----------------------------------------------------------------------------
(* What a status update and a publish do to one task.                      *)

\* A status update by task id reaches the task that owns the file, no other.
LEMMA SetStatusOf ==
    ASSUME TypeOK, NEW t \in Request, NEW s \in Status,
           NEW r \in Request, owner[HashOf[r]] = r
    PROVE  SetStatus(t, s)[HashOf[r]] = IF r = t THEN s ELSE status[HashOf[r]]
BY PipelineAssumption DEF TypeOK, SetStatus

\* More copies of t: t waits if there is one, and whatever waited still does.
LEMMA PublishedWaits ==
    ASSUME NEW queue \in [Request -> Nat], NEW t \in Request, NEW copies \in Nat
    PROVE  /\ copies # 0 => Published(queue, t, copies)[t] > 0
           /\ \A u \in Request : queue[u] > 0 => Published(queue, t, copies)[u] > 0
BY DEF Published

\* What the steps below use of TypeOK.
LEMMA Queues ==
    ASSUME TypeOK
    PROVE  /\ staticQ \in [Request -> Nat] /\ mlQ \in [Request -> Nat]
           /\ sandboxQ \in [Request -> Nat]
           /\ static \in [StaticWorker -> StaticJob \cup {Idle}]
           /\ ml \in [MlWorker -> MlJob \cup {MlIdle}]
           /\ slot \in [SandboxSlot -> SandboxJob \cup {SlotIdle}]
           /\ owner \in [Hash -> Request \cup {NoTask}] /\ status \in [Hash -> Status]
           /\ upload \in [Request -> {"select", "insert", "publish", "replied", "failed",
                                      "killed"}]
           /\ reply \in [Request -> Request \cup {NoTask}]
           /\ \A t \in Request : HashOf[t] \in Hash /\ t # NoTask
BY PipelineAssumption DEF TypeOK

\* A step of an ML worker that leaves ml alone or moves w on with its task.
LEMMA MlMoves ==
    ASSUME TypeOK, NEW w \in MlWorker, ml[w] # MlIdle, NEW pc, NEW row,
           ml' = [ml EXCEPT ![w].pc = pc, ![w].row = row]
    PROVE  /\ ml'[w].task = ml[w].task /\ ml'[w].pc = pc
           /\ \A v \in MlWorker \ {w} : ml'[v] = ml[v]
BY MlAt DEF TypeOK, MlJob

-----------------------------------------------------------------------------
(* OneTaskPerFile.  The messages of a task only ever come from messages of *)
(* the same task, or from the request that inserted the row; the unique    *)
(* digest keeps the owner of a file fixed once there is one.               *)

\* Where the messages of a task are.
LEMMA InFlightAt ==
    ASSUME NEW t
    PROVE  InFlight(t) <=>
             \/ upload[t] = "publish" \/ staticQ[t] > 0 \/ mlQ[t] > 0 \/ sandboxQ[t] > 0
             \/ \E w \in StaticWorker : static[w].task = t
             \/ \E w \in MlWorker : ml[w].task = t
             \/ \E s \in SandboxSlot : slot[s].task = t
BY DEF InFlight, Carried

\* A queue gains messages of the task published and loses only what is taken.
LEMMA PublishedOnly ==
    ASSUME NEW queue \in [Request -> Nat], NEW t \in Request, NEW copies \in Nat,
           NEW u \in Request, Published(queue, t, copies)[u] > 0
    PROVE  u = t \/ queue[u] > 0
BY DEF Published

LEMMA TakenOnly ==
    ASSUME NEW queue \in [Request -> Nat], NEW t \in Request,
           NEW u \in Request, Taken(queue, t)[u] > 0
    PROVE  queue[u] > 0
BY DEF Taken

\* A step that starts no task and answers no client keeps the invariant.
LEMMA NothingStarted ==
    ASSUME OneTaskPerFile, owner' = owner, reply' = reply,
           \A u \in Request : InFlight(u)' => InFlight(u)
    PROVE  OneTaskPerFile'
BY DEF OneTaskPerFile

LEMMA UploadOneTask ==
    ASSUME TypeOK, OneTaskPerFile, NEW r \in Request,
           UploadStep(r) \/ UploadFails(r) \/ UploadPublishFails(r) \/ UploadKilled(r)
    PROVE  OneTaskPerFile'
<1> USE Queues DEF dbVars, queueVars, workerVars
<1>1. CASE UploadSelect(r)
  <2>1. \A u \in Request : InFlight(u)' => InFlight(u)
    BY <1>1 DEF UploadSelect, InFlight, Carried
  <2>2. /\ owner' = owner
        /\ \A u \in Request : reply'[u] # NoTask => reply'[u] = owner[HashOf[u]]
    BY <1>1 DEF UploadSelect, OneTaskPerFile
  <2> QED
    BY <2>1, <2>2 DEF OneTaskPerFile
<1>2. CASE UploadInsert(r)
  <2>1. CASE owner[HashOf[r]] = NoTask
    <3>1. owner' = [owner EXCEPT ![HashOf[r]] = r] /\ reply' = reply
      BY <1>2, <2>1 DEF UploadInsert, Insertable
    <3>2. \A u \in Request : u # r /\ InFlight(u)' => InFlight(u)
      BY <1>2, <2>1 DEF UploadInsert, Insertable, InFlight, Carried
    <3>3. \A u \in Request : InFlight(u)' => owner'[HashOf[u]] = u
      BY <2>1, <3>1, <3>2 DEF OneTaskPerFile
    <3>4. \A u \in Request : reply'[u] # NoTask => reply'[u] = owner'[HashOf[u]]
      BY <2>1, <3>1 DEF OneTaskPerFile
    <3> QED
      BY <3>3, <3>4 DEF OneTaskPerFile
  <2>2. CASE owner[HashOf[r]] # NoTask
    <3>1. owner' = owner /\ reply' = reply
      BY <1>2, <2>2 DEF UploadInsert, Insertable
    <3>2. \A u \in Request : InFlight(u)' => InFlight(u)
      BY <1>2, <2>2 DEF UploadInsert, Insertable, InFlight, Carried
    <3> QED
      BY <3>1, <3>2, NothingStarted
  <2> QED
    BY <2>1, <2>2
<1>3. CASE UploadFails(r)
  <2>1. \A u \in Request : InFlight(u)' => InFlight(u)
    BY <1>3 DEF UploadFails, InFlight, Carried
  <2> QED
    BY <1>3, <2>1, NothingStarted DEF UploadFails, apiVars
<1>4. CASE UploadPublish(r) \/ UploadPublishFails(r) \/ UploadKilled(r)
  <2>1. PICK copies \in Nat : staticQ' = Published(staticQ, r, copies)
    BY <1>4, PipelineAssumption DEF UploadPublish, UploadPublishFails, UploadKilled,
          UploadNotConfirmed
  <2>2. upload[r] = "publish" /\ InFlight(r)
    BY <1>4, InFlightAt DEF UploadPublish, UploadPublishFails, UploadKilled,
          UploadNotConfirmed
  <2>3. \A u \in Request : upload'[u] = "publish" => upload[u] = "publish"
    BY <1>4 DEF UploadPublish, UploadPublishFails, UploadKilled,
          UploadNotConfirmed
  <2>4. /\ mlQ' = mlQ /\ sandboxQ' = sandboxQ /\ static' = static
        /\ ml' = ml /\ slot' = slot /\ owner' = owner
    BY <1>4 DEF UploadPublish, UploadPublishFails, UploadKilled,
          UploadNotConfirmed
  <2>5. \A u \in Request : staticQ'[u] > 0 => u = r \/ staticQ[u] > 0
    BY <2>1, PublishedOnly
  <2>6. \A u \in Request : InFlight(u)' => InFlight(u)
    BY <2>2, <2>3, <2>4, <2>5 DEF InFlight, Carried
  <2>7. reply' = reply \/ reply' = [reply EXCEPT ![r] = r]
    BY <1>4 DEF UploadPublish, UploadPublishFails, UploadKilled,
          UploadNotConfirmed
  <2>8. \A u \in Request : reply'[u] # NoTask => reply'[u] = owner[HashOf[u]]
    BY <2>2, <2>7 DEF OneTaskPerFile
  <2> QED
    BY <2>4, <2>6, <2>8 DEF OneTaskPerFile
<1> QED
  BY <1>1, <1>2, <1>3, <1>4 DEF UploadStep

\* What a step of a static worker makes of the messages of a task.
LEMMA StaticReach ==
    ASSUME TypeOK, NEW w \in StaticWorker,
           \/ StaticStep(w) \/ StaticError(w) \/ StaticStatusError(w)
           \/ StaticCrash(w) \/ StaticRedelivered(w)
    PROVE  /\ owner' = owner /\ reply' = reply /\ upload' = upload /\ sandboxQ' = sandboxQ
           /\ ml' = ml /\ slot' = slot
           /\ \A v \in StaticWorker \ {w} : static'[v] = static[v]
           /\ \A u \in Request : staticQ'[u] > 0 => staticQ[u] > 0 \/ static[w].task = u
           /\ \A u \in Request : mlQ'[u] > 0 => mlQ[u] > 0 \/ static[w].task = u
           /\ \A u \in Request : static'[w].task = u => staticQ[u] > 0 \/ static[w].task = u
<1> USE Queues DEF dbVars, queueVars, workerVars, apiVars
<1>1. /\ owner' = owner /\ reply' = reply /\ upload' = upload /\ sandboxQ' = sandboxQ
      /\ ml' = ml /\ slot' = slot
  BY DEF StaticStep, StaticReceive, StaticMark, StaticPublish, StaticMarkFailed, StaticError,
         StaticStatusError, StaticCrash, StaticRedelivered
<1>2. \A v \in StaticWorker \ {w} : static'[v] = static[v]
  BY DEF StaticStep, StaticReceive, StaticMark, StaticPublish, StaticMarkFailed, StaticError,
         StaticStatusError, StaticCrash, StaticRedelivered, StaticRetry
<1>3. /\ \A u \in Request : staticQ'[u] > 0 => staticQ[u] > 0 \/ static[w].task = u
      /\ \A u \in Request : mlQ'[u] > 0 => mlQ[u] > 0 \/ static[w].task = u
      /\ \A u \in Request : static'[w].task = u => staticQ[u] > 0 \/ static[w].task = u
  <2>1. CASE StaticReceive(w)
    <3>1. PICK t \in Request :
             /\ staticQ[t] > 0
             /\ staticQ' = Taken(staticQ, t)
             /\ static' = [static EXCEPT ![w] = [pc |-> "mark", task |-> t, tries |-> 0]]
      BY <2>1 DEF StaticReceive
    <3>2. \A u \in Request : staticQ'[u] > 0 => staticQ[u] > 0
      BY <3>1, TakenOnly
    <3> QED
      BY <2>1, <3>1, <3>2 DEF StaticReceive
  <2>2. CASE StaticMark(w) \/ StaticMarkFailed(w) \/ StaticStatusError(w)
    <3>1. static[w] \in StaticJob /\ static[w] # Idle
      BY <2>2, IdleFacts, StaticAt DEF StaticMark, StaticMarkFailed, StaticStatusError
    <3>2. static'[w].task = static[w].task \/ static'[w] = Idle
      BY <2>2, <3>1 DEF StaticMark, StaticMarkFailed, StaticStatusError, StaticRetry, StaticJob
    <3> QED
      BY <2>2, <3>2, IdleFacts DEF StaticMark, StaticMarkFailed, StaticStatusError
  <2>3. CASE StaticPublish(w) \/ StaticError(w)
    <3>1. static[w] # Idle /\ static[w].task \in Request
      BY <2>3, IdleFacts, StaticAt DEF StaticPublish, StaticError
    <3>2. PICK copies \in Nat : mlQ' = Published(mlQ, static[w].task, copies)
      BY <2>3, PipelineAssumption DEF StaticPublish, StaticError
    <3>3. \A u \in Request : mlQ'[u] > 0 => mlQ[u] > 0 \/ static[w].task = u
      BY <3>1, <3>2, PublishedOnly
    <3>4. static'[w] = Idle \/ static'[w].task = static[w].task
      BY <2>3, <3>1, StaticAt DEF StaticPublish, StaticError, StaticJob
    <3> QED
      BY <2>3, <3>3, <3>4, IdleFacts DEF StaticPublish, StaticError
  <2>4. CASE StaticCrash(w) \/ StaticRedelivered(w)
    <3>1. static[w].task \in Request /\ staticQ' = Published(staticQ, static[w].task, 1)
      BY <2>4, StaticAt DEF StaticCrash, StaticRedelivered
    <3>2. \A u \in Request : staticQ'[u] > 0 => staticQ[u] > 0 \/ static[w].task = u
      BY <3>1, PublishedOnly
    <3> QED
      BY <2>4, <3>2, IdleFacts DEF StaticCrash, StaticRedelivered
  <2> QED
    BY <2>1, <2>2, <2>3, <2>4 DEF StaticStep
<1> QED
  BY <1>1, <1>2, <1>3

LEMMA StaticOneTask ==
    ASSUME TypeOK, OneTaskPerFile, NEW w \in StaticWorker,
           \/ StaticStep(w) \/ StaticError(w) \/ StaticStatusError(w)
           \/ StaticCrash(w) \/ StaticRedelivered(w)
    PROVE  OneTaskPerFile'
<1>1. \A u \in Request : InFlight(u)' => InFlight(u)
  BY StaticReach DEF InFlight, Carried
<1> QED
  BY <1>1, StaticReach, NothingStarted

\* And a step of an ML worker.
LEMMA MlReach ==
    ASSUME TypeOK, NEW w \in MlWorker,
           \/ MlStep(w) \/ MlError(w) \/ MlCommitLost(w) \/ MlCacheLost(w) \/ MlRouteLost(w)
           \/ MlRouteError(w) \/ MlStatusError(w) \/ MlCrash(w) \/ MlRedelivered(w)
    PROVE  /\ owner' = owner /\ reply' = reply /\ upload' = upload /\ staticQ' = staticQ
           /\ static' = static /\ slot' = slot
           /\ \A v \in MlWorker \ {w} : ml'[v] = ml[v]
           /\ \A u \in Request : mlQ'[u] > 0 => mlQ[u] > 0 \/ ml[w].task = u
           /\ \A u \in Request : sandboxQ'[u] > 0 => sandboxQ[u] > 0 \/ ml[w].task = u
           /\ \A u \in Request : ml'[w].task = u => mlQ[u] > 0 \/ ml[w].task = u
<1> USE Queues DEF dbVars, queueVars, workerVars, apiVars
<1>1. /\ owner' = owner /\ reply' = reply /\ upload' = upload /\ staticQ' = staticQ
      /\ static' = static /\ slot' = slot
  BY DEF MlStep, MlReceive, MlRead, MlCommit, MlClash, MlCache, MlRoute, MlMarkFailed, MlError,
         MlCommitLost, MlCacheLost, MlRouteLost, MlRouteError, MlStatusError, MlCrash,
         MlRedelivered
<1>2. \A v \in MlWorker \ {w} : ml'[v] = ml[v]
  BY DEF MlStep, MlReceive, MlRead, MlCommit, MlClash, MlCache, MlRoute, MlMarkFailed, MlError,
         MlCommitLost, MlCacheLost, MlRouteLost, MlRouteError, MlStatusError, MlCrash,
         MlRedelivered, MlRetry
<1>3. /\ \A u \in Request : mlQ'[u] > 0 => mlQ[u] > 0 \/ ml[w].task = u
      /\ \A u \in Request : sandboxQ'[u] > 0 => sandboxQ[u] > 0 \/ ml[w].task = u
      /\ \A u \in Request : ml'[w].task = u => mlQ[u] > 0 \/ ml[w].task = u
  <2>1. CASE MlReceive(w)
    <3>1. PICK t \in Request :
             /\ mlQ[t] > 0
             /\ mlQ' = Taken(mlQ, t)
             /\ ml' = [ml EXCEPT ![w] = [pc |-> "infer", task |-> t, tries |-> 0,
                                         row |-> NoReputation]]
      BY <2>1 DEF MlReceive
    <3>2. \A u \in Request : mlQ'[u] > 0 => mlQ[u] > 0
      BY <3>1, TakenOnly
    <3> QED
      BY <2>1, <3>1, <3>2 DEF MlReceive
  <2>2. CASE \/ MlRead(w) \/ MlCommit(w) \/ MlClash(w) \/ MlCache(w) \/ MlError(w)
             \/ MlCommitLost(w) \/ MlCacheLost(w)
    <3>1. ml[w] # MlIdle
      BY <2>2, IdleFacts
         DEF MlRead, MlCommit, MlClash, MlCache, MlError, MlCommitLost, MlCacheLost
    <3>2. \E pc, row : ml' = [ml EXCEPT ![w].pc = pc, ![w].row = row]
      BY <2>2 DEF MlRead, MlCommit, MlClash, MlCache, MlError, MlCommitLost, MlCacheLost
    <3>3. ml'[w].task = ml[w].task
      BY <3>1, <3>2, MlMoves
    <3>4. mlQ' = mlQ /\ sandboxQ' = sandboxQ
      BY <2>2 DEF MlRead, MlCommit, MlClash, MlCache, MlError, MlCommitLost, MlCacheLost
    <3> QED
      BY <3>3, <3>4
  <2>3. CASE MlMarkFailed(w) \/ MlStatusError(w)
    <3>1. ml[w] # MlIdle /\ ml[w] \in MlJob
      BY <2>3, IdleFacts, MlAt DEF MlMarkFailed, MlStatusError
    <3>2. ml'[w].task = ml[w].task \/ ml'[w] = MlIdle
      BY <2>3, <3>1 DEF MlMarkFailed, MlStatusError, MlRetry, MlJob
    <3> QED
      BY <2>3, <3>2, IdleFacts DEF MlMarkFailed, MlStatusError
  <2>4. CASE MlRoute(w) \/ MlRouteLost(w) \/ MlRouteError(w)
    <3>1. ml[w] # MlIdle /\ ml[w].task \in Request /\ ml[w] \in MlJob
      BY <2>4, IdleFacts, MlAt DEF MlRoute, MlRouteLost, MlRouteError
    <3>2. sandboxQ' = sandboxQ \/ \E copies \in Nat : sandboxQ' = Published(sandboxQ, ml[w].task, copies)
      BY <2>4 DEF MlRoute, MlRouteLost, MlRouteError
    <3>3. \A u \in Request : sandboxQ'[u] > 0 => sandboxQ[u] > 0 \/ ml[w].task = u
      BY <3>1, <3>2, PublishedOnly
    <3>4. ml'[w] = MlIdle \/ ml'[w].task = ml[w].task
      BY <2>4, <3>1 DEF MlRoute, MlRouteLost, MlRouteError, MlJob
    <3>5. mlQ' = mlQ
      BY <2>4 DEF MlRoute, MlRouteLost, MlRouteError
    <3> QED
      BY <3>3, <3>4, <3>5, IdleFacts
  <2>5. CASE MlCrash(w) \/ MlRedelivered(w)
    <3>1. ml[w].task \in Request /\ mlQ' = Published(mlQ, ml[w].task, 1)
      BY <2>5, MlAt DEF MlCrash, MlRedelivered
    <3>2. \A u \in Request : mlQ'[u] > 0 => mlQ[u] > 0 \/ ml[w].task = u
      BY <3>1, PublishedOnly
    <3> QED
      BY <2>5, <3>2, IdleFacts DEF MlCrash, MlRedelivered
  <2> QED
    BY <2>1, <2>2, <2>3, <2>4, <2>5 DEF MlStep
<1> QED
  BY <1>1, <1>2, <1>3

LEMMA MlOneTask ==
    ASSUME TypeOK, OneTaskPerFile, NEW w \in MlWorker,
           \/ MlStep(w) \/ MlError(w) \/ MlCommitLost(w) \/ MlCacheLost(w) \/ MlRouteLost(w)
           \/ MlRouteError(w) \/ MlStatusError(w) \/ MlCrash(w) \/ MlRedelivered(w)
    PROVE  OneTaskPerFile'
<1>1. \A u \in Request : InFlight(u)' => InFlight(u)
  BY MlReach, InFlightAt DEF InFlight, Carried
<1> QED
  BY <1>1, MlReach, NothingStarted

LEMMA SandboxOneTask ==
    ASSUME TypeOK, OneTaskPerFile, NEW s \in SandboxSlot,
           SandboxStep(s) \/ SandboxError(s) \/ SandboxRedelivered(s)
    PROVE  OneTaskPerFile'
<1> USE Queues DEF dbVars, queueVars, workerVars, apiVars
<1>1. /\ owner' = owner /\ reply' = reply /\ upload' = upload /\ staticQ' = staticQ
      /\ mlQ' = mlQ /\ static' = static /\ ml' = ml
  BY DEF SandboxStep, SandboxRun, SandboxMissing, SandboxRead, SandboxCommit, SandboxError,
         SandboxRedelivered
<1>2. \A v \in SandboxSlot \ {s} : slot'[v] = slot[v]
  BY DEF SandboxStep, SandboxRun, SandboxMissing, SandboxRead, SandboxCommit, SandboxError,
         SandboxRedelivered
<1>3. /\ \A u \in Request : sandboxQ'[u] > 0 => sandboxQ[u] > 0 \/ slot[s].task = u
      /\ \A u \in Request : slot'[s].task = u => sandboxQ[u] > 0 \/ slot[s].task = u
  <2>1. CASE SandboxRun(s)
    <3>1. PICK t \in Request, report \in Report :
             /\ sandboxQ[t] > 0
             /\ sandboxQ' = Taken(sandboxQ, t)
             /\ slot' = [slot EXCEPT ![s] = [pc |-> "report", task |-> t, report |-> report,
                                             row |-> NoReputation]]
      BY <2>1 DEF SandboxRun
    <3>2. \A u \in Request : sandboxQ'[u] > 0 => sandboxQ[u] > 0
      BY <3>1, TakenOnly
    <3> QED
      BY <3>1, <3>2
  <2>2. CASE SandboxMissing(s)
    <3>1. \A u \in Request : sandboxQ'[u] > 0 => sandboxQ[u] > 0
      BY <2>2, TakenOnly DEF SandboxMissing
    <3> QED
      BY <2>2, <3>1 DEF SandboxMissing
  <2>3. CASE SandboxRead(s) \/ SandboxCommit(s) \/ SandboxError(s)
    <3>1. slot[s] # SlotIdle /\ slot[s] \in SandboxJob
      BY <2>3, IdleFacts, SlotAt DEF SandboxRead, SandboxCommit, SandboxError
    <3>2. slot'[s] = SlotIdle \/ slot'[s].task = slot[s].task
      BY <2>3, <3>1 DEF SandboxRead, SandboxCommit, SandboxError, SandboxJob
    <3>3. sandboxQ' = sandboxQ
      BY <2>3 DEF SandboxRead, SandboxCommit, SandboxError
    <3> QED
      BY <3>2, <3>3, IdleFacts
  <2>4. CASE SandboxRedelivered(s)
    <3>1. slot[s].task \in Request /\ sandboxQ' = Published(sandboxQ, slot[s].task, 1)
      BY <2>4, SlotAt DEF SandboxRedelivered
    <3>2. \A u \in Request : sandboxQ'[u] > 0 => sandboxQ[u] > 0 \/ slot[s].task = u
      BY <3>1, PublishedOnly
    <3> QED
      BY <2>4, <3>2 DEF SandboxRedelivered
  <2> QED
    BY <2>1, <2>2, <2>3, <2>4 DEF SandboxStep
<1>4. \A u \in Request : InFlight(u)' => InFlight(u)
  BY <1>1, <1>2, <1>3, InFlightAt DEF InFlight, Carried
<1> QED
  BY <1>1, <1>4, NothingStarted

LEMMA SandboxCrashOneTask ==
    ASSUME TypeOK, OneTaskPerFile, SandboxCrash
    PROVE  OneTaskPerFile'
<1>1. /\ owner' = owner /\ reply' = reply /\ upload' = upload /\ staticQ' = staticQ
      /\ mlQ' = mlQ /\ static' = static /\ ml' = ml
  BY DEF SandboxCrash, dbVars, apiVars
<1>2. ASSUME NEW u \in Request, sandboxQ'[u] > 0
      PROVE  sandboxQ[u] > 0 \/ \E s \in SandboxSlot : slot[s].task = u
  <2>1. sandboxQ'[u] = sandboxQ[u] + Cardinality({s \in SandboxSlot : slot[s].task = u})
    BY DEF SandboxCrash
  <2>2. CASE {s \in SandboxSlot : slot[s].task = u} = {}
    <3>1. Cardinality({s \in SandboxSlot : slot[s].task = u}) = 0
      BY <2>2, FS_EmptySet
    <3> QED
      BY <1>2, <2>1, <3>1, Queues
  <2>3. CASE {s \in SandboxSlot : slot[s].task = u} # {}
    BY <2>3
  <2> QED
    BY <2>2, <2>3
<1>3. \A u \in Request : ~\E s \in SandboxSlot : slot'[s].task = u
  BY IdleFacts, Queues DEF SandboxCrash
<1>4. \A u \in Request : InFlight(u)' => InFlight(u)
  BY <1>1, <1>2, <1>3, InFlightAt DEF InFlight, Carried
<1> QED
  BY <1>1, <1>4, NothingStarted

LEMMA OtherOneTask ==
    ASSUME OneTaskPerFile,
           \/ \E l \in Reader : LookupStep(l)
           \/ \E h \in Hash : CacheExpire(h)
           \/ UNCHANGED vars
    PROVE  OneTaskPerFile'
<1>1. /\ owner' = owner /\ reply' = reply /\ upload' = upload /\ staticQ' = staticQ
      /\ mlQ' = mlQ /\ sandboxQ' = sandboxQ /\ static' = static /\ ml' = ml /\ slot' = slot
  BY DEF LookupStep, LookupMiss, LookupFill, CacheExpire, vars, dbVars,
         queueVars, workerVars, apiVars
<1> QED
  BY <1>1 DEF OneTaskPerFile, InFlight, Carried

LEMMA StepOneTask == TypeOK /\ OneTaskPerFile /\ [Next]_vars => OneTaskPerFile'
<1> SUFFICES ASSUME TypeOK, OneTaskPerFile, Next \/ UNCHANGED vars PROVE OneTaskPerFile'
  OBVIOUS
<1> QED
  BY UploadOneTask, StaticOneTask, MlOneTask, SandboxOneTask, SandboxCrashOneTask,
     OtherOneTask, Zenon
     DEF Next, Faulty

(* However uploads of one file race and messages are delivered again, one  *)
(* task id is ever analysed for it and given to its clients                *)
(* (routes.py:58-123).                                                     *)
THEOREM OneTaskPerFileAlways == Spec => []OneTaskPerFile
<1>1. Init => OneTaskPerFile
  BY PipelineAssumption, IdleFacts DEF Init, OneTaskPerFile, InFlight, Carried
<1>2. TypeOK /\ OneTaskPerFile /\ [Next]_vars => OneTaskPerFile'
  BY StepOneTask
<1> QED
  BY <1>1, <1>2, TypeCorrect, PTL DEF Spec

-----------------------------------------------------------------------------
(* Until its upload publishes it, a task has no messages and its status    *)
(* stays what the insert made it.                                          *)
Unseen(t) ==
    /\ ~(staticQ[t] > 0) /\ ~(mlQ[t] > 0)
    /\ \A w \in StaticWorker : static[w].task # t
    /\ \A w \in MlWorker : ml[w].task # t

PublishesFirst ==
    \A r \in Request :
        upload[r] = "publish" => Unseen(r) /\ status[HashOf[r]] = "PENDING"

LEMMA UploadPublishesFirst ==
    ASSUME TypeOK, OneTaskPerFile, PublishesFirst, NEW r \in Request,
           UploadStep(r) \/ UploadFails(r) \/ UploadPublishFails(r) \/ UploadKilled(r)
    PROVE  PublishesFirst'
<1> USE Queues DEF dbVars, queueVars, workerVars
<1>1. CASE UploadSelect(r) \/ UploadFails(r)
  BY <1>1 DEF UploadSelect, UploadFails, PublishesFirst, Unseen
<1>2. CASE UploadInsert(r)
  <2>1. CASE Insertable(HashOf[r])
    <3>1. /\ owner[HashOf[r]] = NoTask /\ upload[r] = "insert"
          /\ upload' = [upload EXCEPT ![r] = "publish"]
          /\ status' = [status EXCEPT ![HashOf[r]] = "PENDING"]
          /\ UNCHANGED <<staticQ, mlQ, static, ml>>
      BY <1>2, <2>1 DEF UploadInsert, Insertable
    <3>2. Unseen(r)
      BY <3>1, InFlightAt DEF OneTaskPerFile, Unseen
    <3> QED
      BY <3>1, <3>2 DEF PublishesFirst, Unseen
  <2>2. CASE ~Insertable(HashOf[r])
    BY <1>2, <2>2 DEF UploadInsert, PublishesFirst, Unseen
  <2> QED
    BY <2>1, <2>2
<1>3. CASE UploadPublish(r) \/ UploadPublishFails(r) \/ UploadKilled(r)
  <2>1. PICK copies \in Nat : staticQ' = Published(staticQ, r, copies)
    BY <1>3, PipelineAssumption
       DEF UploadPublish, UploadPublishFails, UploadKilled, UploadNotConfirmed
  <2>2. \A u \in Request : staticQ'[u] > 0 => u = r \/ staticQ[u] > 0
    BY <2>1, PublishedOnly
  <2>3. \A u \in Request : upload'[u] = "publish" => u # r /\ upload[u] = "publish"
    BY <1>3 DEF UploadPublish, UploadPublishFails, UploadKilled
  <2>4. UNCHANGED <<status, mlQ, static, ml>>
    BY <1>3 DEF UploadPublish, UploadPublishFails, UploadKilled
  <2> QED
    BY <2>2, <2>3, <2>4 DEF PublishesFirst, Unseen
<1> QED
  BY <1>1, <1>2, <1>3 DEF UploadStep

LEMMA StaticPublishesFirst ==
    ASSUME TypeOK, OneTaskPerFile, PublishesFirst, NEW w \in StaticWorker,
           \/ StaticStep(w) \/ StaticError(w) \/ StaticStatusError(w)
           \/ StaticCrash(w) \/ StaticRedelivered(w)
    PROVE  PublishesFirst'
<1>1. SUFFICES ASSUME NEW r \in Request, upload'[r] = "publish"
               PROVE  Unseen(r)' /\ status'[HashOf[r]] = "PENDING"
  BY DEF PublishesFirst
<1>2. upload[r] = "publish" /\ Unseen(r) /\ status[HashOf[r]] = "PENDING"
  BY <1>1, StaticReach DEF PublishesFirst
<1>3. Unseen(r)'
  BY <1>2, StaticReach DEF Unseen
<1>4. owner[HashOf[r]] = r
  BY <1>2, InFlightAt DEF OneTaskPerFile
<1>5. status' = status \/ \E s \in Status : status' = SetStatus(static[w].task, s)
  BY DEF StaticStep, StaticReceive, StaticMark, StaticPublish, StaticMarkFailed, StaticError,
         StaticStatusError, StaticCrash, StaticRedelivered, dbVars, Status
<1>6. static[w].task # r
  BY <1>2 DEF Unseen
<1>7. status'[HashOf[r]] = status[HashOf[r]]
  BY <1>4, <1>5, <1>6, Queues DEF SetStatus
<1> QED
  BY <1>2, <1>3, <1>7

LEMMA MlPublishesFirst ==
    ASSUME TypeOK, OneTaskPerFile, PublishesFirst, NEW w \in MlWorker,
           \/ MlStep(w) \/ MlError(w) \/ MlCommitLost(w) \/ MlCacheLost(w) \/ MlRouteLost(w)
           \/ MlRouteError(w) \/ MlStatusError(w) \/ MlCrash(w) \/ MlRedelivered(w)
    PROVE  PublishesFirst'
<1>1. SUFFICES ASSUME NEW r \in Request, upload'[r] = "publish"
               PROVE  Unseen(r)' /\ status'[HashOf[r]] = "PENDING"
  BY DEF PublishesFirst
<1>2. upload[r] = "publish" /\ Unseen(r) /\ status[HashOf[r]] = "PENDING"
  BY <1>1, MlReach DEF PublishesFirst
<1>3. Unseen(r)'
  BY <1>2, MlReach DEF Unseen
<1>4. owner[HashOf[r]] = r
  BY <1>2, InFlightAt DEF OneTaskPerFile
<1>5. status' = status \/ \E s \in Status : status' = SetStatus(ml[w].task, s)
  BY DEF MlStep, MlReceive, MlRead, MlCommit, MlClash, MlCache, MlRoute, MlMarkFailed, MlError,
         MlCommitLost, MlCacheLost, MlRouteLost, MlRouteError, MlStatusError, MlCrash,
         MlRedelivered, MlWrite, dbVars, Status
<1>6. ml[w].task # r
  BY <1>2 DEF Unseen
<1>7. status'[HashOf[r]] = status[HashOf[r]]
  BY <1>4, <1>5, <1>6, Queues DEF SetStatus
<1> QED
  BY <1>2, <1>3, <1>7

LEMMA OtherPublishesFirst ==
    ASSUME PublishesFirst,
           \/ \E l \in Reader : LookupStep(l)
           \/ \E h \in Hash : CacheExpire(h)
           \/ \E s \in SandboxSlot : SandboxStep(s) \/ SandboxError(s) \/ SandboxRedelivered(s)
           \/ SandboxCrash
           \/ UNCHANGED vars
    PROVE  PublishesFirst'
<1>1. /\ status' = status /\ upload' = upload /\ staticQ' = staticQ
      /\ mlQ' = mlQ /\ static' = static /\ ml' = ml
  BY DEF LookupStep, LookupMiss, LookupFill, CacheExpire, SandboxStep,
         SandboxRun, SandboxMissing, SandboxRead, SandboxCommit, SandboxError,
         SandboxRedelivered, SandboxCrash, vars, dbVars, queueVars, workerVars, apiVars
<1> QED
  BY <1>1 DEF PublishesFirst, Unseen

LEMMA PublishesFirstAlways == Spec => []PublishesFirst
<1>1. Init => PublishesFirst
  BY DEF Init, PublishesFirst
<1>2. TypeOK /\ OneTaskPerFile /\ PublishesFirst /\ [Next]_vars => PublishesFirst'
  <2> SUFFICES ASSUME TypeOK, OneTaskPerFile, PublishesFirst, Next \/ UNCHANGED vars
               PROVE  PublishesFirst'
    OBVIOUS
  <2> QED
    BY UploadPublishesFirst, StaticPublishesFirst, MlPublishesFirst, OtherPublishesFirst,
       Zenon
       DEF Next, Faulty
<1> QED
  BY <1>1, <1>2, TypeCorrect, OneTaskPerFileAlways, PTL DEF Spec

-----------------------------------------------------------------------------
(* NoSilentLoss.  A status is only ever taken back to PROCESSING by a      *)
(* worker that carries the task, and each carrier hands over to the next   *)
(* before it lets go.  A killed upload either left a message, or, by       *)
(* PublishesFirst, a row that is PENDING.                                  *)

LEMMA UploadNoSilentLoss ==
    ASSUME TypeOK, NoSilentLoss, PublishesFirst, NEW r \in Request,
           UploadStep(r) \/ UploadFails(r) \/ UploadPublishFails(r) \/ UploadKilled(r)
    PROVE  NoSilentLoss'
<1> USE Queues DEF NoSilentLoss, KilledUnpublished, Carried, dbVars, queueVars, workerVars
<1>1. CASE UploadSelect(r)
  BY <1>1 DEF UploadSelect
<1>2. CASE UploadInsert(r)
  BY <1>2 DEF UploadInsert, Insertable
<1>3. CASE UploadFails(r)
  BY <1>3 DEF UploadFails
<1>4. CASE UploadPublish(r)
  <2>1. PICK copies \in 1..MaxAttempts :
           Confirmed(copies) /\ staticQ' = Published(staticQ, r, copies)
    BY <1>4 DEF UploadPublish
  <2>2. copies \in Nat \ {0}
    BY <2>1, ConfirmedType
  <2>3. staticQ'[r] > 0 /\ \A u \in Request : staticQ[u] > 0 => staticQ'[u] > 0
    BY <2>1, <2>2, PublishedWaits
  <2> QED
    BY <1>4, <2>3 DEF UploadPublish
<1>5. CASE UploadPublishFails(r) \/ UploadKilled(r)
  <2>1. PICK copies \in 0..MaxAttempts : staticQ' = Published(staticQ, r, copies)
    BY <1>5 DEF UploadPublishFails, UploadKilled, UploadNotConfirmed
  <2>2. copies \in Nat
    BY PipelineAssumption
  <2>3. \A u \in Request : staticQ[u] > 0 => staticQ'[u] > 0
    BY <2>1, <2>2, PublishedWaits
  <2>4. status[HashOf[r]] = "PENDING"
    BY <1>5 DEF UploadPublishFails, UploadKilled, UploadNotConfirmed, PublishesFirst
  <2> QED
    BY <1>5, <2>3, <2>4 DEF UploadPublishFails, UploadKilled
<1> QED
  BY <1>1, <1>2, <1>3, <1>4, <1>5 DEF UploadStep

\* The retry keeps the worker on the task or records that it gave up.
LEMMA StaticRetryKeeps ==
    ASSUME TypeOK, NEW w \in StaticWorker, static[w] # Idle, StaticRetry(w)
    PROVE  /\ static'[w].task = static[w].task \/ static[w].task \in abandoned'
           /\ \A v \in StaticWorker \ {w} : static'[v] = static[v]
           /\ abandoned \subseteq abandoned'
BY StaticAt DEF TypeOK, StaticRetry, StaticJob

LEMMA StaticNoSilentLoss ==
    ASSUME TypeOK, NoSilentLoss, NEW w \in StaticWorker,
           \/ StaticStep(w) \/ StaticError(w) \/ StaticStatusError(w)
           \/ StaticCrash(w) \/ StaticRedelivered(w)
    PROVE  NoSilentLoss'
<1> USE Queues, StaticAt, IdleFacts
        DEF NoSilentLoss, KilledUnpublished, Carried, dbVars, queueVars, workerVars, apiVars
<1>1. CASE StaticReceive(w)
  <2>1. PICK t \in Request :
           /\ staticQ[t] > 0
           /\ staticQ' = Taken(staticQ, t)
           /\ static' = [static EXCEPT ![w] = [pc |-> "mark", task |-> t, tries |-> 0]]
    BY <1>1 DEF StaticReceive
  <2>2. \A u \in Request \ {t} : staticQ'[u] = staticQ[u]
    BY <2>1, TakenType
  <2>3. static'[w].task = t /\ \A v \in StaticWorker \ {w} : static'[v] = static[v]
    BY <2>1
  <2>4. static[w].task = NoTask
    BY <1>1 DEF StaticReceive
  <2> QED
    BY <1>1, <2>2, <2>3, <2>4 DEF StaticReceive
<1>2. CASE StaticMark(w)
  <2>1. static[w] # Idle
    BY <1>2 DEF StaticMark
  <2>2. \A v \in StaticWorker : static'[v].task = static[v].task
    BY <1>2, <2>1 DEF StaticMark, StaticJob
  <2>3. \A r \in Request : owner[HashOf[r]] = r /\ r # static[w].task =>
           status'[HashOf[r]] = status[HashOf[r]]
    BY <1>2, <2>1, SetStatusOf DEF StaticMark, Status
  <2> QED
    BY <1>2, <2>2, <2>3 DEF StaticMark
<1>3. CASE StaticPublish(w)
  <2>1. static[w] # Idle
    BY <1>3 DEF StaticPublish
  <2>2. PICK copies \in 1..MaxAttempts :
           Confirmed(copies) /\ mlQ' = Published(mlQ, static[w].task, copies)
    BY <1>3 DEF StaticPublish
  <2>3. copies \in Nat \ {0}
    BY <2>2, ConfirmedType
  <2>4. mlQ'[static[w].task] > 0 /\ \A u \in Request : mlQ[u] > 0 => mlQ'[u] > 0
    BY <2>1, <2>2, <2>3, PublishedWaits
  <2>5. \A v \in StaticWorker \ {w} : static'[v] = static[v]
    BY <1>3 DEF StaticPublish
  <2> QED
    BY <1>3, <2>4, <2>5 DEF StaticPublish
<1>4. CASE StaticError(w)
  <2>1. static[w] # Idle
    BY <1>4 DEF StaticError
  <2>2. PICK copies \in 0..MaxAttempts : mlQ' = Published(mlQ, static[w].task, copies)
    BY <1>4 DEF StaticError
  <2>3. copies \in Nat
    BY PipelineAssumption
  <2>4. \A u \in Request : mlQ[u] > 0 => mlQ'[u] > 0
    BY <2>1, <2>2, <2>3, PublishedWaits
  <2>5. \A v \in StaticWorker : static'[v].task = static[v].task
    BY <1>4, <2>1 DEF StaticError, StaticJob
  <2> QED
    BY <1>4, <2>4, <2>5 DEF StaticError
<1>5. CASE StaticMarkFailed(w)
  <2>1. static[w] # Idle
    BY <1>5 DEF StaticMarkFailed
  <2>2. \A r \in Request : owner[HashOf[r]] = r =>
           IF r = static[w].task THEN status'[HashOf[r]] \in Final
           ELSE status'[HashOf[r]] = status[HashOf[r]]
    BY <1>5, <2>1, SetStatusOf DEF StaticMarkFailed, Status, Final
  <2>3. /\ abandoned \subseteq abandoned'
        /\ \A v \in StaticWorker \ {w} : static'[v] = static[v]
    BY <1>5, <2>1, StaticRetryKeeps DEF StaticMarkFailed
  <2> QED
    BY <1>5, <2>2, <2>3 DEF StaticMarkFailed
<1>6. CASE StaticStatusError(w)
  <2>1. static[w] # Idle
    BY <1>6 DEF StaticStatusError
  <2>2. /\ static'[w].task = static[w].task \/ static[w].task \in abandoned'
        /\ \A v \in StaticWorker \ {w} : static'[v] = static[v]
        /\ abandoned \subseteq abandoned'
    BY <1>6, <2>1, StaticRetryKeeps DEF StaticStatusError
  <2>3. /\ UNCHANGED <<upload, staticQ, mlQ, ml>>
        /\ UNCHANGED <<owner, status>>
    BY <1>6 DEF StaticStatusError
  <2> QED
    BY <2>2, <2>3
<1>7. CASE StaticCrash(w)
  <2>1. static[w].task \in Request /\ staticQ' = Published(staticQ, static[w].task, 1)
    BY <1>7 DEF StaticCrash
  <2>2. staticQ'[static[w].task] > 0 /\ \A u \in Request : staticQ[u] > 0 => staticQ'[u] > 0
    BY <2>1, PublishedWaits
  <2>3. \A v \in StaticWorker \ {w} : static'[v] = static[v]
    BY <1>7 DEF StaticCrash
  <2> QED
    BY <1>7, <2>2, <2>3 DEF StaticCrash
<1>8. CASE StaticRedelivered(w)
  <2>1. static[w].task \in Request /\ staticQ' = Published(staticQ, static[w].task, 1)
    BY <1>8 DEF StaticRedelivered
  <2>2. \A u \in Request : staticQ[u] > 0 => staticQ'[u] > 0
    BY <2>1, PublishedWaits
  <2> QED
    BY <1>8, <2>2 DEF StaticRedelivered
<1> QED
  BY <1>1, <1>2, <1>3, <1>4, <1>5, <1>6, <1>7, <1>8 DEF StaticStep

LEMMA MlRetryKeeps ==
    ASSUME TypeOK, NEW w \in MlWorker, ml[w] # MlIdle, MlRetry(w)
    PROVE  /\ \/ ml'[w].task = ml[w].task /\ ml'[w].pc = "infer"
              \/ ml[w].task \in abandoned'
           /\ \A v \in MlWorker \ {w} : ml'[v] = ml[v]
           /\ abandoned \subseteq abandoned'
BY MlAt DEF TypeOK, MlRetry, MlJob

\* The transaction that writes the verdict completes the task it works on.
LEMMA MlWriteStatus ==
    ASSUME TypeOK, NEW w \in MlWorker, ml[w] # MlIdle, MlWrite(w),
           NEW r \in Request, owner[HashOf[r]] = r
    PROVE  IF r = ml[w].task THEN status'[HashOf[r]] \in Final
           ELSE status'[HashOf[r]] = status[HashOf[r]]
BY MlAt, SetStatusOf DEF MlWrite, Status, Final

LEMMA MlNoSilentLoss ==
    ASSUME TypeOK, NoSilentLoss, NEW w \in MlWorker,
           \/ MlStep(w) \/ MlError(w) \/ MlCommitLost(w) \/ MlCacheLost(w) \/ MlRouteLost(w)
           \/ MlRouteError(w) \/ MlStatusError(w) \/ MlCrash(w) \/ MlRedelivered(w)
    PROVE  NoSilentLoss'
<1> USE Queues, MlAt, IdleFacts
        DEF NoSilentLoss, KilledUnpublished, Carried, dbVars, queueVars, workerVars, apiVars
<1>1. CASE MlReceive(w)
  <2>1. PICK t \in Request :
           /\ mlQ[t] > 0
           /\ mlQ' = Taken(mlQ, t)
           /\ ml' = [ml EXCEPT ![w] = [pc |-> "infer", task |-> t, tries |-> 0,
                                       row |-> NoReputation]]
    BY <1>1 DEF MlReceive
  <2>2. \A u \in Request \ {t} : mlQ'[u] = mlQ[u]
    BY <2>1, TakenType
  <2>3. /\ ml'[w].task = t /\ ml'[w].pc = "infer"
        /\ \A v \in MlWorker \ {w} : ml'[v] = ml[v]
    BY <2>1
  <2>4. ml[w].task = NoTask
    BY <1>1 DEF MlReceive
  <2> QED
    BY <1>1, <2>2, <2>3, <2>4 DEF MlReceive
<1>2. CASE MlRead(w)
  <2>1. ml[w] # MlIdle
    BY <1>2 DEF MlRead
  <2>2. /\ ml'[w].task = ml[w].task /\ ml'[w].pc = "commit"
        /\ \A v \in MlWorker \ {w} : ml'[v] = ml[v]
    BY <1>2, <2>1, MlMoves DEF MlRead
  <2> QED
    BY <1>2, <2>2 DEF MlRead
<1>3. CASE MlCommit(w) \/ MlCommitLost(w)
  <2>1. ml[w] # MlIdle /\ MlWrite(w)
    BY <1>3 DEF MlCommit, MlCommitLost
  <2>2. \A v \in MlWorker \ {w} : ml'[v] = ml[v]
    BY <1>3, <2>1, MlMoves DEF MlCommit, MlCommitLost
  <2>3. \A r \in Request : owner[HashOf[r]] = r =>
           IF r = ml[w].task THEN status'[HashOf[r]] \in Final
           ELSE status'[HashOf[r]] = status[HashOf[r]]
    BY <2>1, MlWriteStatus
  <2> QED
    BY <1>3, <2>2, <2>3 DEF MlCommit, MlCommitLost
<1>4. CASE MlClash(w) \/ MlError(w)
  <2>1. ml[w] # MlIdle
    BY <1>4 DEF MlClash, MlError
  <2>2. ml' = [ml EXCEPT ![w].pc = "error", ![w].row = NoReputation]
    BY <1>4 DEF MlClash, MlError
  <2>3. /\ ml'[w].task = ml[w].task /\ ml'[w].pc = "error"
        /\ \A v \in MlWorker \ {w} : ml'[v] = ml[v]
    BY <2>1, <2>2, MlMoves
  <2> QED
    BY <1>4, <2>3 DEF MlClash, MlError
<1>5. CASE MlCache(w) \/ MlCacheLost(w)
  <2>1. ml[w] # MlIdle /\ ml[w].pc = "cache"
    BY <1>5 DEF MlCache, MlCacheLost
  <2>2. \A v \in MlWorker \ {w} : ml'[v] = ml[v]
    BY <1>5, <2>1, MlMoves DEF MlCache, MlCacheLost
  <2> QED
    BY <1>5, <2>1, <2>2 DEF MlCache, MlCacheLost
<1>6. CASE MlRoute(w) \/ MlRouteLost(w) \/ MlRouteError(w)
  <2>1. ml[w].pc = "route" /\ \A v \in MlWorker \ {w} : ml'[v] = ml[v]
    BY <1>6 DEF MlRoute, MlRouteLost, MlRouteError
  <2>2. /\ owner' = owner /\ status' = status /\ upload' = upload /\ staticQ' = staticQ
        /\ mlQ' = mlQ /\ static' = static /\ abandoned' = abandoned
    BY <1>6 DEF MlRoute, MlRouteLost, MlRouteError
  <2>3. \A u \in Request : Carried(u) => Carried(u)'
    BY <2>1, <2>2
  <2> QED
    BY <2>2, <2>3
<1>7. CASE MlMarkFailed(w)
  <2>1. ml[w] # MlIdle
    BY <1>7 DEF MlMarkFailed
  <2>2. \A r \in Request : owner[HashOf[r]] = r =>
           IF r = ml[w].task THEN status'[HashOf[r]] \in Final
           ELSE status'[HashOf[r]] = status[HashOf[r]]
    BY <1>7, <2>1, SetStatusOf DEF MlMarkFailed, Status, Final
  <2>3. /\ abandoned \subseteq abandoned'
        /\ \A v \in MlWorker \ {w} : ml'[v] = ml[v]
    BY <1>7, <2>1, MlRetryKeeps DEF MlMarkFailed
  <2> QED
    BY <1>7, <2>2, <2>3 DEF MlMarkFailed
<1>8. CASE MlStatusError(w)
  <2>1. ml[w] # MlIdle
    BY <1>8 DEF MlStatusError
  <2>2. /\ \/ ml'[w].task = ml[w].task /\ ml'[w].pc = "infer"
           \/ ml[w].task \in abandoned'
        /\ \A v \in MlWorker \ {w} : ml'[v] = ml[v]
        /\ abandoned \subseteq abandoned'
    BY <1>8, <2>1, MlRetryKeeps DEF MlStatusError
  <2>3. /\ UNCHANGED <<upload, staticQ, mlQ, static>>
        /\ UNCHANGED <<owner, status>>
    BY <1>8 DEF MlStatusError
  <2>4. \A r \in Request : Carried(r) => Carried(r)' \/ r \in abandoned'
    BY <2>2, <2>3
  <2> QED
    BY <2>2, <2>3, <2>4
<1>9. CASE MlCrash(w)
  <2>1. ml[w].task \in Request /\ mlQ' = Published(mlQ, ml[w].task, 1)
    BY <1>9 DEF MlCrash
  <2>2. mlQ'[ml[w].task] > 0 /\ \A u \in Request : mlQ[u] > 0 => mlQ'[u] > 0
    BY <2>1, PublishedWaits
  <2>3. \A v \in MlWorker \ {w} : ml'[v] = ml[v]
    BY <1>9 DEF MlCrash
  <2> QED
    BY <1>9, <2>2, <2>3 DEF MlCrash
<1>10. CASE MlRedelivered(w)
  <2>1. ml[w].task \in Request /\ mlQ' = Published(mlQ, ml[w].task, 1)
    BY <1>10 DEF MlRedelivered
  <2>2. \A u \in Request : mlQ[u] > 0 => mlQ'[u] > 0
    BY <2>1, PublishedWaits
  <2> QED
    BY <1>10, <2>2 DEF MlRedelivered
<1> QED
  BY <1>1, <1>2, <1>3, <1>4, <1>5, <1>6, <1>7, <1>8, <1>9, <1>10 DEF MlStep

\* Lookups, expiry and the sandbox touch neither a status nor a carrier.
LEMMA OtherNoSilentLoss ==
    ASSUME NoSilentLoss,
           \/ \E l \in Reader : LookupStep(l)
           \/ \E h \in Hash : CacheExpire(h)
           \/ \E s \in SandboxSlot : SandboxStep(s) \/ SandboxError(s) \/ SandboxRedelivered(s)
           \/ SandboxCrash
           \/ UNCHANGED vars
    PROVE  NoSilentLoss'
<1>1. /\ owner' = owner /\ status' = status /\ upload' = upload /\ staticQ' = staticQ
      /\ mlQ' = mlQ /\ static' = static /\ ml' = ml /\ abandoned' = abandoned
  BY DEF LookupStep, LookupMiss, LookupFill, CacheExpire, SandboxStep,
         SandboxRun, SandboxMissing, SandboxRead, SandboxCommit, SandboxError,
         SandboxRedelivered, SandboxCrash, vars, dbVars, queueVars, workerVars, apiVars
<1> QED
  BY <1>1 DEF NoSilentLoss, KilledUnpublished, Carried

LEMMA StepNoSilentLoss ==
    TypeOK /\ PublishesFirst /\ NoSilentLoss /\ [Next]_vars => NoSilentLoss'
<1> SUFFICES ASSUME TypeOK, PublishesFirst, NoSilentLoss, Next \/ UNCHANGED vars
             PROVE  NoSilentLoss'
  OBVIOUS
<1> QED
  BY UploadNoSilentLoss, StaticNoSilentLoss, MlNoSilentLoss, OtherNoSilentLoss, Zenon
     DEF Next, Faulty

(* NoSilentLoss in every interleaving with any number of workers, files    *)
(* and faults (routes.py:96-114, static_worker.py:88-158,                  *)
(* ml_worker.py:112-176): an inserted task whose status is not final is    *)
(* still carried by the upload, a queue or a worker, or was logged as      *)
(* given up since it was last taken up, or is the PENDING row of an API    *)
(* process killed between its commit and its publish, which nobody knows.  *)
THEOREM NoSilentLossAlways == Spec => []NoSilentLoss
<1>1. Init => NoSilentLoss
  BY PipelineAssumption DEF Init, NoSilentLoss
<1>2. TypeOK /\ PublishesFirst /\ NoSilentLoss /\ [Next]_vars => NoSilentLoss'
  BY StepNoSilentLoss
<1> QED
  BY <1>1, <1>2, TypeCorrect, PublishesFirstAlways, PTL DEF Spec
=============================================================================

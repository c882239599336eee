----------------------- MODULE AnalysisPipelineProofs -----------------------
(* Proofs about AnalysisPipeline for any number of files, requests,        *)
(* consumers, attempts and faults.                                         *)
EXTENDS AnalysisPipeline, ReputationProofs, FiniteSetTheorems

-----------------------------------------------------------------------------
(* The helpers the actions are built from.                                 *)

LEMMA FaultType ==
    ASSUME TypeOK, NEW n \in Nat, Fault(n)
    PROVE  faults' \in 0..MaxFaults
BY PipelineAssumption DEF TypeOK, Fault

LEMMA ConfirmedType ==
    ASSUME TypeOK, NEW copies \in 1..MaxAttempts, Confirmed(copies)
    PROVE  copies \in Nat \ {0} /\ faults' \in 0..MaxFaults
<1>1. copies \in Nat \ {0} /\ copies - 1 \in Nat
  BY PipelineAssumption
<1> QED
  BY <1>1, FaultType DEF Confirmed

LEMMA NotConfirmedType ==
    ASSUME TypeOK, NEW copies \in 0..MaxAttempts, NotConfirmed(copies)
    PROVE  copies \in Nat /\ faults' \in 0..MaxFaults
<1>1. copies \in Nat /\ Larger(1, copies) \in Nat
  BY PipelineAssumption DEF Larger
<1> QED
  BY <1>1, FaultType DEF NotConfirmed

LEMMA PublishedType ==
    ASSUME NEW queue \in [Request -> Nat], NEW t \in Request, NEW copies \in Nat
    PROVE  /\ Published(queue, t, copies) \in [Request -> Nat]
           /\ Published(queue, t, copies)[t] = queue[t] + copies
           /\ \A u \in Request \ {t} : Published(queue, t, copies)[u] = queue[u]
BY DEF Published

LEMMA TakenType ==
    ASSUME NEW queue \in [Request -> Nat], NEW t \in Request, queue[t] > 0
    PROVE  /\ Taken(queue, t) \in [Request -> Nat]
           /\ Taken(queue, t)[t] = queue[t] - 1
           /\ \A u \in Request \ {t} : Taken(queue, t)[u] = queue[u]
BY DEF Taken

LEMMA SetStatusType ==
    ASSUME TypeOK, NEW t, NEW s \in Status
    PROVE  SetStatus(t, s) \in [Hash -> Status]
BY DEF TypeOK, SetStatus

LEMMA IdleFacts ==
    /\ Idle.pc = "idle" /\ MlIdle.pc = "idle" /\ SlotIdle.pc = "idle"
    /\ Idle.task = NoTask /\ MlIdle.task = NoTask /\ SlotIdle.task = NoTask
    /\ Idle \notin StaticJob /\ MlIdle \notin MlJob /\ SlotIdle \notin SandboxJob
BY DEF Idle, MlIdle, SlotIdle, StaticJob, MlJob, SandboxJob

LEMMA InitTypeOK == Init => TypeOK
BY PipelineAssumption, NoReputationType DEF Init, TypeOK, Status

-----------------------------------------------------------------------------
(* Type correctness, component by component.                               *)

LEMMA UploadTypeOK ==
    ASSUME TypeOK, NEW r \in Request,
           UploadStep(r) \/ UploadFails(r) \/ UploadPublishFails(r) \/ UploadKilled(r)
    PROVE  TypeOK'
<1> USE PipelineAssumption DEF TypeOK, dbVars, queueVars, workerVars
<1>1. HashOf[r] \in Hash
  OBVIOUS
<1>2. CASE UploadSelect(r)
  BY <1>1, <1>2 DEF UploadSelect
<1>3. CASE UploadInsert(r)
  <2>1. CASE Insertable(HashOf[r])
    <3>1. /\ owner' = [owner EXCEPT ![HashOf[r]] = r]
          /\ status' = [status EXCEPT ![HashOf[r]] = "PENDING"]
          /\ upload' = [upload EXCEPT ![r] = "publish"]
      BY <1>3, <2>1 DEF UploadInsert
    <3>2. owner' \in [Hash -> Request \cup {NoTask}] /\ status' \in [Hash -> Status]
      BY <1>1, <3>1 DEF Status
    <3>3. upload' \in [Request -> {"select", "insert", "publish", "replied", "failed",
                                   "killed"}]
      BY <3>1
    <3> QED
      BY <1>3, <3>2, <3>3 DEF UploadInsert
  <2>2. CASE ~Insertable(HashOf[r])
    BY <1>3, <2>2 DEF UploadInsert
  <2> QED
    BY <2>1, <2>2
<1>4. CASE UploadFails(r)
  BY <1>4, FaultType DEF UploadFails
<1>5. CASE UploadPublish(r)
  <2>1. PICK copies \in 1..MaxAttempts : Confirmed(copies) /\ staticQ' = Published(staticQ, r, copies)
    BY <1>5 DEF UploadPublish
  <2>2. staticQ' \in [Request -> Nat] /\ faults' \in 0..MaxFaults
    BY <2>1, ConfirmedType, PublishedType
  <2> QED
    BY <1>5, <2>2 DEF UploadPublish
<1>6. CASE UploadPublishFails(r) \/ UploadKilled(r)
  <2>1. PICK copies \in 0..MaxAttempts :
           NotConfirmed(copies) /\ staticQ' = Published(staticQ, r, copies)
    BY <1>6 DEF UploadPublishFails, UploadKilled, UploadNotConfirmed
  <2>2. staticQ' \in [Request -> Nat] /\ faults' \in 0..MaxFaults
    BY <2>1, NotConfirmedType, PublishedType
  <2> QED
    BY <1>6, <2>2 DEF UploadPublishFails, UploadKilled
<1> QED
  BY <1>2, <1>3, <1>4, <1>5, <1>6 DEF UploadStep

LEMMA ReachedType ==
    ASSUME TypeOK, NEW c, Reached(c)
    PROVE  faults' \in 0..MaxFaults
BY FaultType DEF TypeOK, Reached

\* One entry of one store is replaced.
LEMMA CacheEntryType ==
    ASSUME TypeOK, NEW c \in Store, NEW h \in Hash, NEW row \in ReputationRow,
           cache' = [cache EXCEPT ![c][h] = row]
    PROVE  cache' \in [Store -> [Hash -> ReputationRow]]
BY DEF TypeOK

LEMMA LookupTypeOK ==
    ASSUME TypeOK, NEW l \in Reader, LookupStep(l)
    PROVE  TypeOK'
<1> USE DEF TypeOK, dbVars, queueVars, workerVars
<1>1. ASSUME NEW h \in Hash, LookupMiss(l, h) PROVE TypeOK'
  <2>1. faults' \in 0..MaxFaults
    BY <1>1, ReachedType DEF LookupMiss
  <2> QED
    BY <1>1, <2>1 DEF LookupMiss, Fill
<1>2. CASE LookupFill(l)
  <2>1. reader[l].hash \in Hash /\ reader[l].row \in ReputationRow
    BY <1>2 DEF LookupFill, Fill
  <2>2. faults' \in 0..MaxFaults /\ cache' \in [Store -> [Hash -> ReputationRow]]
    BY <1>2, <2>1, ReachedType, CacheEntryType DEF LookupFill
  <2> QED
    BY <1>2, <2>2 DEF LookupFill
<1> QED
  BY <1>1, <1>2 DEF LookupStep

LEMMA ExpiryTypeOK ==
    ASSUME TypeOK, NEW h \in Hash, CacheExpire(h)
    PROVE  TypeOK'
<1>1. cache' \in [Store -> [Hash -> ReputationRow]]
  BY NoReputationType, CacheEntryType DEF CacheExpire, Store
<1> QED
  BY <1>1 DEF TypeOK, CacheExpire, dbVars, queueVars, workerVars, apiVars

\* A consumer that has reached a given program counter has a job.
LEMMA StaticAt ==
    ASSUME TypeOK, NEW w \in StaticWorker, static[w] # Idle
    PROVE  static[w] \in StaticJob /\ static[w].task \in Request /\ static[w].tries \in Nat
BY DEF TypeOK, StaticJob

LEMMA StaticRetryType ==
    ASSUME TypeOK, NEW w \in StaticWorker, static[w] # Idle, StaticRetry(w)
    PROVE  /\ static' \in [StaticWorker -> StaticJob \cup {Idle}]
           /\ abandoned' \subseteq Request
<1>1. CASE static[w].tries + 1 < MaxAttempts
  <2> DEFINE again == [static[w] EXCEPT !.pc = "mark", !.tries = static[w].tries + 1]
  <2>1. static' = [static EXCEPT ![w] = again] /\ UNCHANGED abandoned
    BY <1>1 DEF StaticRetry
  <2>2. static[w] \in StaticJob /\ static[w].tries + 1 \in Nat
    BY StaticAt
  <2>3. again \in StaticJob
    BY <2>2 DEF StaticJob
  <2> HIDE DEF again
  <2> QED
    BY <2>1, <2>3 DEF TypeOK
<1>2. CASE ~(static[w].tries + 1 < MaxAttempts)
  BY <1>2, StaticAt DEF TypeOK, StaticRetry
<1> QED
  BY <1>1, <1>2

LEMMA StaticTypeOK ==
    ASSUME TypeOK, NEW w \in StaticWorker,
           \/ StaticStep(w) \/ StaticError(w) \/ StaticStatusError(w)
           \/ StaticCrash(w) \/ StaticRedelivered(w)
    PROVE  TypeOK'
<1> USE DEF TypeOK, dbVars, queueVars, workerVars, apiVars
<1>1. CASE StaticReceive(w)
  <2>1. PICK t \in Request :
           /\ staticQ[t] > 0
           /\ staticQ' = Taken(staticQ, t)
           /\ static' = [static EXCEPT ![w] = [pc |-> "mark", task |-> t, tries |-> 0]]
    BY <1>1 DEF StaticReceive
  <2>2. staticQ' \in [Request -> Nat]
    BY <2>1, TakenType
  <2>3. static' \in [StaticWorker -> StaticJob \cup {Idle}]
    BY <2>1 DEF StaticJob
  <2> QED
    BY <1>1, <2>2, <2>3 DEF StaticReceive
<1>2. CASE StaticMark(w)
  <2>1. static[w] # Idle
    BY <1>2, IdleFacts DEF StaticMark
  <2>2. static' \in [StaticWorker -> StaticJob \cup {Idle}]
    BY <1>2, <2>1, StaticAt DEF StaticMark, StaticJob
  <2>3. status' \in [Hash -> Status]
    BY <1>2, SetStatusType DEF StaticMark, Status
  <2> QED
    BY <1>2, <2>2, <2>3 DEF StaticMark
<1>3. CASE StaticPublish(w)
  <2>1. static[w] # Idle
    BY <1>3, IdleFacts DEF StaticPublish
  <2>2. PICK copies \in 1..MaxAttempts :
           Confirmed(copies) /\ mlQ' = Published(mlQ, static[w].task, copies)
    BY <1>3 DEF StaticPublish
  <2>3. mlQ' \in [Request -> Nat] /\ faults' \in 0..MaxFaults
    BY <2>1, <2>2, StaticAt, ConfirmedType, PublishedType
  <2> QED
    BY <1>3, <2>3 DEF StaticPublish
<1>4. CASE StaticError(w)
  <2>1. static[w] # Idle
    BY <1>4, IdleFacts DEF StaticError
  <2>2. PICK copies \in 0..MaxAttempts :
           NotConfirmed(copies) /\ mlQ' = Published(mlQ, static[w].task, copies)
    BY <1>4 DEF StaticError
  <2>3. mlQ' \in [Request -> Nat] /\ faults' \in 0..MaxFaults
    BY <2>1, <2>2, StaticAt, NotConfirmedType, PublishedType
  <2>4. static' \in [StaticWorker -> StaticJob \cup {Idle}]
    BY <1>4, <2>1, StaticAt DEF StaticError, StaticJob
  <2> QED
    BY <1>4, <2>3, <2>4 DEF StaticError
<1>5. CASE StaticMarkFailed(w)
  <2>1. static[w] # Idle
    BY <1>5, IdleFacts DEF StaticMarkFailed
  <2>2. status' \in [Hash -> Status]
    BY <1>5, SetStatusType DEF StaticMarkFailed, Status
  <2> QED
    BY <1>5, <2>1, <2>2, StaticRetryType DEF StaticMarkFailed
<1>6. CASE StaticStatusError(w)
  <2>1. static[w] # Idle
    BY <1>6, IdleFacts DEF StaticStatusError
  <2> QED
    BY <1>6, <2>1, StaticRetryType, FaultType DEF StaticStatusError
<1>7. CASE StaticCrash(w)
  <2>1. staticQ' \in [Request -> Nat]
    BY <1>7, StaticAt, PublishedType DEF StaticCrash
  <2> QED
    BY <1>7, <2>1, FaultType DEF StaticCrash
<1>8. CASE StaticRedelivered(w)
  <2>1. staticQ' \in [Request -> Nat]
    BY <1>8, StaticAt, PublishedType DEF StaticRedelivered
  <2> QED
    BY <1>8, <2>1, FaultType DEF StaticRedelivered
<1> QED
  BY <1>1, <1>2, <1>3, <1>4, <1>5, <1>6, <1>7, <1>8 DEF StaticStep

LEMMA MlAt ==
    ASSUME TypeOK, NEW w \in MlWorker, ml[w] # MlIdle
    PROVE  /\ ml[w] \in MlJob /\ ml[w].task \in Request /\ ml[w].tries \in Nat
           /\ ml[w].row \in ReputationRow
           /\ HashOf[ml[w].task] \in Hash /\ mlRisk[HashOf[ml[w].task]] \in RiskScore
BY PipelineAssumption DEF TypeOK, MlJob

LEMMA MlGotoType ==
    ASSUME TypeOK, NEW w \in MlWorker, ml[w] # MlIdle, NEW row \in ReputationRow,
           NEW pc \in {"infer", "commit", "cache", "route", "error"},
           ml' = [ml EXCEPT ![w].pc = pc, ![w].row = row]
    PROVE  ml' \in [MlWorker -> MlJob \cup {MlIdle}]
<1> DEFINE moved == [ml[w] EXCEPT !.pc = pc, !.row = row]
<1>1. ml' = [ml EXCEPT ![w] = moved]
  OBVIOUS
<1>2. moved \in MlJob
  BY MlAt DEF MlJob
<1> HIDE DEF moved
<1> QED
  BY <1>1, <1>2 DEF TypeOK

LEMMA MlRetryType ==
    ASSUME TypeOK, NEW w \in MlWorker, ml[w] # MlIdle, MlRetry(w)
    PROVE  /\ ml' \in [MlWorker -> MlJob \cup {MlIdle}]
           /\ abandoned' \subseteq Request
BY MlAt DEF TypeOK, MlRetry, MlJob

LEMMA MlWriteType ==
    ASSUME TypeOK, NEW w \in MlWorker, ml[w] # MlIdle, MlWrite(w)
    PROVE  /\ MlSighting(w) \in ReputationRow
           /\ rep' \in [Hash -> ReputationRow]
           /\ status' \in [Hash -> Status]
<1> DEFINE h == HashOf[ml[w].task]
<1>1. MlSighting(w) \in ReputationRow
  BY MlAt, SightedType DEF MlSighting
<1>2. Flushed(rep[h], ml[w].row, MlSighting(w)) \in ReputationRow
  BY <1>1, MlAt, FlushedType DEF TypeOK
<1>3. rep' \in [Hash -> ReputationRow]
  BY <1>1, <1>2 DEF TypeOK, MlWrite
<1>4. status' \in [Hash -> Status]
  BY SetStatusType DEF MlWrite, Status
<1> QED
  BY <1>1, <1>3, <1>4

LEMMA MlTypeOK ==
    ASSUME TypeOK, NEW w \in MlWorker,
           \/ MlStep(w) \/ MlError(w) \/ MlCommitLost(w) \/ MlCacheLost(w) \/ MlRouteLost(w)
           \/ MlRouteError(w) \/ MlStatusError(w) \/ MlCrash(w) \/ MlRedelivered(w)
    PROVE  TypeOK'
<1> USE DEF TypeOK, dbVars, queueVars, workerVars, apiVars
<1>1. CASE MlReceive(w)
  <2>1. PICK t \in Request :
           /\ mlQ[t] > 0
           /\ mlQ' = Taken(mlQ, t)
           /\ ml' = [ml EXCEPT ![w] = [pc |-> "infer", task |-> t, tries |-> 0,
                                       row |-> NoReputation]]
    BY <1>1 DEF MlReceive
  <2>2. mlQ' \in [Request -> Nat]
    BY <2>1, TakenType
  <2>3. ml' \in [MlWorker -> MlJob \cup {MlIdle}]
    BY <2>1, NoReputationType DEF MlJob
  <2> QED
    BY <1>1, <2>2, <2>3 DEF MlReceive
<1>2. CASE MlRead(w)
  <2>1. ml[w] # MlIdle
    BY <1>2, IdleFacts DEF MlRead
  <2>2. rep[HashOf[ml[w].task]] \in ReputationRow
    BY <2>1, MlAt
  <2>3. ml' \in [MlWorker -> MlJob \cup {MlIdle}]
    BY <1>2, <2>1, <2>2, MlGotoType DEF MlRead
  <2> QED
    BY <1>2, <2>3 DEF MlRead
<1>3. CASE MlCommit(w)
  <2>1. ml[w] # MlIdle
    BY <1>3, IdleFacts DEF MlCommit
  <2>2. MlWrite(w)
    BY <1>3 DEF MlCommit
  <2>3. ml' \in [MlWorker -> MlJob \cup {MlIdle}]
    BY <1>3, <2>1, <2>2, MlWriteType, MlGotoType DEF MlCommit
  <2> QED
    BY <1>3, <2>1, <2>2, <2>3, MlWriteType DEF MlCommit
<1>4. CASE MlClash(w) \/ MlError(w)
  <2>1. ml[w] # MlIdle
    BY <1>4, IdleFacts DEF MlClash, MlError
  <2>2. ml' \in [MlWorker -> MlJob \cup {MlIdle}]
    BY <1>4, <2>1, NoReputationType, MlGotoType DEF MlClash, MlError
  <2>3. CASE MlClash(w)
    BY <2>2, <2>3 DEF MlClash
  <2>4. CASE MlError(w)
    BY <2>2, <2>4, FaultType DEF MlError
  <2> QED
    BY <1>4, <2>3, <2>4
<1>5. CASE MlCommitLost(w)
  <2>1. ml[w] # MlIdle
    BY <1>5, IdleFacts DEF MlCommitLost
  <2>2. MlWrite(w)
    BY <1>5 DEF MlCommitLost
  <2>3. ml' \in [MlWorker -> MlJob \cup {MlIdle}]
    BY <1>5, <2>1, NoReputationType, MlGotoType DEF MlCommitLost
  <2> QED
    BY <1>5, <2>1, <2>2, <2>3, MlWriteType, FaultType DEF MlCommitLost
<1>6. CASE MlCache(w) \/ MlCacheLost(w)
  <2>1. ml[w] # MlIdle
    BY <1>6, IdleFacts DEF MlCache, MlCacheLost
  <2>2. ml' \in [MlWorker -> MlJob \cup {MlIdle}]
    BY <1>6, <2>1, NoReputationType, MlGotoType DEF MlCache, MlCacheLost
  <2>3. CASE MlCache(w)
    <3>1. cache' \in [Store -> [Hash -> ReputationRow]]
      BY <2>1, <2>3, MlAt, CacheEntryType DEF MlCache, Store
    <3> QED
      BY <2>2, <2>3, <3>1 DEF MlCache
  <2>4. CASE MlCacheLost(w)
    BY <2>2, <2>4, FaultType DEF MlCacheLost
  <2> QED
    BY <1>6, <2>3, <2>4
<1>7. CASE MlRoute(w)
  <2>1. ml[w] # MlIdle
    BY <1>7, IdleFacts DEF MlRoute
  <2>2. sandboxQ' \in [Request -> Nat]
    BY <1>7, <2>1, MlAt, PublishedType DEF MlRoute
  <2> QED
    BY <1>7, <2>2 DEF MlRoute
<1>8. CASE MlRouteLost(w)
  BY <1>8, FaultType DEF MlRouteLost
<1>9. CASE MlRouteError(w)
  <2>1. ml[w] # MlIdle
    BY <1>9, IdleFacts DEF MlRouteError
  <2>2. PICK copies \in 0..1 : sandboxQ' = Published(sandboxQ, ml[w].task, copies)
    BY <1>9 DEF MlRouteError
  <2>3. sandboxQ' \in [Request -> Nat]
    BY <2>1, <2>2, MlAt, PublishedType
  <2>4. ml' \in [MlWorker -> MlJob \cup {MlIdle}]
    BY <1>9, <2>1, MlAt DEF MlRouteError, MlJob
  <2> QED
    BY <1>9, <2>3, <2>4, FaultType DEF MlRouteError
<1>10. CASE MlMarkFailed(w)
  <2>1. ml[w] # MlIdle
    BY <1>10, IdleFacts DEF MlMarkFailed
  <2>2. status' \in [Hash -> Status]
    BY <1>10, SetStatusType DEF MlMarkFailed, Status
  <2> QED
    BY <1>10, <2>1, <2>2, MlRetryType DEF MlMarkFailed
<1>11. CASE MlStatusError(w)
  <2>1. ml[w] # MlIdle
    BY <1>11, IdleFacts DEF MlStatusError
  <2> QED
    BY <1>11, <2>1, MlRetryType, FaultType DEF MlStatusError
<1>12. CASE MlCrash(w)
  <2>1. mlQ' \in [Request -> Nat]
    BY <1>12, MlAt, PublishedType DEF MlCrash
  <2> QED
    BY <1>12, <2>1, FaultType DEF MlCrash
<1>13. CASE MlRedelivered(w)
  <2>1. mlQ' \in [Request -> Nat]
    BY <1>13, MlAt, PublishedType DEF MlRedelivered
  <2> QED
    BY <1>13, <2>1, FaultType DEF MlRedelivered
<1> QED
  BY <1>1, <1>2, <1>3, <1>4, <1>5, <1>6, <1>7, <1>8, <1>9, <1>10, <1>11, <1>12, <1>13
     DEF MlStep

LEMMA SlotAt ==
    ASSUME TypeOK, NEW s \in SandboxSlot, slot[s] # SlotIdle
    PROVE  /\ slot[s] \in SandboxJob /\ slot[s].task \in Request
           /\ slot[s].report \in Report /\ slot[s].report \in Nat
           /\ slot[s].row \in ReputationRow /\ HashOf[slot[s].task] \in Hash
BY PipelineAssumption DEF TypeOK, SandboxJob

\* What the transaction of a sandbox callback leaves in the table.
LEMMA SandboxCommitRow ==
    ASSUME TypeOK, NEW s \in SandboxSlot, slot[s] # SlotIdle, SandboxCommit(s)
    PROVE  LET h == HashOf[slot[s].task]
               row == slot[s].row
           IN  /\ rep' \in [Hash -> ReputationRow]
               /\ \A g \in Hash \ {h} : rep'[g] = rep[g]
               /\ row = NoReputation => rep'[h] = rep[h]
               /\ row # NoReputation =>
                     /\ rep'[h].freq = rep[h].freq
                     /\ rep'[h].risk = IF Smaller(MaxRisk, row.risk + slot[s].report) # row.risk
                                       THEN Smaller(MaxRisk, row.risk + slot[s].report)
                                       ELSE rep[h].risk
<1> DEFINE h == HashOf[slot[s].task]
           row == slot[s].row
           new == Combined(row, slot[s].report)
<1>1. new \in ReputationRow /\ new.freq = row.freq
      /\ new.risk = Smaller(MaxRisk, row.risk + slot[s].report)
  BY SlotAt, CombinedType
<1>2. /\ Flushed(rep[h], row, new) \in ReputationRow
      /\ Flushed(rep[h], row, new).freq = rep[h].freq
      /\ Flushed(rep[h], row, new).risk = IF new.risk # row.risk THEN new.risk ELSE rep[h].risk
  BY <1>1, SlotAt, FlushedType DEF TypeOK
<1>3. rep' = [rep EXCEPT ![h] = IF row = NoReputation THEN @ ELSE Flushed(@, row, new)]
  BY DEF SandboxCommit
<1> HIDE DEF new
<1>4. rep' \in [Hash -> ReputationRow]
  BY <1>2, <1>3 DEF TypeOK
<1>5. \A g \in Hash \ {h} : rep'[g] = rep[g]
  BY <1>3 DEF TypeOK
<1>6. row = NoReputation => rep'[h] = rep[h]
  BY <1>3 DEF TypeOK
<1>7. row # NoReputation => rep'[h] = Flushed(rep[h], row, new)
  BY <1>3, SlotAt DEF TypeOK
<1> QED
  BY <1>1, <1>2, <1>4, <1>5, <1>6, <1>7

LEMMA SandboxTypeOK ==
    ASSUME TypeOK, NEW s \in SandboxSlot,
           SandboxStep(s) \/ SandboxError(s) \/ SandboxRedelivered(s)
    PROVE  TypeOK'
<1> USE DEF TypeOK, dbVars, queueVars, workerVars, apiVars
<1>1. CASE SandboxRun(s)
  <2>1. PICK t \in Request, report \in Report :
           /\ sandboxQ[t] > 0
           /\ sandboxQ' = Taken(sandboxQ, t)
           /\ slot' = [slot EXCEPT ![s] = [pc |-> "report", task |-> t, report |-> report,
                                           row |-> NoReputation]]
    BY <1>1 DEF SandboxRun
  <2>2. sandboxQ' \in [Request -> Nat]
    BY <2>1, TakenType
  <2>3. slot' \in [SandboxSlot -> SandboxJob \cup {SlotIdle}]
    BY <2>1, NoReputationType DEF SandboxJob
  <2> QED
    BY <1>1, <2>2, <2>3 DEF SandboxRun
<1>2. CASE SandboxMissing(s)
  BY <1>2, TakenType DEF SandboxMissing
<1>3. CASE SandboxRead(s)
  <2>1. slot[s] # SlotIdle
    BY <1>3, IdleFacts DEF SandboxRead
  <2>2. rep[HashOf[slot[s].task]] \in ReputationRow
    BY <2>1, SlotAt
  <2>3. slot' \in [SandboxSlot -> SandboxJob \cup {SlotIdle}]
    <3>1. CASE FirstReport(slot[s].task)
      <4> DEFINE read == [slot[s] EXCEPT !.pc = "commit",
                                         !.row = rep[HashOf[slot[s].task]]]
      <4>1. slot' = [slot EXCEPT ![s] = read]
        BY <1>3, <3>1 DEF SandboxRead
      <4>2. slot[s] \in SandboxJob
        BY <2>1
      <4>3. read \in SandboxJob
        BY <2>2, <4>2 DEF SandboxJob
      <4> HIDE DEF read
      <4> QED
        BY <4>1, <4>3
    <3>2. CASE ~FirstReport(slot[s].task)
      BY <1>3, <3>2 DEF SandboxRead
    <3> QED
      BY <3>1, <3>2
  <2> QED
    BY <1>3, <2>3 DEF SandboxRead
<1>4. CASE SandboxCommit(s)
  <2>1. slot[s] # SlotIdle
    BY <1>4, IdleFacts DEF SandboxCommit
  <2>2. rep' \in [Hash -> ReputationRow]
    BY <1>4, <2>1, SandboxCommitRow
  <2>3. dynamic' \in [Request -> Report \cup {NoReport}]
    BY <1>4, <2>1, SlotAt DEF SandboxCommit
  <2> QED
    BY <1>4, <2>2, <2>3 DEF SandboxCommit
<1>5. CASE SandboxError(s)
  BY <1>5, FaultType DEF SandboxError
<1>6. CASE SandboxRedelivered(s)
  <2>1. sandboxQ' \in [Request -> Nat]
    BY <1>6, SlotAt, PublishedType DEF SandboxRedelivered
  <2> QED
    BY <1>6, <2>1, FaultType DEF SandboxRedelivered
<1> QED
  BY <1>1, <1>2, <1>3, <1>4, <1>5, <1>6 DEF SandboxStep

LEMMA CrashedQueue ==
    ASSUME TypeOK, SandboxCrash
    PROVE  sandboxQ' \in [Request -> Nat]
<1>1. \A t \in Request : Cardinality({s \in SandboxSlot : slot[s].task = t}) \in Nat
  BY PipelineAssumption, FS_Subset, FS_CardinalityType
<1> QED
  BY <1>1 DEF TypeOK, SandboxCrash

LEMMA SandboxCrashTypeOK ==
    ASSUME TypeOK, SandboxCrash
    PROVE  TypeOK'
BY CrashedQueue, FaultType
   DEF TypeOK, SandboxCrash, dbVars, workerVars, apiVars

LEMMA StutterTypeOK == TypeOK /\ UNCHANGED vars => TypeOK'
BY DEF TypeOK, vars, dbVars, queueVars, workerVars, apiVars

LEMMA StepTypeOK == TypeOK /\ [Next]_vars => TypeOK'
<1> SUFFICES ASSUME TypeOK, Next \/ UNCHANGED vars PROVE TypeOK'
  OBVIOUS
<1> QED
  BY UploadTypeOK, LookupTypeOK, ExpiryTypeOK, StaticTypeOK, MlTypeOK, SandboxTypeOK,
     SandboxCrashTypeOK, StutterTypeOK, Zenon
     DEF Next, Faulty

(* Every variable keeps its type: scores stay between 0 and 100 whatever   *)
(* the thresholds and the reports, and no count goes negative.             *)
THEOREM TypeCorrect == Spec => []TypeOK
<1>1. Init => TypeOK
  BY InitTypeOK
<1>2. TypeOK /\ [Next]_vars => TypeOK'
  BY StepTypeOK
<1> QED
  BY <1>1, <1>2, PTL DEF Spec
=============================================================================

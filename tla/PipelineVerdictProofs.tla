------------------------ MODULE PipelineVerdictProofs ------------------------
(* What the verdicts of AnalysisPipeline rest on: an inductive invariant   *)
(* over the table, the sessions that hold copies of its rows, Redis and    *)
(* the lookups, for any number of files, workers, callbacks and faults.    *)
EXTENDS PipelineSafetyProofs

\* file_metadata keeps a task next to the digest of the file it is for.
OwnersAgree == \A h \in Hash : owner[h] # NoTask => HashOf[owner[h]] = h

\* A row is inserted with one sighting and never loses it.
RowsSighted == \A h \in Hash : rep[h] # NoReputation => rep[h].freq > 0

\* A session holds a copy of a row only of a table that still has the row.
SessionsHaveRows ==
    /\ \A w \in MlWorker :
          ml[w].pc = "commit" /\ ml[w].row # NoReputation
             => rep[HashOf[ml[w].task]] # NoReputation
    /\ \A s \in SandboxSlot :
          slot[s].pc = "commit" /\ slot[s].row # NoReputation
             => rep[HashOf[slot[s].task]] # NoReputation

\* The row about to be cached has the model's score.
ModelRows == \A w \in MlWorker : ml[w].pc = "cache" => ml[w].row.risk = mlRisk[HashOf[ml[w].task]]

(* A transaction about to commit a report is the only one with a report of *)
(* that task, and works on a row no report has been folded into.           *)
OpenReports ==
    \A s \in SandboxSlot : slot[s].pc = "commit" =>
        /\ dynamic[slot[s].task] = NoReport
        /\ slot[s].row # NoReputation => slot[s].row.risk = mlRisk[HashOf[slot[s].task]]
        /\ \A s2 \in SandboxSlot \ {s} :
              slot[s2].pc = "commit" => slot[s2].task # slot[s].task

VerdictInv ==
    /\ OwnersAgree
    /\ RowsSighted
    /\ SessionsHaveRows
    /\ ModelRows
    /\ OpenReports
    /\ CompletedHasVerdict
    /\ RiskFromOneReport

-----------------------------------------------------------------------------
(* The grounds of a verdict only grow, and what a copy of a row says stays *)
(* supported by them.                                                      *)

LEMMA SameGrounds ==
    ASSUME owner' = owner, dynamic' = dynamic, mlRisk' = mlRisk
    PROVE  \A h : Grounds(h)' = Grounds(h)
BY DEF Grounds, Reports

LEMMA ModelGrounds == \A h : mlRisk[h] \in Grounds(h)
BY DEF Grounds

\* A file without a report has no grounds but the model's score.
LEMMA OneGround ==
    ASSUME NEW h, owner[h] = NoTask \/ dynamic[owner[h]] = NoReport
    PROVE  Grounds(h) = {mlRisk[h]}
BY DEF Grounds, Reports

LEMMA ReportGrounds ==
    ASSUME NEW h, owner[h] # NoTask, dynamic[owner[h]] # NoReport
    PROVE  Smaller(MaxRisk, mlRisk[h] + dynamic[owner[h]]) \in Grounds(h)
BY DEF Grounds, Reports

LEMMA ExplainedStays ==
    ASSUME TypeOK, RiskFromOneReport,
           \A h \in Hash : Grounds(h) \subseteq Grounds(h)',
           \A h \in Hash : rep'[h] = rep[h] \/ rep'[h].risk \in Grounds(h)',
           \A c \in Store, h \in Hash :
              cache'[c][h] = cache[c][h] \/ ExplainedRisk(h, cache'[c][h]),
           \A l \in Reader :
              \/ reader'[l] = reader[l] \/ reader'[l] = ReaderIdle
              \/ /\ reader'[l].hash \in Hash
                 /\ ExplainedRisk(reader'[l].hash, reader'[l].row)
    PROVE  RiskFromOneReport'
<1>1. \A h \in Hash : \A row :
         ExplainedRisk(h, row) => row = NoReputation \/ row.risk \in Grounds(h)'
  BY DEF ExplainedRisk
<1>2. \A h \in Hash : rep'[h] = NoReputation \/ rep'[h].risk \in Grounds(h)'
  BY <1>1 DEF RiskFromOneReport
<1>3. \A c \in Store, h \in Hash :
         cache'[c][h] = NoReputation \/ cache'[c][h].risk \in Grounds(h)'
  BY <1>1 DEF RiskFromOneReport
<1>4. ASSUME NEW l \in Reader, reader'[l] # ReaderIdle
      PROVE  ExplainedRisk(reader[l].hash, reader[l].row)'
  <2>1. reader[l] # ReaderIdle =>
           reader[l].hash \in Hash /\ ExplainedRisk(reader[l].hash, reader[l].row)
    BY DEF RiskFromOneReport, TypeOK, Fill
  <2>2. PICK h \in Hash : h = reader'[l].hash /\ ExplainedRisk(h, reader'[l].row)
    BY <1>4, <2>1
  <2>3. reader'[l].row = NoReputation \/ reader'[l].row.risk \in Grounds(h)'
    BY <1>1, <2>2
  <2> QED
    BY <2>2, <2>3 DEF ExplainedRisk, Grounds, Reports
<1>5. \A h \in Hash : ExplainedRisk(h, rep[h])'
  BY <1>2 DEF ExplainedRisk
<1>6. \A c \in Store, h \in Hash : ExplainedRisk(h, cache[c][h])'
  BY <1>3 DEF ExplainedRisk
<1> QED
  BY <1>4, <1>5, <1>6 DEF RiskFromOneReport

-----------------------------------------------------------------------------
(* Steps that write nothing the invariant reads: they may only let go of   *)
(* copies of rows and take statuses away from COMPLETED.                   *)

LEMMA QuietStep ==
    ASSUME VerdictInv,
           owner' = owner, rep' = rep, dynamic' = dynamic, cache' = cache, mlRisk' = mlRisk,
           \A h \in Hash : status'[h] = "COMPLETED" => status[h] = "COMPLETED",
           \A l \in Reader : reader'[l] = reader[l] \/ reader'[l] = ReaderIdle,
           \A w \in MlWorker : ml'[w] = ml[w] \/ ml'[w].pc \notin {"commit", "cache"},
           \A s \in SandboxSlot : slot'[s] = slot[s] \/ slot'[s].pc # "commit"
    PROVE  VerdictInv'
<1> USE DEF VerdictInv
<1>1. OwnersAgree' /\ RowsSighted' /\ CompletedHasVerdict'
  BY DEF OwnersAgree, RowsSighted, CompletedHasVerdict
<1>2. SessionsHaveRows'
  BY DEF SessionsHaveRows
<1>3. ModelRows'
  BY DEF ModelRows
<1>4. OpenReports'
  BY DEF OpenReports
<1>5. RiskFromOneReport'
  BY SameGrounds DEF RiskFromOneReport, ExplainedRisk
<1> QED
  BY <1>1, <1>2, <1>3, <1>4, <1>5

LEMMA UploadVerdict ==
    ASSUME TypeOK, VerdictInv, NEW r \in Request,
           UploadStep(r) \/ UploadFails(r) \/ UploadPublishFails(r) \/ UploadKilled(r)
    PROVE  VerdictInv'
<1> USE Queues DEF dbVars, queueVars, workerVars
<1>1. CASE UploadInsert(r) /\ Insertable(HashOf[r])
  <2>1. /\ owner' = [owner EXCEPT ![HashOf[r]] = r]
        /\ status' = [status EXCEPT ![HashOf[r]] = "PENDING"]
    BY <1>1 DEF UploadInsert
  <2>2. /\ rep' = rep /\ dynamic' = dynamic /\ cache' = cache /\ mlRisk' = mlRisk
        /\ reader' = reader /\ ml' = ml /\ slot' = slot
    BY <1>1 DEF UploadInsert
  <2>3. OwnersAgree'
    BY <1>1, <2>1 DEF VerdictInv, OwnersAgree
  <2>4. CompletedHasVerdict'
    BY <2>1, <2>2 DEF VerdictInv, CompletedHasVerdict
  <2>5. \A h \in Hash : Grounds(h) \subseteq Grounds(h)'
    <3> TAKE h \in Hash
    <3>1. h # HashOf[r] => Grounds(h)' = Grounds(h)
      BY <2>1, <2>2 DEF Grounds, Reports
    <3>2. h = HashOf[r] => Grounds(h) = {mlRisk[h]}
      BY <1>1, OneGround DEF Insertable
    <3>3. mlRisk[h] \in Grounds(h)'
      BY <2>2 DEF Grounds
    <3> QED
      BY <3>1, <3>2, <3>3
  <2>7. RiskFromOneReport'
    BY <2>2, <2>5, ExplainedStays DEF VerdictInv
  <2> QED
    BY <2>2, <2>3, <2>4, <2>7
       DEF VerdictInv, RowsSighted, SessionsHaveRows, ModelRows, OpenReports
<1>2. CASE ~(UploadInsert(r) /\ Insertable(HashOf[r]))
  <2>1. /\ owner' = owner /\ status' = status /\ rep' = rep /\ dynamic' = dynamic
        /\ cache' = cache /\ mlRisk' = mlRisk /\ reader' = reader /\ ml' = ml /\ slot' = slot
    BY <1>2
       DEF UploadStep, UploadSelect, UploadInsert, UploadFails, UploadPublish,
                UploadPublishFails, UploadKilled
  <2> QED
    BY <2>1, QuietStep
<1> QED
  BY <1>1, <1>2

LEMMA StaticVerdict ==
    ASSUME TypeOK, VerdictInv, NEW w \in StaticWorker,
           \/ StaticStep(w) \/ StaticError(w) \/ StaticStatusError(w)
           \/ StaticCrash(w) \/ StaticRedelivered(w)
    PROVE  VerdictInv'
<1> USE DEF dbVars, queueVars, workerVars, apiVars
<1>1. /\ owner' = owner /\ rep' = rep /\ dynamic' = dynamic /\ cache' = cache
      /\ mlRisk' = mlRisk /\ reader' = reader /\ ml' = ml /\ slot' = slot
  BY
     DEF StaticStep, StaticReceive, StaticMark, StaticPublish,
         StaticMarkFailed, StaticError,
         StaticStatusError, StaticCrash, StaticRedelivered
<1>2. \A h \in Hash : status'[h] = "COMPLETED" => status[h] = "COMPLETED"
  BY
     DEF StaticStep, StaticReceive, StaticMark, StaticPublish,
         StaticMarkFailed, StaticError,
         StaticStatusError, StaticCrash, StaticRedelivered, SetStatus
<1> QED
  BY <1>1, <1>2, QuietStep

\* The store a lookup or an expiry writes, and the stores it leaves alone.
LEMMA CacheEntry ==
    ASSUME TypeOK, NEW c \in Store, NEW h \in Hash, NEW row,
           cache' = [cache EXCEPT ![c][h] = row]
    PROVE  \A d \in Store, g \in Hash :
              cache'[d][g] = IF d = c /\ g = h THEN row ELSE cache[d][g]
BY DEF TypeOK

LEMMA LookupVerdict ==
    ASSUME TypeOK, VerdictInv, NEW l \in Reader, LookupStep(l)
    PROVE  VerdictInv'
<1> USE DEF dbVars, queueVars, workerVars
<1>1. ASSUME NEW h \in Hash, LookupMiss(l, h) PROVE VerdictInv'
  <2>1. /\ reader' = [reader EXCEPT ![l] = [hash |-> h, row |-> rep[h]]]
        /\ owner' = owner /\ status' = status /\ rep' = rep /\ dynamic' = dynamic
        /\ cache' = cache /\ mlRisk' = mlRisk /\ ml' = ml /\ slot' = slot
    BY <1>1 DEF LookupMiss
  <2>2. \A k \in Reader : \/ reader'[k] = reader[k]
                          \/ (reader'[k].hash = h /\ reader'[k].row = rep[h])
    <3>1. reader \in [Reader -> Fill \cup {ReaderIdle}]
      BY DEF TypeOK
    <3> DEFINE missed == [hash |-> h, row |-> rep[h]]
    <3>2. reader' = [reader EXCEPT ![l] = missed] /\ missed.hash = h /\ missed.row = rep[h]
      BY <2>1
    <3> HIDE DEF missed
    <3> QED
      BY <3>1, <3>2
  <2>3. ExplainedRisk(h, rep[h])
    BY DEF VerdictInv, RiskFromOneReport
  <2>4. RiskFromOneReport'
    BY <2>1, <2>2, <2>3, SameGrounds, ExplainedStays DEF VerdictInv
  <2> QED
    BY <2>1, <2>4
       DEF VerdictInv, OwnersAgree, RowsSighted, SessionsHaveRows, ModelRows,
                      OpenReports, CompletedHasVerdict
<1>2. CASE LookupFill(l)
  <2>1. PICK c \in Store : cache' = [cache EXCEPT ![c][reader[l].hash] = reader[l].row]
    BY <1>2 DEF LookupFill
  <2>2. /\ reader' = [reader EXCEPT ![l] = ReaderIdle]
        /\ reader[l] # ReaderIdle
        /\ owner' = owner /\ status' = status /\ rep' = rep /\ dynamic' = dynamic
        /\ mlRisk' = mlRisk /\ ml' = ml /\ slot' = slot
    BY <1>2 DEF LookupFill
  <2>3. /\ reader[l].hash \in Hash
        /\ ExplainedRisk(reader[l].hash, reader[l].row)
    BY <2>2 DEF TypeOK, Fill, VerdictInv, RiskFromOneReport
  <2>4. \A d \in Store, g \in Hash :
           cache'[d][g] = cache[d][g] \/ ExplainedRisk(g, cache'[d][g])
    BY <2>1, <2>3, CacheEntry
  <2>5. \A k \in Reader : reader'[k] = reader[k] \/ reader'[k] = ReaderIdle
    BY <2>2 DEF TypeOK
  <2>6. RiskFromOneReport'
    BY <2>2, <2>4, <2>5, SameGrounds, ExplainedStays DEF VerdictInv
  <2> QED
    BY <2>2, <2>6
       DEF VerdictInv, OwnersAgree, RowsSighted, SessionsHaveRows, ModelRows,
                      OpenReports, CompletedHasVerdict
<1> QED
  BY <1>1, <1>2 DEF LookupStep

LEMMA ExpiryVerdict ==
    ASSUME TypeOK, VerdictInv, NEW h \in Hash, CacheExpire(h)
    PROVE  VerdictInv'
<1>1. /\ cache' = [cache EXCEPT !["redis"][h] = NoReputation]
      /\ owner' = owner /\ status' = status /\ rep' = rep /\ dynamic' = dynamic
      /\ reader' = reader /\ mlRisk' = mlRisk /\ ml' = ml /\ slot' = slot
  BY DEF CacheExpire, dbVars, workerVars, apiVars
<1>2. \A d \in Store, g \in Hash :
         cache'[d][g] = cache[d][g] \/ ExplainedRisk(g, cache'[d][g])
  BY <1>1, CacheEntry DEF Store, ExplainedRisk
<1>3. RiskFromOneReport'
  BY <1>1, <1>2, SameGrounds, ExplainedStays DEF VerdictInv
<1> QED
  BY <1>1, <1>3
     DEF VerdictInv, OwnersAgree, RowsSighted, SessionsHaveRows, ModelRows,
                    OpenReports, CompletedHasVerdict

-----------------------------------------------------------------------------
(* The ML worker.                                                          *)

\* A row written for a sighting counts it, and scores what the model or the table said.
LEMMA MlWriteRow ==
    ASSUME TypeOK, NEW w \in MlWorker, ml[w] # MlIdle, MlWrite(w)
    PROVE  /\ rep'[HashOf[ml[w].task]] # NoReputation
           /\ rep'[HashOf[ml[w].task]].freq = ml[w].row.freq + 1
           /\ rep'[HashOf[ml[w].task]].freq > 0
           /\ \/ rep'[HashOf[ml[w].task]].risk = mlRisk[HashOf[ml[w].task]]
              \/ /\ ml[w].row # NoReputation
                 /\ rep'[HashOf[ml[w].task]].risk = rep[HashOf[ml[w].task]].risk
           /\ \A g \in Hash \ {HashOf[ml[w].task]} : rep'[g] = rep[g]
           /\ MlSighting(w).risk = mlRisk[HashOf[ml[w].task]]
<1> DEFINE h == HashOf[ml[w].task]
           row == ml[w].row
           new == MlSighting(w)
<1>1. /\ new \in ReputationRow /\ new.freq = row.freq + 1 /\ new.risk = mlRisk[h]
      /\ row \in ReputationRow /\ rep[h] \in ReputationRow /\ h \in Hash
  BY MlAt, SightedType DEF MlSighting, TypeOK
<1>2. rep' = [rep EXCEPT ![h] = IF row = NoReputation THEN new ELSE Flushed(@, row, new)]
  BY DEF MlWrite
<1> HIDE DEF new
<1>3. \A g \in Hash \ {h} : rep'[g] = rep[g]
  BY <1>2 DEF TypeOK
<1>4. rep'[h] = IF row = NoReputation THEN new ELSE Flushed(rep[h], row, new)
  BY <1>1, <1>2 DEF TypeOK
<1>5. row.freq \in Nat
  BY <1>1 DEF ReputationRow
<1>6. /\ Flushed(rep[h], row, new).freq = row.freq + 1
      /\ \/ Flushed(rep[h], row, new).risk = mlRisk[h]
         \/ Flushed(rep[h], row, new).risk = rep[h].risk
  BY <1>1, <1>5, FlushedType
<1>7. rep'[h].freq = row.freq + 1 /\ rep'[h].freq > 0
  BY <1>1, <1>4, <1>5, <1>6
<1>8. rep'[h] # NoReputation
  BY <1>7 DEF NoReputation
<1> QED
  BY <1>1, <1>3, <1>4, <1>6, <1>7, <1>8 DEF new

LEMMA MlCommitVerdict ==
    ASSUME TypeOK, VerdictInv, NEW w \in MlWorker, MlCommit(w) \/ MlCommitLost(w)
    PROVE  VerdictInv'
<1> DEFINE h == HashOf[ml[w].task]
<1>1. /\ ml[w].pc = "commit" /\ ml[w] # MlIdle /\ MlWrite(w)
      /\ owner' = owner /\ dynamic' = dynamic /\ cache' = cache /\ mlRisk' = mlRisk
      /\ reader' = reader /\ slot' = slot
  BY IdleFacts DEF MlCommit, MlCommitLost, apiVars
<1>2. /\ rep'[h] # NoReputation /\ rep'[h].freq > 0
      /\ \/ rep'[h].risk = mlRisk[h]
         \/ ml[w].row # NoReputation /\ rep'[h].risk = rep[h].risk
      /\ \A g \in Hash \ {h} : rep'[g] = rep[g]
      /\ MlSighting(w).risk = mlRisk[h]
  BY <1>1, MlWriteRow
<1>3. \A v \in MlWorker \ {w} : ml'[v] = ml[v]
  BY <1>1, Queues DEF MlCommit, MlCommitLost
<1>4. /\ ml'[w].task = ml[w].task
      /\ \/ ml'[w].pc = "error"
         \/ ml'[w].pc = "cache" /\ ml'[w].row = MlSighting(w)
  <2>1. CASE MlCommit(w)
    <3>1. ml' = [ml EXCEPT ![w].pc = "cache", ![w].row = MlSighting(w)]
      BY <2>1 DEF MlCommit
    <3> QED
      BY <1>1, <3>1, Queues, MlAt DEF MlJob
  <2>2. CASE MlCommitLost(w)
    <3>1. ml' = [ml EXCEPT ![w].pc = "error", ![w].row = NoReputation]
      BY <2>2 DEF MlCommitLost
    <3>2. ml[w] # MlIdle
      BY <1>1
    <3>3. ml'[w].task = ml[w].task /\ ml'[w].pc = "error"
      BY <3>1, <3>2, Queues, MlAt DEF MlJob
    <3> QED
      BY <3>3
  <2> QED
    BY <2>1, <2>2
<1>5. \A t \in Request : rep[HashOf[t]] # NoReputation => rep'[HashOf[t]] # NoReputation
  BY <1>2, Queues
<1>6. OwnersAgree' /\ RowsSighted'
  BY <1>1, <1>2 DEF VerdictInv, OwnersAgree, RowsSighted
<1>7. SessionsHaveRows'
  <2>1. \A v \in MlWorker : ml'[v].pc = "commit" => ml'[v] = ml[v] /\ ml[v].task \in Request
    BY <1>3, <1>4, MlAt, IdleFacts
  <2>2. \A s \in SandboxSlot : slot[s].pc = "commit" => slot[s].task \in Request
    BY SlotAt, IdleFacts
  <2> QED
    BY <1>1, <1>5, <2>1, <2>2 DEF VerdictInv, SessionsHaveRows
<1>8. ModelRows'
  BY <1>1, <1>2, <1>3, <1>4 DEF VerdictInv, ModelRows
<1>9. OpenReports'
  BY <1>1 DEF VerdictInv, OpenReports
<1>10. CompletedHasVerdict'
  <2>1. status' = SetStatus(ml[w].task, "COMPLETED")
    BY <1>1 DEF MlWrite
  <2>2. \A g \in Hash : g # h => owner[g] # ml[w].task
    BY <1>1, MlAt, Queues DEF VerdictInv, OwnersAgree
  <2>3. \A g \in Hash : g # h => status'[g] = status[g]
    BY <2>1, <2>2 DEF SetStatus
  <2> QED
    BY <1>2, <2>3 DEF VerdictInv, CompletedHasVerdict
<1>11. RiskFromOneReport'
  <2>1. \A g : Grounds(g)' = Grounds(g)
    BY <1>1, SameGrounds
  <2>2. rep'[h] = rep[h] \/ rep'[h].risk \in Grounds(h)
    <3>1. CASE rep'[h].risk = mlRisk[h]
      BY <3>1, ModelGrounds
    <3>2. CASE ml[w].row # NoReputation /\ rep'[h].risk = rep[h].risk
      <4>1. rep[h] # NoReputation /\ h \in Hash
        BY <1>1, <3>2, MlAt DEF VerdictInv, SessionsHaveRows
      <4> QED
        BY <3>2, <4>1 DEF VerdictInv, RiskFromOneReport, ExplainedRisk
    <3> QED
      BY <1>2, <3>1, <3>2
  <2>3. \A g \in Hash : rep'[g] = rep[g] \/ rep'[g].risk \in Grounds(g)'
    BY <1>2, <2>1, <2>2
  <2> QED
    BY <1>1, <2>1, <2>3, ExplainedStays DEF VerdictInv
<1> QED
  BY <1>6, <1>7, <1>8, <1>9, <1>10, <1>11 DEF VerdictInv

LEMMA MlVerdict ==
    ASSUME TypeOK, VerdictInv, NEW w \in MlWorker,
           \/ MlStep(w) \/ MlError(w) \/ MlCommitLost(w) \/ MlCacheLost(w) \/ MlRouteLost(w)
           \/ MlRouteError(w) \/ MlStatusError(w) \/ MlCrash(w) \/ MlRedelivered(w)
    PROVE  VerdictInv'
<1> USE Queues DEF dbVars, queueVars, workerVars, apiVars
<1>1. CASE MlRead(w)
  <2>1. /\ ml[w] # MlIdle
        /\ ml' = [ml EXCEPT ![w].pc = "commit", ![w].row = rep[HashOf[ml[w].task]]]
        /\ owner' = owner /\ status' = status /\ rep' = rep /\ dynamic' = dynamic
        /\ cache' = cache /\ mlRisk' = mlRisk /\ reader' = reader /\ slot' = slot
    BY <1>1, IdleFacts DEF MlRead
  <2>2. /\ \A v \in MlWorker \ {w} : ml'[v] = ml[v]
        /\ ml'[w].pc = "commit" /\ ml'[w].task = ml[w].task
        /\ ml'[w].row = rep[HashOf[ml[w].task]]
    BY <2>1, MlAt DEF MlJob
  <2>3. SessionsHaveRows' /\ ModelRows'
    BY <2>1, <2>2 DEF VerdictInv, SessionsHaveRows, ModelRows
  <2>4. RiskFromOneReport'
    BY <2>1, SameGrounds, ExplainedStays DEF VerdictInv
  <2> QED
    BY <2>1, <2>3, <2>4 DEF VerdictInv, OwnersAgree, RowsSighted, OpenReports,
                            CompletedHasVerdict
<1>2. CASE MlCommit(w) \/ MlCommitLost(w)
  BY <1>2, MlCommitVerdict
<1>3. CASE MlCache(w)
  <2>1. /\ ml[w] # MlIdle /\ ml[w].pc = "cache"
        /\ cache' = [cache EXCEPT !["redis"][HashOf[ml[w].task]] = ml[w].row]
        /\ owner' = owner /\ status' = status /\ rep' = rep /\ dynamic' = dynamic
        /\ mlRisk' = mlRisk /\ reader' = reader /\ slot' = slot
        /\ ml' = [ml EXCEPT ![w].pc = "route", ![w].row = NoReputation]
    BY <1>3, IdleFacts DEF MlCache
  <2>2. \A v \in MlWorker : ml'[v] = ml[v] \/ ml'[v].pc \notin {"commit", "cache"}
    BY <2>1, MlAt DEF MlJob
  <2>3. ExplainedRisk(HashOf[ml[w].task], ml[w].row)
    BY <2>1, ModelGrounds DEF VerdictInv, ModelRows, ExplainedRisk
  <2>4. \A d \in Store, g \in Hash :
           cache'[d][g] = cache[d][g] \/ ExplainedRisk(g, cache'[d][g])
    BY <2>1, <2>3, MlAt, CacheEntry DEF Store
  <2>5. RiskFromOneReport'
    BY <2>1, <2>4, SameGrounds, ExplainedStays DEF VerdictInv
  <2>6. SessionsHaveRows' /\ ModelRows'
    BY <2>1, <2>2 DEF VerdictInv, SessionsHaveRows, ModelRows
  <2> QED
    BY <2>1, <2>5, <2>6 DEF VerdictInv, OwnersAgree, RowsSighted, OpenReports,
                            CompletedHasVerdict
<1>4. CASE \/ MlReceive(w) \/ MlClash(w) \/ MlRoute(w) \/ MlMarkFailed(w) \/ MlError(w)
           \/ MlCacheLost(w) \/ MlRouteLost(w) \/ MlRouteError(w) \/ MlStatusError(w)
           \/ MlCrash(w) \/ MlRedelivered(w)
  <2>1. /\ owner' = owner /\ rep' = rep /\ dynamic' = dynamic /\ cache' = cache
        /\ mlRisk' = mlRisk /\ reader' = reader /\ slot' = slot
    BY <1>4
       DEF MlReceive, MlClash, MlRoute, MlMarkFailed, MlError, MlCacheLost,
           MlRouteLost,
                MlRouteError, MlStatusError, MlCrash, MlRedelivered
  <2>2. \A h \in Hash : status'[h] = "COMPLETED" => status[h] = "COMPLETED"
    BY <1>4
       DEF MlReceive, MlClash, MlRoute, MlMarkFailed, MlError, MlCacheLost,
           MlRouteLost,
                MlRouteError, MlStatusError, MlCrash, MlRedelivered, SetStatus
  <2>3. \A v \in MlWorker \ {w} : ml'[v] = ml[v]
    BY <1>4
       DEF MlReceive, MlClash, MlRoute, MlMarkFailed, MlError, MlCacheLost,
           MlRouteLost,
                MlRouteError, MlStatusError, MlCrash, MlRedelivered, MlRetry
  <2>4. ml'[w] = ml[w] \/ ml'[w].pc \notin {"commit", "cache"}
    <3>1. CASE MlReceive(w) \/ MlRoute(w) \/ MlRouteLost(w) \/ MlCrash(w) \/ MlRedelivered(w)
      BY <3>1, IdleFacts
         DEF MlReceive, MlRoute, MlRouteLost, MlCrash, MlRedelivered
    <3>2. CASE MlClash(w) \/ MlError(w) \/ MlCacheLost(w)
      <4>1. ml[w] # MlIdle
        BY <3>2, IdleFacts DEF MlClash, MlError, MlCacheLost
      <4>2. PICK pc \in {"error", "route"}, row \in {NoReputation} :
               ml' = [ml EXCEPT ![w].pc = pc, ![w].row = row]
        BY <3>2 DEF MlClash, MlError, MlCacheLost
      <4>3. ml'[w].pc = pc
        BY <4>1, <4>2, MlMoves
      <4> QED
        BY <4>2, <4>3
    <3>3. CASE MlRouteError(w)
      BY <3>3, MlAt, IdleFacts DEF MlRouteError, MlJob
    <3>4. CASE MlMarkFailed(w) \/ MlStatusError(w)
      BY <3>4, MlAt, IdleFacts DEF MlMarkFailed, MlStatusError, MlRetry, MlJob
    <3> QED
      BY <1>4, <3>1, <3>2, <3>3, <3>4
  <2> QED
    BY <2>1, <2>2, <2>3, <2>4, QuietStep
<1> QED
  BY <1>1, <1>2, <1>3, <1>4 DEF MlStep

-----------------------------------------------------------------------------
(* The sandbox worker.                                                     *)

LEMMA SandboxReadVerdict ==
    ASSUME TypeOK, OneTaskPerFile, VerdictInv, NEW s \in SandboxSlot, SandboxRead(s)
    PROVE  VerdictInv'
<1> DEFINE t == slot[s].task
<1>1. /\ slot[s] # SlotIdle /\ ~ReportInserted(s, t)
      /\ slot' = IF FirstReport(t)
                 THEN [slot EXCEPT ![s].pc = "commit", ![s].row = rep[HashOf[t]]]
                 ELSE [slot EXCEPT ![s] = SlotIdle]
      /\ owner' = owner /\ status' = status /\ rep' = rep /\ dynamic' = dynamic
      /\ cache' = cache /\ mlRisk' = mlRisk /\ reader' = reader /\ ml' = ml
  BY IdleFacts DEF SandboxRead, dbVars, apiVars
<1>2. CASE ~FirstReport(t)
  <2>1. \A v \in SandboxSlot : slot'[v] = slot[v] \/ slot'[v].pc # "commit"
    BY <1>1, <1>2, Queues, IdleFacts
  <2> QED
    BY <1>1, <2>1, QuietStep
<1>3. CASE FirstReport(t)
  <2>1. /\ slot'[s].pc = "commit" /\ slot'[s].task = t /\ slot'[s].row = rep[HashOf[t]]
        /\ \A v \in SandboxSlot \ {s} : slot'[v] = slot[v]
    BY <1>1, <1>3, SlotAt, Queues DEF SandboxJob
  <2>2. t \in Request /\ HashOf[t] \in Hash /\ owner[HashOf[t]] = t
    BY <1>1, SlotAt, InFlightAt DEF OneTaskPerFile
  <2>3. rep[HashOf[t]] # NoReputation => rep[HashOf[t]].risk = mlRisk[HashOf[t]]
    <3>1. Grounds(HashOf[t]) = {mlRisk[HashOf[t]]}
      BY <1>3, <2>2, OneGround DEF FirstReport
    <3> QED
      BY <2>2, <3>1 DEF VerdictInv, RiskFromOneReport, ExplainedRisk
  <2>4. \A v \in SandboxSlot \ {s} : slot[v].pc = "commit" => slot[v].task # t
    BY <1>1 DEF ReportInserted
  <2>5. SessionsHaveRows'
    <3>1. \A v \in SandboxSlot : slot'[v].pc = "commit" /\ slot'[v].row # NoReputation
             => rep[HashOf[slot'[v].task]] # NoReputation
      BY <2>1 DEF VerdictInv, SessionsHaveRows
    <3> QED
      BY <1>1, <3>1 DEF VerdictInv, SessionsHaveRows
  <2>6. OpenReports'
    <3> SUFFICES ASSUME NEW v \in SandboxSlot, slot'[v].pc = "commit"
                 PROVE  /\ dynamic[slot'[v].task] = NoReport
                        /\ slot'[v].row # NoReputation
                              => slot'[v].row.risk = mlRisk[HashOf[slot'[v].task]]
                        /\ \A s2 \in SandboxSlot \ {v} :
                              slot'[s2].pc = "commit" => slot'[s2].task # slot'[v].task
      BY <1>1 DEF OpenReports
    <3>1. CASE v = s
      BY <1>3, <2>1, <2>3, <2>4, <3>1 DEF FirstReport
    <3>2. CASE v # s
      BY <2>1, <2>4, <3>2 DEF VerdictInv, OpenReports
    <3> QED
      BY <3>1, <3>2
  <2>7. RiskFromOneReport'
    BY <1>1, SameGrounds, ExplainedStays DEF VerdictInv
  <2> QED
    BY <1>1, <2>5, <2>6, <2>7
       DEF VerdictInv, OwnersAgree, RowsSighted, ModelRows,
                                  CompletedHasVerdict
<1> QED
  BY <1>2, <1>3

LEMMA SandboxCommitVerdict ==
    ASSUME TypeOK, OneTaskPerFile, VerdictInv, NEW s \in SandboxSlot, SandboxCommit(s)
    PROVE  VerdictInv'
<1> DEFINE t == slot[s].task
           h == HashOf[t]
           row == slot[s].row
           report == slot[s].report
<1>1. /\ slot[s] # SlotIdle /\ slot[s].pc = "commit"
      /\ dynamic' = [dynamic EXCEPT ![t] = report]
      /\ slot' = [slot EXCEPT ![s] = SlotIdle]
      /\ owner' = owner /\ status' = status /\ cache' = cache /\ mlRisk' = mlRisk
      /\ reader' = reader /\ ml' = ml
  BY IdleFacts DEF SandboxCommit, apiVars
<1>2. /\ t \in Request /\ h \in Hash /\ report \in Nat /\ row \in ReputationRow
      /\ owner[h] = t
  BY <1>1, SlotAt, InFlightAt DEF OneTaskPerFile
<1>3. /\ dynamic[t] = NoReport
      /\ row # NoReputation => row.risk = mlRisk[h] /\ rep[h] # NoReputation
      /\ \A v \in SandboxSlot \ {s} : slot[v].pc = "commit" => slot[v].task # t
  BY <1>1 DEF VerdictInv, OpenReports, SessionsHaveRows
<1>4. dynamic'[t] = report /\ report # NoReport /\ \A u \in Request \ {t} : dynamic'[u] = dynamic[u]
  BY <1>1, <1>2 DEF TypeOK, NoReport
<1>5. \A v \in SandboxSlot : slot'[v].pc = "commit" => slot'[v] = slot[v] /\ v # s
  BY <1>1, IdleFacts, Queues
<1>6. /\ \A g \in Hash \ {h} : rep'[g] = rep[g]
      /\ row = NoReputation => rep'[h] = rep[h]
      /\ row # NoReputation =>
            /\ rep'[h].freq = rep[h].freq
            /\ rep'[h].risk = IF Smaller(MaxRisk, row.risk + report) # row.risk
                              THEN Smaller(MaxRisk, row.risk + report)
                              ELSE rep[h].risk
  BY <1>1, SandboxCommitRow
<1>7. rep'[h] # NoReputation => rep'[h].freq > 0
  BY <1>2, <1>3, <1>6 DEF VerdictInv, RowsSighted
<1>8. rep[h] # NoReputation => rep'[h] # NoReputation
  BY <1>2, <1>3, <1>6 DEF VerdictInv, RowsSighted, NoReputation
<1>9. \A g \in Hash : rep[g] # NoReputation => rep'[g] # NoReputation
  BY <1>6, <1>8
<1>10. RowsSighted' /\ CompletedHasVerdict' /\ OwnersAgree' /\ ModelRows'
  BY <1>1, <1>6, <1>7, <1>9
     DEF VerdictInv, RowsSighted, CompletedHasVerdict, OwnersAgree,
                                ModelRows
<1>11. SessionsHaveRows'
  <2>1. \A v \in MlWorker : ml[v].pc = "commit" => HashOf[ml[v].task] \in Hash
    BY MlAt, IdleFacts
  <2>2. \A v \in SandboxSlot : slot[v].pc = "commit" => HashOf[slot[v].task] \in Hash
    BY SlotAt, IdleFacts
  <2> QED
    BY <1>1, <1>5, <1>9, <2>1, <2>2 DEF VerdictInv, SessionsHaveRows
<1>12. OpenReports'
  <2> SUFFICES ASSUME NEW v \in SandboxSlot, slot'[v].pc = "commit"
               PROVE  /\ dynamic'[slot'[v].task] = NoReport
                      /\ slot'[v].row # NoReputation
                            => slot'[v].row.risk = mlRisk[HashOf[slot'[v].task]]
                      /\ \A s2 \in SandboxSlot \ {v} :
                            slot'[s2].pc = "commit" => slot'[s2].task # slot'[v].task
    BY <1>1 DEF OpenReports
  <2>1. slot'[v] = slot[v] /\ v # s /\ slot[v].pc = "commit"
    BY <1>5
  <2>2. slot[v].task \in Request /\ slot[v].task # t
    BY <1>3, <2>1, SlotAt, IdleFacts
  <2> QED
    BY <1>4, <1>5, <2>1, <2>2 DEF VerdictInv, OpenReports
<1>13. RiskFromOneReport'
  <2>0. PICK f \in Hash : f = h
    BY <1>2
  <2>1. Grounds(f) = {mlRisk[f]}
    BY <1>2, <1>3, <2>0, OneGround
  <2>2. Grounds(f)' = {mlRisk[f], Smaller(MaxRisk, mlRisk[f] + report)}
    <3>1. owner'[f] = t /\ t # NoTask /\ mlRisk' = mlRisk
      BY <1>1, <1>2, <2>0, Queues
    <3>2. Reports(f)' = {report}
      BY <1>4, <3>1 DEF Reports
    <3> QED
      BY <3>1, <3>2 DEF Grounds
  <2>3. \A g \in Hash : owner[g] # t => Grounds(g)' = Grounds(g)
    BY <1>1, <1>4, Queues DEF Grounds, Reports
  <2>4. \A g \in Hash : owner[g] = t => g = f
    BY <1>2, <2>0, Queues DEF VerdictInv, OwnersAgree
  <2>5. \A g \in Hash : Grounds(g) \subseteq Grounds(g)'
    <3> TAKE g \in Hash
    <3>1. CASE owner[g] = t
      BY <2>1, <2>2, <2>4, <3>1
    <3>2. CASE owner[g] # t
      BY <2>3, <3>2
    <3> QED
      BY <3>1, <3>2
  <2>6. rep'[h] = rep[h] \/ rep'[h].risk \in Grounds(f)'
    <3>1. CASE row = NoReputation
      BY <1>6, <3>1
    <3>2. CASE row # NoReputation
      <4>1. rep[h].risk = mlRisk[h]
        BY <1>2, <1>3, <2>0, <2>1, <3>2
           DEF VerdictInv, RiskFromOneReport, ExplainedRisk
      <4> QED
        BY <1>3, <1>6, <2>0, <2>2, <3>2, <4>1
    <3> QED
      BY <3>1, <3>2
  <2>7. \A g \in Hash : rep'[g] = rep[g] \/ rep'[g].risk \in Grounds(g)'
    <3> TAKE g \in Hash
    <3>1. CASE g = h
      BY <2>0, <2>6, <3>1
    <3>2. CASE g # h
      BY <1>6, <3>2
    <3> QED
      BY <3>1, <3>2
  <2> QED
    BY <1>1, <2>5, <2>7, ExplainedStays DEF VerdictInv
<1> QED
  BY <1>10, <1>11, <1>12, <1>13 DEF VerdictInv

LEMMA SandboxVerdict ==
    ASSUME TypeOK, OneTaskPerFile, VerdictInv, NEW s \in SandboxSlot,
           SandboxStep(s) \/ SandboxError(s) \/ SandboxRedelivered(s)
    PROVE  VerdictInv'
<1>1. CASE SandboxRead(s)
  BY <1>1, SandboxReadVerdict
<1>2. CASE SandboxCommit(s)
  BY <1>2, SandboxCommitVerdict
<1>3. CASE SandboxRun(s) \/ SandboxMissing(s) \/ SandboxError(s) \/ SandboxRedelivered(s)
  <2>1. /\ owner' = owner /\ status' = status /\ rep' = rep /\ dynamic' = dynamic
        /\ cache' = cache /\ mlRisk' = mlRisk /\ reader' = reader /\ ml' = ml
    BY <1>3
       DEF SandboxRun, SandboxMissing, SandboxError, SandboxRedelivered,
           dbVars,
                workerVars, apiVars
  <2>2. \A v \in SandboxSlot : slot'[v] = slot[v] \/ slot'[v].pc # "commit"
    BY <1>3, Queues, IdleFacts
       DEF SandboxRun, SandboxMissing, SandboxError, SandboxRedelivered,
           workerVars
  <2> QED
    BY <2>1, <2>2, QuietStep
<1> QED
  BY <1>1, <1>2, <1>3 DEF SandboxStep

LEMMA SandboxCrashVerdict ==
    ASSUME TypeOK, VerdictInv, SandboxCrash
    PROVE  VerdictInv'
<1>1. /\ owner' = owner /\ status' = status /\ rep' = rep /\ dynamic' = dynamic
      /\ cache' = cache /\ mlRisk' = mlRisk /\ reader' = reader /\ ml' = ml
  BY DEF SandboxCrash, dbVars, apiVars
<1>2. \A v \in SandboxSlot : slot'[v].pc # "commit"
  BY IdleFacts DEF SandboxCrash
<1> QED
  BY <1>1, <1>2, QuietStep

LEMMA StutterVerdict == VerdictInv /\ UNCHANGED vars => VerdictInv'
BY QuietStep DEF vars, dbVars, workerVars, apiVars

-----------------------------------------------------------------------------
LEMMA InitVerdict == Init => VerdictInv
BY IdleFacts
   DEF Init, VerdictInv, OwnersAgree, RowsSighted, SessionsHaveRows, ModelRows,
       OpenReports,
       CompletedHasVerdict, RiskFromOneReport, ExplainedRisk

LEMMA StepVerdict == TypeOK /\ OneTaskPerFile /\ VerdictInv /\ [Next]_vars => VerdictInv'
<1> SUFFICES ASSUME TypeOK, OneTaskPerFile, VerdictInv, Next \/ UNCHANGED vars
             PROVE  VerdictInv'
  OBVIOUS
<1> QED
  BY UploadVerdict, LookupVerdict, ExpiryVerdict, StaticVerdict, MlVerdict, SandboxVerdict,
     SandboxCrashVerdict, StutterVerdict, Zenon
     DEF Next, Faulty

(* The inductive invariant: what sessions and callbacks hold agrees with   *)
(* the tables (ml_worker.py:38-91, sandbox_worker.py:48-81).               *)
THEOREM VerdictInvAlways == Spec => []VerdictInv
<1>1. Init => VerdictInv
  BY InitVerdict
<1>2. TypeOK /\ OneTaskPerFile /\ VerdictInv /\ [Next]_vars => VerdictInv'
  BY StepVerdict
<1> QED
  BY <1>1, <1>2, TypeCorrect, OneTaskPerFileAlways, PTL DEF Spec

(* ml_worker.py:38-69: whoever sees COMPLETED finds the reputation row, in *)
(* every interleaving of workers, retries and sandbox updates.             *)
THEOREM CompletedHasVerdictAlways == Spec => []CompletedHasVerdict
<1>1. VerdictInv => CompletedHasVerdict
  BY DEF VerdictInv
<1> QED
  BY <1>1, VerdictInvAlways, PTL

(* sandbox_worker.py:51-80: every score in the table, in Redis or in a     *)
(* lookup is the model's, or the model's plus the one report of the task,  *)
(* whatever is delivered twice and whoever else writes the row.            *)
THEOREM RiskFromOneReportAlways == Spec => []RiskFromOneReport
<1>1. VerdictInv => RiskFromOneReport
  BY DEF VerdictInv
<1> QED
  BY <1>1, VerdictInvAlways, PTL

-----------------------------------------------------------------------------
(* The pipeline implements VerdictService.  One more invariant is needed:  *)
(* reports are stored only of the owner of a file; so a file that is       *)
(* submitted starts without one.                                           *)

TracesOwned ==
    \A t \in Request : dynamic[t] # NoReport => owner[HashOf[t]] = t

\* The task a worker holds is in flight.
LEMMA WorkedOn ==
    ASSUME TypeOK, OneTaskPerFile
    PROVE  /\ \A w \in StaticWorker : static[w] # Idle => owner[HashOf[static[w].task]] = static[w].task
           /\ \A w \in MlWorker : ml[w] # MlIdle => owner[HashOf[ml[w].task]] = ml[w].task
           /\ \A s \in SandboxSlot : slot[s] # SlotIdle => owner[HashOf[slot[s].task]] = slot[s].task
           /\ \A r \in Request : upload[r] = "publish" => owner[HashOf[r]] = r
<1>1. \A w \in StaticWorker : static[w] # Idle => static[w].task \in Request
  BY StaticAt
<1>2. \A w \in MlWorker : ml[w] # MlIdle => ml[w].task \in Request
  BY MlAt
<1>3. \A s \in SandboxSlot : slot[s] # SlotIdle => slot[s].task \in Request
  BY SlotAt
<1> QED
  BY <1>1, <1>2, <1>3, InFlightAt DEF OneTaskPerFile

LEMMA TracesStay ==
    ASSUME TypeOK, TracesOwned,
           \A h \in Hash : owner[h] # NoTask => owner'[h] = owner[h],
           \A t \in Request : dynamic'[t] = dynamic[t] \/ owner[HashOf[t]] = t
    PROVE  TracesOwned'
BY Queues DEF TracesOwned

LEMMA UploadTraces ==
    ASSUME TypeOK, TracesOwned, NEW r \in Request,
           UploadStep(r) \/ UploadFails(r) \/ UploadPublishFails(r) \/ UploadKilled(r)
    PROVE  TracesOwned'
<1> USE DEF dbVars, queueVars, workerVars
<1>1. \A h \in Hash : owner[h] # NoTask => owner'[h] = owner[h]
  BY Queues
     DEF UploadStep, UploadSelect, UploadInsert, UploadPublish, UploadFails,
                UploadPublishFails, UploadKilled, Insertable
<1>2. dynamic' = dynamic
  BY DEF UploadStep, UploadSelect, UploadInsert, UploadPublish, UploadFails,
         UploadPublishFails, UploadKilled
<1> QED
  BY <1>1, <1>2, TracesStay

LEMMA StaticTraces ==
    ASSUME TypeOK, TracesOwned, NEW w \in StaticWorker,
           \/ StaticStep(w) \/ StaticError(w) \/ StaticStatusError(w)
           \/ StaticCrash(w) \/ StaticRedelivered(w)
    PROVE  TracesOwned'
<1>1. owner' = owner /\ dynamic' = dynamic
  BY
     DEF StaticStep, StaticReceive, StaticMark, StaticPublish,
         StaticMarkFailed, StaticError,
         StaticStatusError, StaticCrash, StaticRedelivered, dbVars
<1> QED
  BY <1>1, TracesStay

LEMMA MlTraces ==
    ASSUME TypeOK, TracesOwned, NEW w \in MlWorker,
           \/ MlStep(w) \/ MlError(w) \/ MlCommitLost(w) \/ MlCacheLost(w) \/ MlRouteLost(w)
           \/ MlRouteError(w) \/ MlStatusError(w) \/ MlCrash(w) \/ MlRedelivered(w)
    PROVE  TracesOwned'
<1>1. owner' = owner /\ dynamic' = dynamic
  BY
     DEF MlStep, MlReceive, MlRead, MlCommit, MlClash, MlCache, MlRoute,
         MlMarkFailed, MlError,
         MlCommitLost, MlCacheLost, MlRouteLost, MlRouteError, MlStatusError,
         MlCrash,
         MlRedelivered, dbVars
<1> QED
  BY <1>1, TracesStay

LEMMA SandboxTraces ==
    ASSUME TypeOK, OneTaskPerFile, TracesOwned, NEW s \in SandboxSlot,
           SandboxStep(s) \/ SandboxError(s) \/ SandboxRedelivered(s)
    PROVE  TracesOwned'
<1> USE DEF dbVars, queueVars, workerVars, apiVars
<1>1. CASE SandboxCommit(s)
  <2>1. /\ slot[s] # SlotIdle /\ owner' = owner
        /\ dynamic' = [dynamic EXCEPT ![slot[s].task] = slot[s].report]
    BY <1>1, IdleFacts DEF SandboxCommit
  <2>2. \A t \in Request : dynamic'[t] = dynamic[t] \/ t = slot[s].task
    BY <2>1 DEF TypeOK
  <2> QED
    BY <2>1, <2>2, WorkedOn, TracesStay
<1>2. CASE SandboxRun(s) \/ SandboxMissing(s) \/ SandboxRead(s) \/ SandboxError(s)
           \/ SandboxRedelivered(s)
  <2>1. owner' = owner /\ dynamic' = dynamic
    BY <1>2
       DEF SandboxRun, SandboxMissing, SandboxRead, SandboxError,
           SandboxRedelivered
  <2> QED
    BY <2>1, TracesStay
<1> QED
  BY <1>1, <1>2 DEF SandboxStep

LEMMA OtherTraces ==
    ASSUME TypeOK, TracesOwned,
           \/ \E l \in Reader : LookupStep(l)
           \/ \E h \in Hash : CacheExpire(h)
           \/ SandboxCrash
           \/ UNCHANGED vars
    PROVE  TracesOwned'
<1>1. owner' = owner /\ dynamic' = dynamic
  BY
     DEF LookupStep, LookupMiss, LookupFill, CacheExpire, SandboxCrash, vars,
         dbVars
<1> QED
  BY <1>1, TracesStay

LEMMA StepTraces == TypeOK /\ OneTaskPerFile /\ TracesOwned /\ [Next]_vars => TracesOwned'
<1> SUFFICES ASSUME TypeOK, OneTaskPerFile, TracesOwned, Next \/ UNCHANGED vars
             PROVE  TracesOwned'
  OBVIOUS
<1> QED
  BY UploadTraces, StaticTraces, MlTraces, SandboxTraces, OtherTraces, Zenon
     DEF Next, Faulty

LEMMA TracesOwnedAlways == Spec => []TracesOwned
<1>1. Init => TracesOwned
  BY DEF Init, TracesOwned
<1>2. TypeOK /\ OneTaskPerFile /\ TracesOwned /\ [Next]_vars => TracesOwned'
  BY StepTraces
<1> QED
  BY <1>1, <1>2, TypeCorrect, OneTaskPerFileAlways, PTL DEF Spec

-----------------------------------------------------------------------------
(* Steps of the pipeline as steps of the service.                          *)

LEMMA GroundsType == TypeOK => \A h \in Hash : Grounds(h) \subseteq RiskScore
<1> SUFFICES ASSUME TypeOK, NEW h \in Hash PROVE Grounds(h) \subseteq RiskScore
  OBVIOUS
<1>1. mlRisk[h] \in RiskScore
  BY PipelineAssumption DEF TypeOK
<1>2. \A report \in Reports(h) : report \in Nat
  <2>1. /\ owner[h] \in Request \cup {NoTask} /\ Report \subseteq Nat
        /\ \A t \in Request : dynamic[t] \in Report \cup {NoReport}
    BY PipelineAssumption DEF TypeOK
  <2> QED
    BY <2>1 DEF Reports
<1>3. \A report \in Reports(h) : Smaller(MaxRisk, mlRisk[h] + report) \in RiskScore
  BY <1>1, <1>2, CappedSum
<1> QED
  BY <1>1, <1>3 DEF Grounds

\* Every answer is supported, and there is one as soon as there is a row.
LEMMA AnswersSupported ==
    RiskFromOneReport => \A h \in Hash : Answered(h) \subseteq Grounds(h)
BY DEF RiskFromOneReport, ExplainedRisk, Answered

LEMMA AnswerOfRow == \A h \in Hash : Answered(h) = {} <=> rep[h] = NoReputation
BY DEF Answered

LEMMA AnswersAfter ==
    RiskFromOneReport' =>
        \A h \in Hash : /\ Answered(h)' \subseteq Grounds(h)'
                       /\ (Answered(h)' = {} <=> rep'[h] = NoReputation)
<1> SUFFICES ASSUME RiskFromOneReport'
             PROVE  \A h \in Hash : /\ Answered(h)' \subseteq Grounds(h)'
                                   /\ (Answered(h)' = {} <=> rep'[h] = NoReputation)
  OBVIOUS
<1>1. (\A h \in Hash : Answered(h) \subseteq Grounds(h))'
  BY AnswersSupported, PTL
<1>2. (\A h \in Hash : Answered(h) = {} <=> rep[h] = NoReputation)'
  BY AnswerOfRow, PTL
<1> QED
  BY <1>1, <1>2

LEMMA ReviseStep ==
    ASSUME TypeOK', RiskFromOneReport',
           owner' = owner, status' = status,
           \A h \in Hash : Grounds(h) \subseteq Grounds(h)',
           \A h \in Hash : rep'[h] = NoReputation <=> rep[h] = NoReputation
    PROVE  Service!Revise
<1>1. \A h \in Hash : Grounds(h)' \subseteq RiskScore
  <2>1. (\A h \in Hash : Grounds(h) \subseteq RiskScore)'
    BY GroundsType, PTL
  <2> QED
    BY <2>1
<1>2. \A h \in Hash : Answered(h)' \subseteq Grounds(h)'
  BY AnswersAfter
<1>4. \A h \in Hash : Answered(h)' = {} <=> Answered(h) = {}
  BY AnswersAfter, AnswerOfRow
<1>5. \A h \in Hash : SeenStatus(h)' = SeenStatus(h)
  BY DEF SeenStatus
<1> QED
  BY <1>1, <1>2, <1>4, <1>5 DEF Service!Revise

(* A step that changes the status of the file of one task, but does not    *)
(* complete it.                                                            *)
LEMMA TrackStep ==
    ASSUME TypeOK, TypeOK', OwnersAgree, NEW t,
           owner' = owner, rep' = rep, dynamic' = dynamic, cache' = cache, mlRisk' = mlRisk,
           \A h \in Hash : status'[h] = "COMPLETED" => status[h] = "COMPLETED",
           \A h \in Hash : owner[h] # t => status'[h] = status[h]
    PROVE  [Service!Next]_Service!serviceVars
<1>1. \A h : Grounds(h)' = Grounds(h) /\ Answered(h)' = Answered(h)
  BY SameGrounds DEF Answered
<1>2. \A h \in Hash : owner[h] # t \/ owner[h] = NoTask => SeenStatus(h)' = SeenStatus(h)
  BY DEF SeenStatus
<1>3. CASE \E h \in Hash : owner[h] = t /\ t # NoTask /\ SeenStatus(h)' # SeenStatus(h)
  <2>1. PICK h \in Hash : owner[h] = t /\ t # NoTask /\ SeenStatus(h)' # SeenStatus(h)
    BY <1>3
  <2>2. \A g \in Hash \ {h} : SeenStatus(g)' = SeenStatus(g)
    BY <1>2, <2>1 DEF OwnersAgree
  <2>3. SeenStatus(h)' \in Service!Progress /\ SeenStatus(h) # "none"
    BY <2>1 DEF SeenStatus, Shown, Service!Progress, TypeOK, Status
  <2>4. Service!Track(h, SeenStatus(h)')
    BY <1>1, <2>2, <2>3 DEF Service!Track
  <2> QED
    BY <2>3, <2>4 DEF Service!Next
<1>4. CASE \A h \in Hash : SeenStatus(h)' = SeenStatus(h)
  BY <1>1, <1>4 DEF Service!serviceVars
<1> QED
  BY <1>2, <1>3, <1>4

LEMMA UploadService ==
    ASSUME TypeOK, TypeOK', OneTaskPerFile, VerdictInv, VerdictInv', TracesOwned, NEW r \in Request,
           UploadStep(r) \/ UploadFails(r) \/ UploadPublishFails(r) \/ UploadKilled(r)
    PROVE  [Service!Next]_Service!serviceVars
<1> USE DEF dbVars, queueVars, workerVars
<1>1. CASE UploadPublishFails(r) \/ UploadKilled(r)
  <2>1. /\ owner' = owner /\ rep' = rep /\ dynamic' = dynamic /\ cache' = cache
        /\ mlRisk' = mlRisk /\ status' = status
    BY <1>1 DEF UploadPublishFails, UploadKilled
  <2> QED
    BY <2>1, TrackStep DEF VerdictInv
<1>2. CASE UploadInsert(r) /\ Insertable(HashOf[r])
  <2>1. PICK h \in Hash : h = HashOf[r]
    BY Queues
  <2>2. /\ owner[h] = NoTask /\ r # NoTask
        /\ owner' = [owner EXCEPT ![h] = r] /\ status' = [status EXCEPT ![h] = "PENDING"]
        /\ rep' = rep /\ dynamic' = dynamic /\ cache' = cache /\ mlRisk' = mlRisk
    BY <1>2, <2>1, Queues DEF UploadInsert, Insertable
  <2>3. dynamic[r] = NoReport
    BY <2>1, <2>2 DEF TracesOwned
  <2>4. owner'[h] = r /\ status'[h] = "PENDING"
    BY <2>2, Queues
  <2>5. \A g \in Hash \ {h} : owner'[g] = owner[g] /\ status'[g] = status[g]
    BY <2>2, Queues
  <2>6. SeenStatus(h) = "none" /\ SeenStatus(h)' = "open"
    BY <2>2, <2>4 DEF SeenStatus, Shown
  <2>7. \A g \in Hash \ {h} : SeenStatus(g)' = SeenStatus(g)
    BY <2>2, <2>5 DEF SeenStatus
  <2>8. \A g \in Hash : Grounds(g)' = Grounds(g)
    <3>1. Grounds(h) = {mlRisk[h]}
      BY <2>2, OneGround
    <3>2. Reports(h)' = {}
      BY <2>2, <2>3, <2>4 DEF Reports
    <3>3. Grounds(h)' = {mlRisk[h]}
      BY <2>2, <3>2 DEF Grounds
    <3>4. \A g \in Hash \ {h} : Grounds(g)' = Grounds(g)
      BY <2>2, <2>5 DEF Grounds, Reports
    <3> QED
      BY <3>1, <3>3, <3>4
  <2>9. \A g \in Hash : Answered(g)' = Answered(g)
    BY <2>2 DEF Answered
  <2>10. Service!Submit(h)
    BY <2>6, <2>7, <2>8, <2>9 DEF Service!Submit
  <2> QED
    BY <2>10 DEF Service!Next
<1>3. CASE \/ UploadSelect(r) \/ UploadFails(r) \/ UploadPublish(r)
           \/ UploadInsert(r) /\ ~Insertable(HashOf[r])
  <2>1. /\ owner' = owner /\ rep' = rep /\ dynamic' = dynamic /\ cache' = cache
        /\ mlRisk' = mlRisk /\ status' = status
    BY <1>3 DEF UploadSelect, UploadFails, UploadPublish, UploadInsert
  <2> QED
    BY <2>1, TrackStep DEF VerdictInv
<1> QED
  BY <1>1, <1>2, <1>3 DEF UploadStep

LEMMA StaticService ==
    ASSUME TypeOK, TypeOK', VerdictInv, NEW w \in StaticWorker,
           \/ StaticStep(w) \/ StaticError(w) \/ StaticStatusError(w)
           \/ StaticCrash(w) \/ StaticRedelivered(w)
    PROVE  [Service!Next]_Service!serviceVars
<1> USE DEF dbVars, queueVars, workerVars, apiVars
<1>1. /\ owner' = owner /\ rep' = rep /\ dynamic' = dynamic /\ cache' = cache
      /\ mlRisk' = mlRisk
  BY
     DEF StaticStep, StaticReceive, StaticMark, StaticPublish,
         StaticMarkFailed, StaticError,
         StaticStatusError, StaticCrash, StaticRedelivered
<1>2. /\ \A h \in Hash : status'[h] = "COMPLETED" => status[h] = "COMPLETED"
      /\ \A h \in Hash : owner[h] # static[w].task => status'[h] = status[h]
  BY
     DEF StaticStep, StaticReceive, StaticMark, StaticPublish,
         StaticMarkFailed, StaticError,
         StaticStatusError, StaticCrash, StaticRedelivered, SetStatus
<1> QED
  BY <1>1, <1>2, TrackStep DEF VerdictInv

\* The commit of the ML worker is the judgement.
LEMMA MlCommitService ==
    ASSUME TypeOK, TypeOK', OneTaskPerFile, VerdictInv, VerdictInv', NEW w \in MlWorker,
           MlCommit(w) \/ MlCommitLost(w)
    PROVE  [Service!Next]_Service!serviceVars
<1>1. /\ ml[w] # MlIdle /\ MlWrite(w)
      /\ owner' = owner /\ dynamic' = dynamic /\ cache' = cache /\ mlRisk' = mlRisk
  BY IdleFacts DEF MlCommit, MlCommitLost
<1>2. PICK h \in Hash : h = HashOf[ml[w].task]
  BY <1>1, MlAt
<1>3. owner[h] = ml[w].task /\ owner[h] # NoTask
  BY <1>1, <1>2, WorkedOn, MlAt, Queues
<1>4. rep'[h] # NoReputation /\ \A g \in Hash \ {h} : rep'[g] = rep[g]
  BY <1>1, <1>2, MlWriteRow
<1>5. status'[h] = "COMPLETED" /\ \A g \in Hash \ {h} : status'[g] = status[g]
  <2>1. status' = SetStatus(ml[w].task, "COMPLETED")
    BY <1>1 DEF MlWrite
  <2>2. \A g \in Hash \ {h} : owner[g] # ml[w].task
    BY <1>2, <1>3 DEF VerdictInv, OwnersAgree
  <2> QED
    BY <1>3, <2>1, <2>2 DEF SetStatus
<1>6. \A g : Grounds(g)' = Grounds(g)
  BY <1>1, SameGrounds
<1>7. Answered(h)' \subseteq Grounds(h) /\ Answered(h)' # {}
  BY <1>4, <1>6, AnswersAfter DEF VerdictInv
<1>8. \A g \in Hash \ {h} : Answered(g)' = Answered(g)
  BY <1>1, <1>4 DEF Answered
<1>9. SeenStatus(h) # "none" /\ SeenStatus(h)' = "completed"
  BY <1>1, <1>3, <1>5 DEF SeenStatus, Shown, TypeOK, Status
<1>10. \A g \in Hash \ {h} : SeenStatus(g)' = SeenStatus(g)
  BY <1>1, <1>5 DEF SeenStatus
<1>11. Service!Judge(h)
  <2>1. [g \in Hash |-> Grounds(g)]' = [g \in Hash |-> Grounds(g)]
    BY <1>6
  <2>2. [g \in Hash |-> Answered(g)]'
           = [[g \in Hash |-> Answered(g)] EXCEPT ![h] = Answered(h)']
    BY <1>8
  <2>3. [g \in Hash |-> SeenStatus(g)]'
           = [[g \in Hash |-> SeenStatus(g)] EXCEPT ![h] = "completed"]
    BY <1>9, <1>10
  <2>4. Answered(h)' \in (SUBSET Grounds(h)) \ {{}}
    BY <1>7
  <2>5. /\ [g \in Hash |-> Grounds(g)][h] = Grounds(h)
        /\ [g \in Hash |-> SeenStatus(g)][h] # "none"
    BY <1>9
  <2>6. \E k \in (SUBSET [g \in Hash |-> Grounds(g)][h]) \ {{}} :
           [g \in Hash |-> Answered(g)]' = [[g \in Hash |-> Answered(g)] EXCEPT ![h] = k]
    BY <2>2, <2>4, <2>5
  <2> QED
    BY <2>1, <2>3, <2>5, <2>6 DEF Service!Judge
<1> QED
  BY <1>11 DEF Service!Next

LEMMA MlService ==
    ASSUME TypeOK, TypeOK', OneTaskPerFile, VerdictInv, VerdictInv', NEW w \in MlWorker,
           \/ MlStep(w) \/ MlError(w) \/ MlCommitLost(w) \/ MlCacheLost(w) \/ MlRouteLost(w)
           \/ MlRouteError(w) \/ MlStatusError(w) \/ MlCrash(w) \/ MlRedelivered(w)
    PROVE  [Service!Next]_Service!serviceVars
<1> USE DEF dbVars, queueVars, workerVars, apiVars
<1>1. CASE MlCommit(w) \/ MlCommitLost(w)
  BY <1>1, MlCommitService
<1>2. CASE MlCache(w)
  <2>1. /\ owner' = owner /\ rep' = rep /\ dynamic' = dynamic /\ mlRisk' = mlRisk
        /\ status' = status
    BY <1>2 DEF MlCache
  <2>2. Service!Revise
    BY <2>1, SameGrounds, ReviseStep DEF VerdictInv
  <2> QED
    BY <2>2 DEF Service!Next
<1>3. CASE \/ MlReceive(w) \/ MlRead(w) \/ MlClash(w) \/ MlRoute(w) \/ MlMarkFailed(w)
           \/ MlError(w) \/ MlCacheLost(w) \/ MlRouteLost(w) \/ MlRouteError(w)
           \/ MlStatusError(w) \/ MlCrash(w) \/ MlRedelivered(w)
  <2>1. /\ owner' = owner /\ rep' = rep /\ dynamic' = dynamic /\ cache' = cache
        /\ mlRisk' = mlRisk
    BY <1>3
       DEF MlReceive, MlRead, MlClash, MlRoute, MlMarkFailed, MlError,
           MlCacheLost,
                MlRouteLost, MlRouteError, MlStatusError, MlCrash, MlRedelivered
  <2>2. /\ \A h \in Hash : status'[h] = "COMPLETED" => status[h] = "COMPLETED"
        /\ \A h \in Hash : owner[h] # ml[w].task => status'[h] = status[h]
    BY <1>3
       DEF MlReceive, MlRead, MlClash, MlRoute, MlMarkFailed, MlError,
           MlCacheLost,
                MlRouteLost, MlRouteError, MlStatusError, MlCrash,
                MlRedelivered, SetStatus
  <2> QED
    BY <2>1, <2>2, TrackStep DEF VerdictInv
<1> QED
  BY <1>1, <1>2, <1>3 DEF MlStep

\* A report joins the grounds; a row it is folded into stays a row.
LEMMA SandboxCommitService ==
    ASSUME TypeOK, TypeOK', OneTaskPerFile, VerdictInv, VerdictInv', NEW s \in SandboxSlot,
           SandboxCommit(s)
    PROVE  Service!Revise
<1>1. /\ slot[s] # SlotIdle /\ slot[s].pc = "commit"
      /\ dynamic' = [dynamic EXCEPT ![slot[s].task] = slot[s].report]
      /\ owner' = owner /\ status' = status /\ mlRisk' = mlRisk
  BY IdleFacts DEF SandboxCommit
<1>2. /\ slot[s].task \in Request /\ HashOf[slot[s].task] \in Hash
      /\ slot[s].row \in ReputationRow /\ dynamic[slot[s].task] = NoReport
  BY <1>1, SlotAt DEF VerdictInv, OpenReports
<1>3. \A h \in Hash : Grounds(h) \subseteq Grounds(h)'
  <2> TAKE h \in Hash
  <2>1. CASE owner[h] = slot[s].task
    <3>1. Grounds(h) = {mlRisk[h]}
      BY <1>2, <2>1, OneGround
    <3>2. mlRisk[h] \in Grounds(h)'
      BY <1>1 DEF Grounds
    <3> QED
      BY <3>1, <3>2
  <2>2. CASE owner[h] # slot[s].task
    <3>1. owner[h] # NoTask => dynamic'[owner[h]] = dynamic[owner[h]]
      BY <1>1, <1>2, <2>2, Queues DEF TypeOK
    <3>2. Reports(h)' = Reports(h)
      BY <1>1, <3>1 DEF Reports
    <3> QED
      BY <1>1, <3>2 DEF Grounds
  <2> QED
    BY <2>1, <2>2
<1>4. \A h \in Hash : rep'[h] = NoReputation <=> rep[h] = NoReputation
  <2>1. \A h \in Hash : h # HashOf[slot[s].task] => rep'[h] = rep[h]
    BY <1>1, SandboxCommitRow
  <2>2. slot[s].row = NoReputation => rep'[HashOf[slot[s].task]] = rep[HashOf[slot[s].task]]
    BY <1>1, SandboxCommitRow
  <2>3. slot[s].row # NoReputation =>
           /\ rep[HashOf[slot[s].task]] # NoReputation
           /\ rep'[HashOf[slot[s].task]].freq = rep[HashOf[slot[s].task]].freq
    BY <1>1, SandboxCommitRow DEF VerdictInv, SessionsHaveRows
  <2>4. slot[s].row # NoReputation => rep'[HashOf[slot[s].task]] # NoReputation
    BY <1>2, <2>3 DEF VerdictInv, RowsSighted, NoReputation
  <2> QED
    BY <2>1, <2>2, <2>3, <2>4
<1> QED
  BY <1>1, <1>3, <1>4, ReviseStep DEF VerdictInv

LEMMA SandboxService ==
    ASSUME TypeOK, TypeOK', OneTaskPerFile, VerdictInv, VerdictInv',
           \/ \E s \in SandboxSlot :
                 SandboxStep(s) \/ SandboxError(s) \/ SandboxRedelivered(s)
           \/ SandboxCrash
    PROVE  [Service!Next]_Service!serviceVars
<1>1. ASSUME NEW s \in SandboxSlot, SandboxCommit(s)
      PROVE  [Service!Next]_Service!serviceVars
  BY <1>1, SandboxCommitService DEF Service!Next
<1>2. CASE ~\E s \in SandboxSlot : SandboxCommit(s)
  <2>1. /\ owner' = owner /\ rep' = rep /\ dynamic' = dynamic /\ cache' = cache
        /\ mlRisk' = mlRisk /\ status' = status
    BY <1>2
       DEF SandboxStep, SandboxRun, SandboxMissing, SandboxRead, SandboxError,
                SandboxRedelivered, SandboxCrash, dbVars, workerVars, apiVars
  <2> QED
    BY <2>1, TrackStep DEF VerdictInv
<1> QED
  BY <1>1, <1>2

LEMMA LookupService ==
    ASSUME TypeOK, TypeOK', VerdictInv, VerdictInv',
           (\E l \in Reader : LookupStep(l)) \/ \E h \in Hash : CacheExpire(h)
    PROVE  [Service!Next]_Service!serviceVars
<1>1. /\ owner' = owner /\ rep' = rep /\ dynamic' = dynamic /\ mlRisk' = mlRisk
      /\ status' = status
  BY DEF LookupStep, LookupMiss, LookupFill, CacheExpire, dbVars
<1>2. Service!Revise
  BY <1>1, SameGrounds, ReviseStep DEF VerdictInv
<1> QED
  BY <1>2 DEF Service!Next

LEMMA StepService ==
    ASSUME TypeOK, TypeOK', OneTaskPerFile, VerdictInv, VerdictInv', TracesOwned, [Next]_vars
    PROVE  [Service!Next]_Service!serviceVars
<1>1. CASE UNCHANGED vars
  BY <1>1, TrackStep DEF vars, dbVars, VerdictInv
<1>2. CASE Next
  BY <1>2, UploadService, StaticService, MlService, SandboxService, LookupService, Zenon
     DEF Next, Faulty
<1> QED
  BY <1>1, <1>2

(* Queues, retries, sessions and caches together are the service agents    *)
(* rely on: once a file is submitted its status may go back and forth, but *)
(* no client sees "completed" without a verdict, a verdict turned unknown, *)
(* or an answer without support (routes.py:58-208, the three workers).     *)
THEOREM PipelineIsService == Spec => ImplementsService
<1>1. Init => Service!Init
  <2> SUFFICES ASSUME Init PROVE Service!Init
    OBVIOUS
  <2>1. \A h \in Hash : SeenStatus(h) = "none" /\ Answered(h) = {}
    BY DEF Init, SeenStatus, Answered
  <2>2. \A h \in Hash : Grounds(h) \subseteq RiskScore
    BY InitTypeOK, GroundsType
  <2> QED
    BY <2>1, <2>2 DEF Service!Init
<1>2. /\ TypeOK /\ TypeOK' /\ OneTaskPerFile /\ VerdictInv /\ VerdictInv' /\ TracesOwned
      /\ [Next]_vars
      => [Service!Next]_Service!serviceVars
  BY StepService
<1> QED
  BY <1>1, <1>2, TypeCorrect, OneTaskPerFileAlways, VerdictInvAlways, TracesOwnedAlways, PTL
     DEF Spec, ImplementsService, Service!Spec

-----------------------------------------------------------------------------
(* ExtraSightingsAreFaults.  A pass of the ML worker still to come has a   *)
(* copy of the task somewhere before its commit: the sightings counted so  *)
(* far and the copies that may still count never exceed one and the        *)
(* faults.  A worker may hold an older row than the table's, or the table  *)
(* may have lost a count to one: the bound is kept for every row held.     *)

\* The workers that have a copy of task t before the commit.
Busy(job, t) ==
    {w \in DOMAIN job :
        job[w].task = t /\ job[w].pc \in {"mark", "analyse", "infer", "commit", "error"}}

Copies(job, t) == Cardinality(Busy(job, t))
Unpublished(t) == IF upload[t] = "publish" THEN 1 ELSE 0
Due(t) == Unpublished(t) + staticQ[t] + mlQ[t] + Copies(static, t) + Copies(ml, t)

SightingInv ==
    /\ \A h \in Hash : owner[h] = NoTask => rep[h].freq = 0
    /\ \A r \in Request :
          /\ owner[HashOf[r]] = r => rep[HashOf[r]].freq + Due(r) <= 1 + faults
          /\ \A w \in MlWorker :
                ml[w].pc = "commit" /\ ml[w].task = r =>
                   ml[w].row.freq + Due(r) <= 1 + faults

\* One worker's copy, counted.
Copy(job, w, t) == IF w \in Busy(job, t) THEN 1 ELSE 0

LEMMA LessOne ==
    ASSUME NEW S, IsFiniteSet(S), NEW x
    PROVE  Cardinality(S \ {x}) + (IF x \in S THEN 1 ELSE 0) = Cardinality(S)
<1>1. Cardinality(S) \in Nat
  BY FS_CardinalityType
<1>2. Cardinality(S \ {x}) = IF x \in S THEN Cardinality(S) - 1 ELSE Cardinality(S)
  BY FS_RemoveElement
<1> QED
  BY <1>1, <1>2

LEMMA CopiesOfOne ==
    ASSUME NEW W, IsFiniteSet(W), NEW f, DOMAIN f = W, NEW g, DOMAIN g = W,
           NEW w \in W, \A v \in W \ {w} : g[v] = f[v], NEW t
    PROVE  /\ Copies(f, t) \in Nat /\ Copies(g, t) \in Nat
           /\ Copies(g, t) + Copy(f, w, t) = Copies(f, t) + Copy(g, w, t)
<1>1. IsFiniteSet(Busy(f, t)) /\ IsFiniteSet(Busy(g, t))
  <2>1. Busy(f, t) \in SUBSET W /\ Busy(g, t) \in SUBSET W
    BY DEF Busy
  <2> QED
    BY <2>1, FS_Subset
<1>2. Copies(f, t) \in Nat /\ Copies(g, t) \in Nat
  BY <1>1, FS_CardinalityType DEF Copies
<1>3. Busy(f, t) \ {w} = Busy(g, t) \ {w}
  BY DEF Busy
<1> DEFINE others == Cardinality(Busy(f, t) \ {w})
<1>4. others + Copy(f, w, t) = Copies(f, t)
  BY <1>1, LessOne DEF Copies, Copy
<1>5. others + Copy(g, w, t) = Copies(g, t)
  BY <1>1, <1>3, LessOne DEF Copies, Copy
<1>6. Copy(f, w, t) \in Nat /\ Copy(g, w, t) \in Nat
  BY DEF Copy
<1>7. others \in Nat
  BY <1>1, FS_RemoveElement, FS_CardinalityType
<1> HIDE DEF others
<1> QED
  BY <1>2, <1>4, <1>5, <1>6, <1>7

\* What the sums below are made of.
LEMMA DueType ==
    ASSUME TypeOK, NEW t \in Request
    PROVE  /\ staticQ[t] \in Nat /\ mlQ[t] \in Nat /\ Unpublished(t) \in Nat
           /\ Copies(static, t) \in Nat /\ Copies(ml, t) \in Nat
           /\ Due(t) \in Nat
<1>1. staticQ[t] \in Nat /\ mlQ[t] \in Nat /\ Unpublished(t) \in Nat
  BY Queues DEF Unpublished
<1>2. Busy(static, t) \in SUBSET StaticWorker /\ Busy(ml, t) \in SUBSET MlWorker
  BY Queues DEF Busy
<1>3. Copies(static, t) \in Nat /\ Copies(ml, t) \in Nat
  BY <1>2, PipelineAssumption, FS_Subset, FS_CardinalityType DEF Copies
<1> QED
  BY <1>1, <1>3 DEF Due

\* A step of a static worker: its own copy and the two queues change.
LEMMA StaticCopies ==
    ASSUME TypeOK, TypeOK', NEW w \in StaticWorker, NEW t \in Request,
           \A v \in StaticWorker \ {w} : static'[v] = static[v],
           upload' = upload, ml' = ml
    PROVE  Due(t)' + staticQ[t] + mlQ[t] + Copy(static, w, t)
           = Due(t) + staticQ'[t] + mlQ'[t] + Copy(static', w, t)
<1>1. /\ DOMAIN static = StaticWorker /\ DOMAIN static' = StaticWorker
      /\ IsFiniteSet(StaticWorker)
  BY PipelineAssumption DEF TypeOK
<1>2. Copies(static', t) + Copy(static, w, t) = Copies(static, t) + Copy(static', w, t)
  BY <1>1, CopiesOfOne
<1>3. /\ staticQ'[t] \in Nat /\ mlQ'[t] \in Nat /\ Copies(static', t) \in Nat
      /\ Copy(static, w, t) \in Nat /\ Copy(static', w, t) \in Nat
  <2>1. staticQ'[t] \in Nat /\ mlQ'[t] \in Nat
    BY DEF TypeOK
  <2> QED
    BY <1>1, <2>1, CopiesOfOne DEF Copy
<1>4. Due(t)' = Unpublished(t) + staticQ'[t] + mlQ'[t] + Copies(static', t) + Copies(ml, t)
  BY DEF Due, Unpublished, Copies, Busy
<1> QED
  BY <1>2, <1>3, <1>4, DueType DEF Due

\* The same of an ML worker.
LEMMA MlCopies ==
    ASSUME TypeOK, TypeOK', NEW w \in MlWorker, NEW t \in Request,
           \A v \in MlWorker \ {w} : ml'[v] = ml[v],
           upload' = upload, static' = static, staticQ' = staticQ
    PROVE  Due(t)' + mlQ[t] + Copy(ml, w, t) = Due(t) + mlQ'[t] + Copy(ml', w, t)
<1>1. DOMAIN ml = MlWorker /\ DOMAIN ml' = MlWorker /\ IsFiniteSet(MlWorker)
  BY PipelineAssumption DEF TypeOK
<1>2. Copies(ml', t) + Copy(ml, w, t) = Copies(ml, t) + Copy(ml', w, t)
  BY <1>1, CopiesOfOne
<1>3. /\ mlQ'[t] \in Nat /\ Copies(ml', t) \in Nat
      /\ Copy(ml, w, t) \in Nat /\ Copy(ml', w, t) \in Nat
  <2>1. mlQ'[t] \in Nat
    BY DEF TypeOK
  <2> QED
    BY <1>1, <2>1, CopiesOfOne DEF Copy
<1>4. Due(t)' = Unpublished(t) + staticQ[t] + mlQ'[t] + Copies(static, t) + Copies(ml', t)
  BY DEF Due, Unpublished, Copies, Busy
<1>5. Due(t) = Unpublished(t) + staticQ[t] + mlQ[t] + Copies(static, t) + Copies(ml, t)
  BY DEF Due
<1>6. /\ staticQ[t] \in Nat /\ mlQ[t] \in Nat /\ Unpublished(t) \in Nat
      /\ Copies(static, t) \in Nat /\ Copies(ml, t) \in Nat
  BY DueType
<1> DEFINE due == Due(t)'
           copies == Copies(ml', t)
           old == Copy(ml, w, t)
           new == Copy(ml', w, t)
           waiting == mlQ'[t]
<1> HIDE DEF due, copies, old, new, waiting
<1>7. /\ due = Unpublished(t) + staticQ[t] + waiting + Copies(static, t) + copies
      /\ copies + old = Copies(ml, t) + new
      /\ copies \in Nat /\ old \in Nat /\ new \in Nat /\ waiting \in Nat
  BY <1>2, <1>3, <1>4 DEF due, copies, old, new, waiting
<1>8. due + mlQ[t] + old = Due(t) + waiting + new
  BY <1>5, <1>6, <1>7
<1> QED
  BY <1>8 DEF due, old, new, waiting

\* Where a worker's copy counts.
Counted ==
    \A t \in Request :
        /\ Due(t) \in Nat
        /\ \A w \in StaticWorker :
              Copy(static, w, t) = IF static[w].task = t THEN 1 ELSE 0
        /\ \A w \in MlWorker :
              Copy(ml, w, t) = IF ml[w].task = t /\ ml[w].pc \in {"infer", "commit", "error"}
                               THEN 1 ELSE 0

LEMMA CountedType == TypeOK => Counted
<1> SUFFICES ASSUME TypeOK, NEW t \in Request
             PROVE  /\ Due(t) \in Nat
                    /\ \A w \in StaticWorker :
                          w \in Busy(static, t) <=> static[w].task = t
                    /\ \A w \in MlWorker :
                          w \in Busy(ml, t)
                          <=> ml[w].task = t /\ ml[w].pc \in {"infer", "commit", "error"}
  BY DEF Counted, Copy
<1>1. DOMAIN static = StaticWorker /\ DOMAIN ml = MlWorker /\ t # NoTask
  BY Queues
<1>2. ASSUME NEW w \in StaticWorker
      PROVE  w \in Busy(static, t) <=> static[w].task = t
  <2>1. static[w].task = t => static[w].pc \in {"mark", "analyse", "error"}
    BY <1>1, StaticAt, IdleFacts DEF StaticJob
  <2> QED
    BY <1>1, <2>1 DEF Busy
<1>3. ASSUME NEW w \in MlWorker
      PROVE  w \in Busy(ml, t) <=> ml[w].task = t /\ ml[w].pc \in {"infer", "commit", "error"}
  <2>1. ml[w].task = t => ml[w].pc \in {"infer", "commit", "cache", "route", "error"}
    BY <1>1, MlAt, IdleFacts DEF MlJob
  <2> QED
    BY <1>1, <2>1 DEF Busy
<1> QED
  BY <1>2, <1>3, DueType

\* A step after which no task may be counted more often than faults allow.
LEMMA SightingKept ==
    ASSUME TypeOK, TypeOK', OneTaskPerFile, SightingInv, owner' = owner,
           \A h \in Hash : rep'[h].freq = rep[h].freq,
           \A t \in Request : Due(t)' + faults <= Due(t) + faults',
           \A w \in MlWorker :
              ml'[w].pc = "commit" =>
                 \/ ml'[w] = ml[w]
                 \/ /\ ml[w] # MlIdle /\ ml'[w].task = ml[w].task
                    /\ ml'[w].row = rep[HashOf[ml[w].task]]
    PROVE  SightingInv'
<1>1. faults \in Nat /\ faults' \in Nat
  BY PipelineAssumption DEF TypeOK
<1>2. \A h \in Hash : rep[h].freq \in Nat
  BY DEF TypeOK, ReputationRow
<1>3. Counted /\ Counted'
  BY CountedType, PTL
<1>4. ASSUME NEW t \in Request, NEW n \in Nat, n + Due(t) <= 1 + faults
      PROVE  n + Due(t)' <= 1 + faults'
  <2> DEFINE old == Due(t)
             now == Due(t)'
             late == faults'
  <2>1. now \in Nat /\ old \in Nat /\ late \in Nat
    BY <1>1, <1>3 DEF Counted
  <2>2. now + faults <= old + late /\ n + old <= 1 + faults
    BY <1>4
  <2> HIDE DEF old, now, late
  <2>3. n + now <= 1 + late
    BY <1>1, <2>1, <2>2
  <2> QED
    BY <2>3 DEF now, late
<1>5. ASSUME NEW h \in Hash, owner'[h] = NoTask PROVE rep'[h].freq = 0
  BY <1>5 DEF SightingInv
<1>6. ASSUME NEW r \in Request, owner'[HashOf[r]] = r
      PROVE  rep'[HashOf[r]].freq + Due(r)' <= 1 + faults'
  <2>1. rep'[HashOf[r]].freq = rep[HashOf[r]].freq /\ rep[HashOf[r]].freq \in Nat
    BY <1>2, Queues
  <2>2. rep[HashOf[r]].freq + Due(r) <= 1 + faults
    BY <1>6 DEF SightingInv
  <2> QED
    BY <1>4, <2>1, <2>2
<1>7. ASSUME NEW r \in Request, NEW w \in MlWorker, ml'[w].pc = "commit", ml'[w].task = r
      PROVE  ml'[w].row.freq + Due(r)' <= 1 + faults'
  <2>1. CASE ml'[w] = ml[w]
    <3>1. ml[w].row.freq \in Nat
      BY <1>7, <2>1, MlAt, IdleFacts DEF ReputationRow
    <3>2. ml[w].row.freq + Due(r) <= 1 + faults
      BY <1>7, <2>1 DEF SightingInv
    <3> QED
      BY <1>4, <2>1, <3>1, <3>2
  <2>2. CASE ml[w] # MlIdle /\ ml[w].task = r /\ ml'[w].row = rep[HashOf[r]]
    <3>1. rep[HashOf[r]].freq \in Nat /\ owner[HashOf[r]] = r
      BY <1>2, <2>2, Queues, WorkedOn
    <3>2. rep[HashOf[r]].freq + Due(r) <= 1 + faults
      BY <3>1 DEF SightingInv
    <3> QED
      BY <1>4, <2>2, <3>1, <3>2
  <2> QED
    BY <1>7, <2>1, <2>2
<1> QED
  BY <1>5, <1>6, <1>7 DEF SightingInv

\* Copies published need a fault each, save the one that is confirmed.
LEMMA ConfirmedFaults ==
    ASSUME TypeOK, NEW copies \in 1..MaxAttempts, Confirmed(copies)
    PROVE  copies \in Nat /\ faults' = faults + copies - 1
BY PipelineAssumption DEF TypeOK, Confirmed, Fault

LEMMA NotConfirmedFaults ==
    ASSUME TypeOK, NEW copies \in 0..MaxAttempts, NotConfirmed(copies)
    PROVE  copies \in Nat /\ faults' >= faults + copies /\ faults' >= faults + 1
BY PipelineAssumption DEF TypeOK, NotConfirmed, Fault, Larger

LEMMA StaticDue ==
    ASSUME TypeOK, TypeOK', NEW w \in StaticWorker, NEW t \in Request,
           \/ StaticStep(w) \/ StaticError(w) \/ StaticStatusError(w)
           \/ StaticCrash(w) \/ StaticRedelivered(w)
    PROVE  Due(t)' + faults <= Due(t) + faults'
<1> USE Queues, StaticAt, IdleFacts DEF dbVars, queueVars, workerVars, apiVars
<1> DEFINE was == IF static[w].task = t THEN 1 ELSE 0
           is == IF static'[w].task = t THEN 1 ELSE 0
<1>1. /\ \A v \in StaticWorker \ {w} : static'[v] = static[v]
      /\ upload' = upload /\ ml' = ml
  BY
     DEF StaticStep, StaticReceive, StaticMark, StaticPublish,
         StaticMarkFailed, StaticError,
         StaticStatusError, StaticRetry, StaticCrash, StaticRedelivered
<1>2. faults \in Nat /\ faults' \in Nat
  BY PipelineAssumption DEF TypeOK
<1>3. /\ static[w] # Idle => static[w].task \in Request
      /\ staticQ \in [Request -> Nat] /\ mlQ \in [Request -> Nat]
  OBVIOUS
<1>4. staticQ'[t] + mlQ'[t] + is + faults <= staticQ[t] + mlQ[t] + was + faults'
  <2>1. CASE StaticReceive(w)
    <3>1. PICK u \in Request :
             /\ staticQ[u] > 0
             /\ staticQ' = Taken(staticQ, u)
             /\ static' = [static EXCEPT ![w] = [pc |-> "mark", task |-> u, tries |-> 0]]
      BY <2>1 DEF StaticReceive
    <3>2. staticQ'[t] = IF t = u THEN staticQ[t] - 1 ELSE staticQ[t]
      BY <3>1, TakenType
    <3>3. static'[w].task = u /\ mlQ' = mlQ /\ faults' = faults
      BY <2>1, <3>1 DEF StaticReceive
    <3> QED
      BY <1>2, <3>2, <3>3
  <2>2. CASE StaticMark(w) \/ StaticMarkFailed(w) \/ StaticStatusError(w)
    <3>1. /\ static[w] # Idle /\ staticQ' = staticQ /\ mlQ' = mlQ
      BY <2>2 DEF StaticMark, StaticMarkFailed, StaticStatusError
    <3>2. faults' >= faults
      BY <1>2, <2>2 DEF StaticMark, StaticMarkFailed, StaticStatusError, Fault
    <3>3. static'[w].task = static[w].task \/ static'[w] = Idle
      BY <2>2, <3>1
         DEF StaticMark, StaticMarkFailed, StaticStatusError, StaticRetry,
             StaticJob
    <3>4. is <= was
      BY <3>3
    <3> QED
      BY <1>2, <3>1, <3>2, <3>4
  <2>3. CASE StaticPublish(w)
    <3>1. PICK copies \in 1..MaxAttempts :
             Confirmed(copies) /\ mlQ' = Published(mlQ, static[w].task, copies)
      BY <2>3 DEF StaticPublish
    <3>2. /\ static[w] # Idle /\ staticQ' = staticQ /\ static'[w] = Idle
      BY <2>3 DEF StaticPublish
    <3>3. copies \in Nat /\ faults' = faults + copies - 1
      BY <3>1, ConfirmedFaults
    <3>4. mlQ'[t] = IF static[w].task = t THEN mlQ[t] + copies ELSE mlQ[t]
      BY <1>3, <3>1, <3>2, <3>3 DEF Published
    <3>5. copies >= 1
      BY <3>1
    <3> QED
      BY <1>2, <3>2, <3>3, <3>4, <3>5
  <2>4. CASE StaticError(w)
    <3>1. PICK copies \in 0..MaxAttempts :
             NotConfirmed(copies) /\ mlQ' = Published(mlQ, static[w].task, copies)
      BY <2>4 DEF StaticError
    <3>2. /\ static[w] # Idle /\ staticQ' = staticQ /\ static'[w].task = static[w].task
      BY <2>4 DEF StaticError, StaticJob
    <3>3. copies \in Nat /\ faults' >= faults + copies
      BY <3>1, NotConfirmedFaults
    <3>4. mlQ'[t] = IF static[w].task = t THEN mlQ[t] + copies ELSE mlQ[t]
      BY <1>3, <3>1, <3>2, <3>3 DEF Published
    <3> QED
      BY <1>2, <3>2, <3>3, <3>4
  <2>5. CASE StaticCrash(w) \/ StaticRedelivered(w)
    <3>1. /\ static[w] # Idle /\ staticQ' = Published(staticQ, static[w].task, 1)
          /\ mlQ' = mlQ /\ faults' = faults + 1
          /\ static'[w] = Idle \/ static'[w] = static[w]
      BY <2>5 DEF StaticCrash, StaticRedelivered, Fault
    <3>2. staticQ'[t] = IF static[w].task = t THEN staticQ[t] + 1 ELSE staticQ[t]
      BY <1>3, <3>1 DEF Published
    <3> QED
      BY <1>2, <3>1, <3>2
  <2> QED
    BY <2>1, <2>2, <2>3, <2>4, <2>5 DEF StaticStep
<1>5. /\ Copy(static, w, t) = was /\ Copy(static', w, t) = is
      /\ staticQ'[t] \in Nat /\ mlQ'[t] \in Nat /\ Due(t)' \in Nat
  <2>1. Counted /\ Counted'
    BY CountedType, PTL
  <2> QED
    BY <2>1 DEF Counted, TypeOK
<1>6. Due(t)' + staticQ[t] + mlQ[t] + Copy(static, w, t)
      = Due(t) + staticQ'[t] + mlQ'[t] + Copy(static', w, t)
  BY <1>1, StaticCopies
<1> DEFINE now == Due(t)'
           late == faults'
           waits == staticQ'[t]
           next == mlQ'[t]
<1>7. now + staticQ[t] + mlQ[t] + was = Due(t) + waits + next + is
  BY <1>5, <1>6
<1>8. /\ now \in Nat /\ late \in Nat /\ waits \in Nat /\ next \in Nat
      /\ Due(t) \in Nat /\ staticQ[t] \in Nat /\ mlQ[t] \in Nat
      /\ was \in Nat /\ is \in Nat
  BY <1>2, <1>5, DueType
<1> HIDE DEF now, late, waits, next, was, is
<1>9. waits + next + is + faults <= staticQ[t] + mlQ[t] + was + late
  BY <1>4 DEF late, waits, next
<1>10. now + faults <= Due(t) + late
  BY <1>2, <1>7, <1>8, <1>9
<1> QED
  BY <1>10 DEF now, late

LEMMA MlDue ==
    ASSUME TypeOK, TypeOK', NEW w \in MlWorker, NEW t \in Request,
           \/ MlStep(w) \/ MlError(w) \/ MlCommitLost(w) \/ MlCacheLost(w) \/ MlRouteLost(w)
           \/ MlRouteError(w) \/ MlStatusError(w) \/ MlCrash(w) \/ MlRedelivered(w)
    PROVE  /\ Due(t)' + faults <= Due(t) + faults'
           /\ (MlCommit(w) \/ MlCommitLost(w)) /\ ml[w].task = t =>
                 Due(t)' + 1 + faults <= Due(t) + faults'
<1> USE Queues, MlAt, IdleFacts DEF dbVars, queueVars, workerVars, apiVars
<1> DEFINE was == IF ml[w].task = t /\ ml[w].pc \in {"infer", "commit",
"error"} THEN 1 ELSE 0
           is == IF ml'[w].task = t /\ ml'[w].pc \in {"infer", "commit", "error"} THEN 1 ELSE 0
           Commits == MlCommit(w) \/ MlCommitLost(w)
           counted == IF Commits /\ ml[w].task = t THEN 1 ELSE 0
<1>1. /\ \A v \in MlWorker \ {w} : ml'[v] = ml[v]
      /\ upload' = upload /\ static' = static /\ staticQ' = staticQ
  BY
     DEF MlStep, MlReceive, MlRead, MlCommit, MlClash, MlCache, MlRoute,
         MlMarkFailed, MlError,
         MlCommitLost, MlCacheLost, MlRouteLost, MlRouteError, MlStatusError,
         MlRetry, MlCrash,
         MlRedelivered
<1>2. faults \in Nat /\ faults' \in Nat
  BY PipelineAssumption DEF TypeOK
<1>3. /\ ml[w] # MlIdle => ml[w].task \in Request
      /\ mlQ \in [Request -> Nat]
  OBVIOUS
<1>4. mlQ'[t] + is + counted + faults <= mlQ[t] + was + faults'
  <2>1. CASE MlReceive(w)
    <3>1. PICK u \in Request :
             /\ mlQ[u] > 0
             /\ mlQ' = Taken(mlQ, u)
             /\ ml' = [ml EXCEPT ![w] = [pc |-> "infer", task |-> u, tries |-> 0,
                                         row |-> NoReputation]]
      BY <2>1 DEF MlReceive
    <3>2. mlQ'[t] = IF t = u THEN mlQ[t] - 1 ELSE mlQ[t]
      BY <3>1, TakenType
    <3>3. ml'[w].task = u /\ faults' = faults /\ counted = 0
      BY <2>1, <3>1 DEF MlReceive, MlCommit, MlCommitLost
    <3> QED
      BY <1>2, <3>2, <3>3
  <2>2. CASE Commits
    <3>1. /\ ml[w].pc = "commit" /\ mlQ' = mlQ /\ counted = was
          /\ \/ ml'[w].pc = "cache" /\ faults' = faults
             \/ ml'[w].pc = "error" /\ ml'[w].task = ml[w].task /\ faults' = faults + 1
      BY <2>2 DEF MlCommit, MlCommitLost, Fault, MlJob
    <3>2. \/ is = 0 /\ faults' = faults
          \/ is = was /\ faults' = faults + 1
      BY <3>1
    <3>3. was \in 0..1 /\ mlQ[t] \in Nat
      OBVIOUS
    <3> HIDE DEF was, is, counted
    <3> QED
      BY <1>2, <3>1, <3>2, <3>3
  <2>3. CASE ~Commits /\ (\/ MlRead(w) \/ MlClash(w) \/ MlMarkFailed(w) \/ MlStatusError(w)
                         \/ MlError(w))
    <3>1. /\ ml[w] # MlIdle /\ mlQ' = mlQ
          /\ ml[w].pc \in {"infer", "commit", "error"}
      BY <2>3 DEF MlRead, MlClash, MlMarkFailed, MlStatusError, MlError
    <3>2. faults' >= faults
      BY <1>2, <2>3
         DEF MlRead, MlClash, MlMarkFailed, MlStatusError, MlError, Fault
    <3>3. ml'[w].task = ml[w].task \/ ml'[w] = MlIdle
      BY <2>3, <3>1
         DEF MlRead, MlClash, MlMarkFailed, MlStatusError, MlError, MlRetry,
             MlJob
    <3>4. is <= was /\ counted = 0
      BY <2>3, <3>1, <3>3
    <3> QED
      BY <1>2, <3>1, <3>2, <3>4
  <2>4. CASE MlCache(w) \/ MlCacheLost(w) \/ MlRoute(w) \/ MlRouteLost(w)
    <3>1. /\ ml[w].pc \in {"cache", "route"} /\ mlQ' = mlQ
      BY <2>4 DEF MlCache, MlCacheLost, MlRoute, MlRouteLost
    <3>2. faults' >= faults
      BY <1>2, <2>4 DEF MlCache, MlCacheLost, MlRoute, MlRouteLost, Fault
    <3>3. ml'[w].pc \in {"route", "idle"}
      BY <2>4, <3>1 DEF MlCache, MlCacheLost, MlRoute, MlRouteLost, MlJob
    <3>4. is = 0 /\ was = 0 /\ counted = 0
      BY <3>1, <3>3 DEF MlCommit, MlCommitLost
    <3> QED
      BY <1>2, <3>1, <3>2, <3>4
  <2>5. CASE MlRouteError(w)
    <3>1. /\ ml[w].pc = "route" /\ mlQ' = mlQ /\ faults' = faults + 1
      BY <2>5 DEF MlRouteError, Fault
    <3>2. is <= 1 /\ was = 0 /\ counted = 0
      BY <3>1 DEF MlCommit, MlCommitLost
    <3> QED
      BY <1>2, <3>1, <3>2
  <2>6. CASE ~Commits /\ (MlCrash(w) \/ MlRedelivered(w))
    <3>1. /\ ml[w] # MlIdle /\ mlQ' = Published(mlQ, ml[w].task, 1) /\ faults' = faults + 1
          /\ ml'[w] = MlIdle \/ ml'[w] = ml[w]
      BY <2>6 DEF MlCrash, MlRedelivered, Fault
    <3>2. mlQ'[t] = IF ml[w].task = t THEN mlQ[t] + 1 ELSE mlQ[t]
      BY <1>3, <3>1 DEF Published
    <3>3. is <= was /\ counted = 0
      BY <2>6, <3>1
    <3> QED
      BY <1>2, <3>1, <3>2, <3>3
  <2> QED
    BY <2>1, <2>2, <2>3, <2>4, <2>5, <2>6 DEF MlStep
<1>5. /\ Copy(ml, w, t) = was /\ Copy(ml', w, t) = is
      /\ mlQ'[t] \in Nat /\ Due(t)' \in Nat
  <2>1. Counted /\ Counted'
    BY CountedType, PTL
  <2> QED
    BY <2>1 DEF Counted, TypeOK
<1>6. Due(t)' + mlQ[t] + Copy(ml, w, t) = Due(t) + mlQ'[t] + Copy(ml', w, t)
  BY <1>1, MlCopies
<1> DEFINE now == Due(t)'
           late == faults'
           waits == mlQ'[t]
<1>7. now + mlQ[t] + was = Due(t) + waits + is
  BY <1>5, <1>6
<1>8. /\ now \in Nat /\ late \in Nat /\ waits \in Nat
      /\ Due(t) \in Nat /\ mlQ[t] \in Nat
      /\ was \in Nat /\ is \in Nat /\ counted \in Nat
  BY <1>2, <1>5, DueType
<1> HIDE DEF now, late, waits, was, is, counted
<1>9. waits + is + counted + faults <= mlQ[t] + was + late
  BY <1>4 DEF late, waits
<1>10. now + counted + faults <= Due(t) + late
  BY <1>2, <1>7, <1>8, <1>9
<1>11. now + faults <= Due(t) + late
  BY <1>2, <1>8, <1>10
<1> QED
  BY <1>10, <1>11 DEF now, late, counted

LEMMA UploadSightings ==
    ASSUME TypeOK, TypeOK', OneTaskPerFile, SightingInv, NEW r \in Request,
           UploadStep(r) \/ UploadFails(r) \/ UploadPublishFails(r) \/ UploadKilled(r)
    PROVE  SightingInv'
<1> USE Queues DEF dbVars, queueVars, workerVars
<1>1. ml' = ml /\ static' = static /\ mlQ' = mlQ /\ rep' = rep
  BY
     DEF UploadStep, UploadSelect, UploadInsert, UploadPublish, UploadFails,
         UploadPublishFails, UploadKilled
<1>2. /\ Counted /\ Counted'
      /\ faults \in Nat /\ faults' \in Nat
  <2>1. Counted /\ Counted'
    BY CountedType, PTL
  <2> QED
    BY <2>1, PipelineAssumption DEF TypeOK
<1>3. \A t \in Request : Due(t)' + staticQ[t] + Unpublished(t)
                         = Due(t) + staticQ'[t] + Unpublished(t)'
  <2> SUFFICES ASSUME NEW t \in Request
               PROVE  Due(t)' + staticQ[t] + Unpublished(t)
                      = Due(t) + staticQ'[t] + Unpublished(t)'
    OBVIOUS
  <2> DEFINE now == Due(t)'
             waits == staticQ'[t]
             opens == Unpublished(t)'
  <2>1. now = opens + waits + mlQ[t] + Copies(static, t) + Copies(ml, t)
    BY <1>1 DEF Due, Copies, Busy
  <2>2. Due(t) = Unpublished(t) + staticQ[t] + mlQ[t] + Copies(static, t) + Copies(ml, t)
    BY DEF Due
  <2>3. waits \in Nat /\ opens \in Nat
    BY DEF TypeOK, Unpublished
  <2> HIDE DEF now, waits, opens
  <2>4. now + staticQ[t] + Unpublished(t) = Due(t) + waits + opens
    BY <2>1, <2>2, <2>3, DueType
  <2> QED
    BY <2>4 DEF now, waits, opens
<1>4. CASE UploadInsert(r) /\ Insertable(HashOf[r])
  <2>1. /\ owner[HashOf[r]] = NoTask /\ upload[r] = "insert"
        /\ owner' = [owner EXCEPT ![HashOf[r]] = r]
        /\ upload' = [upload EXCEPT ![r] = "publish"]
        /\ staticQ' = staticQ /\ faults' = faults
    BY <1>4 DEF UploadInsert, Insertable
  <2>2. ~InFlight(r)
    BY <2>1 DEF OneTaskPerFile
  <2>3. /\ staticQ[r] = 0 /\ mlQ[r] = 0 /\ upload[r] # "publish"
        /\ \A w \in StaticWorker : static[w].task # r
        /\ \A w \in MlWorker : ml[w].task # r
    BY <2>2, InFlightAt
  <2>4. Due(r)' = 1
    <3>1. Busy(static, r) = {} /\ Busy(ml, r) = {}
      BY <2>3 DEF Busy
    <3>2. Copies(static, r) = 0 /\ Copies(ml, r) = 0
      BY <3>1, FS_EmptySet DEF Copies
    <3>3. Due(r)' = Unpublished(r)' + staticQ[r] + mlQ[r] + Copies(static, r) + Copies(ml, r)
      BY <1>1, <2>1 DEF Due, Copies, Busy
    <3>4. Unpublished(r)' = 1
      BY <2>1 DEF Unpublished
    <3> QED
      BY <2>3, <3>2, <3>3, <3>4
  <2>5. \A t \in Request \ {r} : Due(t)' = Due(t)
    BY <1>1, <2>1 DEF Due, Unpublished, Copies, Busy
  <2>6. \A h \in Hash : rep[h].freq \in Nat
    BY DEF TypeOK, ReputationRow
  <2>7. ASSUME NEW h \in Hash, owner'[h] = NoTask PROVE rep'[h].freq = 0
    BY <1>1, <2>1, <2>7 DEF SightingInv
  <2>8. ASSUME NEW t \in Request, owner'[HashOf[t]] = t
        PROVE  rep'[HashOf[t]].freq + Due(t)' <= 1 + faults'
    <3>1. CASE t = r
      <4>1. rep[HashOf[r]].freq = 0
        BY <2>1 DEF SightingInv
      <4> QED
        BY <1>1, <1>2, <2>1, <2>4, <3>1, <4>1
    <3>2. CASE t # r
      <4>1. owner[HashOf[t]] = t
        BY <2>1, <2>8, <3>2
      <4> QED
        BY <1>1, <2>1, <2>5, <3>2, <4>1 DEF SightingInv
    <3> QED
      BY <3>1, <3>2
  <2>9. ASSUME NEW t \in Request, NEW w \in MlWorker, ml'[w].pc = "commit", ml'[w].task = t
        PROVE  ml'[w].row.freq + Due(t)' <= 1 + faults'
    BY <1>1, <2>1, <2>3, <2>5, <2>9 DEF SightingInv
  <2> QED
    BY <2>7, <2>8, <2>9 DEF SightingInv
<1>5. CASE ~(UploadInsert(r) /\ Insertable(HashOf[r]))
  <2>1. owner' = owner
    BY <1>5
       DEF UploadStep, UploadSelect, UploadInsert, UploadPublish, UploadFails,
                UploadPublishFails, UploadKilled
  <2>2. ASSUME NEW t \in Request
        PROVE  staticQ'[t] + Unpublished(t)' + faults <= staticQ[t] + Unpublished(t) + faults'
    <3>1. CASE UploadSelect(r) \/ UploadInsert(r) \/ UploadFails(r)
      <4>1. staticQ' = staticQ
        BY <3>1 DEF UploadSelect, UploadInsert, UploadFails
      <4>2. faults' >= faults
        BY <1>2, <3>1 DEF UploadSelect, UploadInsert, UploadFails, Fault
      <4>3. Unpublished(t)' = Unpublished(t)
        BY <1>5, <3>1 DEF UploadSelect, UploadInsert, UploadFails, Unpublished
      <4>4. Unpublished(t) \in Nat
        BY DEF Unpublished
      <4> QED
        BY <1>2, <4>1, <4>2, <4>3, <4>4
    <3>2. CASE UploadPublish(r)
      <4>1. PICK copies \in 1..MaxAttempts :
               Confirmed(copies) /\ staticQ' = Published(staticQ, r, copies)
        BY <3>2 DEF UploadPublish
      <4>2. copies \in Nat /\ copies >= 1 /\ faults' = faults + copies - 1
        BY <4>1, ConfirmedFaults
      <4>3. staticQ'[t] = IF r = t THEN staticQ[t] + copies ELSE staticQ[t]
        BY <4>1, <4>2 DEF Published
      <4>4. /\ Unpublished(t)' = IF t = r THEN 0 ELSE Unpublished(t)
            /\ Unpublished(r) = 1 /\ Unpublished(t) \in Nat
        BY <3>2 DEF UploadPublish, Unpublished
      <4> QED
        BY <1>2, <4>2, <4>3, <4>4
    <3>3. CASE UploadPublishFails(r) \/ UploadKilled(r)
      <4>1. PICK copies \in 0..MaxAttempts :
               NotConfirmed(copies) /\ staticQ' = Published(staticQ, r, copies)
        BY <3>3 DEF UploadPublishFails, UploadKilled, UploadNotConfirmed
      <4>2. copies \in Nat /\ faults' >= faults + copies
        BY <4>1, NotConfirmedFaults
      <4>3. staticQ'[t] = IF r = t THEN staticQ[t] + copies ELSE staticQ[t]
        BY <4>1, <4>2 DEF Published
      <4>4. /\ Unpublished(t)' = IF t = r THEN 0 ELSE Unpublished(t)
            /\ Unpublished(r) = 1 /\ Unpublished(t) \in Nat
        <5>1. \E end \in {"failed", "killed"} : upload' = [upload EXCEPT ![r] = end]
          BY <3>3 DEF UploadPublishFails, UploadKilled
        <5>2. upload[r] = "publish"
          BY <3>3 DEF UploadPublishFails, UploadKilled, UploadNotConfirmed
        <5> QED
          BY <5>1, <5>2 DEF Unpublished, TypeOK
      <4> QED
        BY <1>2, <4>2, <4>3, <4>4
    <3> QED
      BY <3>1, <3>2, <3>3 DEF UploadStep
  <2>3. ASSUME NEW t \in Request PROVE Due(t)' + faults <= Due(t) + faults'
    <3> DEFINE now == Due(t)'
               late == faults'
               waits == staticQ'[t]
               opens == Unpublished(t)'
    <3>1. /\ now + staticQ[t] + Unpublished(t) = Due(t) + waits + opens
          /\ waits + opens + faults <= staticQ[t] + Unpublished(t) + late
      BY <1>3, <2>2
    <3>2. now \in Nat /\ late \in Nat /\ waits \in Nat /\ opens \in Nat
      BY <1>2 DEF Counted, TypeOK, Unpublished
    <3> HIDE DEF now, late, waits, opens
    <3>3. now + faults <= Due(t) + late
      BY <1>2, <3>1, <3>2, DueType
    <3> QED
      BY <3>3 DEF now, late
  <2> QED
    BY <1>1, <2>1, <2>3, SightingKept
<1> QED
  BY <1>4, <1>5

LEMMA StaticSightings ==
    ASSUME TypeOK, TypeOK', OneTaskPerFile, SightingInv, NEW w \in StaticWorker,
           \/ StaticStep(w) \/ StaticError(w) \/ StaticStatusError(w)
           \/ StaticCrash(w) \/ StaticRedelivered(w)
    PROVE  SightingInv'
<1>1. owner' = owner /\ rep' = rep /\ ml' = ml
  BY
     DEF StaticStep, StaticReceive, StaticMark, StaticPublish,
         StaticMarkFailed, StaticError,
         StaticStatusError, StaticCrash, StaticRedelivered, dbVars, workerVars
<1>2. \A t \in Request : Due(t)' + faults <= Due(t) + faults'
  BY StaticDue
<1> QED
  BY <1>1, <1>2, SightingKept

\* The commit turns a copy of the task into a sighting of the row it read.
LEMMA MlCommitSightings ==
    ASSUME TypeOK, TypeOK', OneTaskPerFile, SightingInv, NEW w \in MlWorker,
           MlCommit(w) \/ MlCommitLost(w)
    PROVE  SightingInv'
<1> DEFINE t == ml[w].task
           h == HashOf[t]
<1>1. /\ ml[w] # MlIdle /\ ml[w].pc = "commit" /\ MlWrite(w) /\ owner' = owner
      /\ \A v \in MlWorker \ {w} : ml'[v] = ml[v]
      /\ ml'[w].pc # "commit"
  BY Queues, IdleFacts, MlAt DEF MlCommit, MlCommitLost, MlJob
<1>2. /\ t \in Request /\ h \in Hash /\ owner[h] = t /\ t # NoTask
      /\ ml[w].row.freq \in Nat
  BY <1>1, Queues, MlAt, WorkedOn DEF ReputationRow
<1>3. rep'[h].freq = ml[w].row.freq + 1 /\ \A g \in Hash \ {h} : rep'[g] = rep[g]
  BY <1>1, MlWriteRow
<1>4. Counted /\ Counted' /\ faults \in Nat /\ faults' \in Nat
  <2>1. Counted /\ Counted'
    BY CountedType, PTL
  <2> QED
    BY <2>1, PipelineAssumption DEF TypeOK
<1>5. ASSUME NEW g \in Hash, owner'[g] = NoTask PROVE rep'[g].freq = 0
  BY <1>1, <1>2, <1>3, <1>5 DEF SightingInv
<1>6. ASSUME NEW r \in Request, NEW n \in Nat, n + Due(r) <= 1 + faults
      PROVE  /\ n + Due(r)' <= 1 + faults'
             /\ r = t => n + 1 + Due(r)' <= 1 + faults'
  <2> DEFINE old == Due(r)
             now == Due(r)'
             late == faults'
  <2>1. now + faults <= old + late /\ (r = t => now + 1 + faults <= old + late)
    BY MlDue DEF MlStep
  <2>2. now \in Nat /\ old \in Nat /\ late \in Nat /\ n + old <= 1 + faults
    BY <1>4, <1>6 DEF Counted
  <2> HIDE DEF old, now, late
  <2>3. n + now <= 1 + late /\ (r = t => n + 1 + now <= 1 + late)
    BY <1>4, <2>1, <2>2
  <2> QED
    BY <2>3 DEF now, late
<1>7. ASSUME NEW r \in Request, owner'[HashOf[r]] = r
      PROVE  rep'[HashOf[r]].freq + Due(r)' <= 1 + faults'
  <2>1. CASE r = t
    <3>1. ml[w].row.freq + Due(t) <= 1 + faults
      BY <1>1, <1>2 DEF SightingInv
    <3> QED
      BY <1>2, <1>3, <1>6, <2>1, <3>1
  <2>2. CASE r # t
    <3>1. HashOf[r] # h
      BY <1>1, <1>2, <1>7, <2>2
    <3>2. rep'[HashOf[r]] = rep[HashOf[r]] /\ rep[HashOf[r]].freq \in Nat
      BY <1>3, <3>1, Queues DEF TypeOK, ReputationRow
    <3>3. rep[HashOf[r]].freq + Due(r) <= 1 + faults
      BY <1>1, <1>7 DEF SightingInv
    <3> QED
      BY <1>6, <3>2, <3>3
  <2> QED
    BY <2>1, <2>2
<1>8. ASSUME NEW r \in Request, NEW v \in MlWorker, ml'[v].pc = "commit", ml'[v].task = r
      PROVE  ml'[v].row.freq + Due(r)' <= 1 + faults'
  <2>1. v # w /\ ml'[v] = ml[v]
    BY <1>1, <1>8
  <2>2. ml[v].row.freq \in Nat
    BY <1>8, <2>1, MlAt, IdleFacts DEF ReputationRow
  <2>3. ml[v].row.freq + Due(r) <= 1 + faults
    BY <1>8, <2>1 DEF SightingInv
  <2> QED
    BY <1>6, <2>1, <2>2, <2>3
<1> HIDE DEF t, h
<1> QED
  BY <1>5, <1>7, <1>8 DEF SightingInv

\* Any other step of the worker: a row it is to commit is held or just read.
LEMMA MlSession ==
    ASSUME TypeOK, NEW w \in MlWorker, ~(MlCommit(w) \/ MlCommitLost(w)),
           \/ MlStep(w) \/ MlError(w) \/ MlCommitLost(w) \/ MlCacheLost(w) \/ MlRouteLost(w)
           \/ MlRouteError(w) \/ MlStatusError(w) \/ MlCrash(w) \/ MlRedelivered(w)
    PROVE  /\ owner' = owner /\ rep' = rep
           /\ \A v \in MlWorker \ {w} : ml'[v] = ml[v]
           /\ ml'[w].pc = "commit" =>
                 \/ ml'[w] = ml[w]
                 \/ /\ ml[w] # MlIdle /\ ml'[w].task = ml[w].task
                    /\ ml'[w].row = rep[HashOf[ml[w].task]]
<1> USE Queues, MlAt, IdleFacts DEF dbVars, queueVars, workerVars, apiVars
<1>1. /\ owner' = owner /\ rep' = rep
      /\ \A v \in MlWorker \ {w} : ml'[v] = ml[v]
  BY
     DEF MlStep, MlReceive, MlRead, MlClash, MlCache, MlRoute, MlMarkFailed,
         MlError,
         MlCacheLost, MlRouteLost, MlRouteError, MlStatusError, MlRetry,
         MlCrash,
         MlRedelivered
<1>2. ml'[w].pc = "commit" =>
         \/ ml'[w] = ml[w]
         \/ /\ ml[w] # MlIdle /\ ml'[w].task = ml[w].task
            /\ ml'[w].row = rep[HashOf[ml[w].task]]
  <2>1. CASE MlRead(w)
    BY <2>1 DEF MlRead, MlJob
  <2>2. CASE MlReceive(w) \/ MlClash(w) \/ MlCache(w) \/ MlRoute(w) \/ MlError(w)
             \/ MlCacheLost(w) \/ MlRouteLost(w) \/ MlRouteError(w)
    BY <2>2
       DEF MlReceive, MlClash, MlCache, MlRoute, MlError, MlCacheLost,
           MlRouteLost,
                MlRouteError, MlJob
  <2>3. CASE MlMarkFailed(w) \/ MlStatusError(w) \/ MlCrash(w) \/ MlRedelivered(w)
    BY <2>3
       DEF MlMarkFailed, MlStatusError, MlRetry, MlCrash, MlRedelivered, MlJob
  <2> QED
    BY <2>1, <2>2, <2>3 DEF MlStep
<1> QED
  BY <1>1, <1>2

LEMMA MlSightings ==
    ASSUME TypeOK, TypeOK', OneTaskPerFile, SightingInv, NEW w \in MlWorker,
           \/ MlStep(w) \/ MlError(w) \/ MlCommitLost(w) \/ MlCacheLost(w) \/ MlRouteLost(w)
           \/ MlRouteError(w) \/ MlStatusError(w) \/ MlCrash(w) \/ MlRedelivered(w)
    PROVE  SightingInv'
<1>1. CASE MlCommit(w) \/ MlCommitLost(w)
  BY <1>1, MlCommitSightings
<1>2. CASE ~(MlCommit(w) \/ MlCommitLost(w))
  <2>1. \A t \in Request : Due(t)' + faults <= Due(t) + faults'
    BY MlDue
  <2> QED
    BY <1>2, <2>1, MlSession, SightingKept
<1> QED
  BY <1>1, <1>2

\* The sandbox, lookups and expiry leave copies and sightings alone.
LEMMA OtherSightings ==
    ASSUME TypeOK, TypeOK', OneTaskPerFile, SightingInv,
           \/ \E s \in SandboxSlot : SandboxStep(s) \/ SandboxError(s) \/ SandboxRedelivered(s)
           \/ SandboxCrash
           \/ \E l \in Reader : LookupStep(l)
           \/ \E h \in Hash : CacheExpire(h)
           \/ UNCHANGED vars
    PROVE  SightingInv'
<1>1. /\ upload' = upload /\ owner' = owner /\ staticQ' = staticQ /\ mlQ' = mlQ
      /\ static' = static /\ ml' = ml
  BY
     DEF SandboxStep, SandboxRun, SandboxMissing, SandboxRead, SandboxCommit,
         SandboxError,
         SandboxRedelivered, SandboxCrash, LookupStep, LookupMiss, LookupFill,
         CacheExpire,
         vars, dbVars, queueVars, workerVars, apiVars
<1>2. faults \in Nat /\ faults' \in Nat
  BY PipelineAssumption DEF TypeOK
<1>3. faults' >= faults
  <2>1. ASSUME NEW s \in SandboxSlot, SandboxStep(s) \/ SandboxError(s) \/ SandboxRedelivered(s)
        PROVE  faults' = faults \/ faults' = faults + 1
    BY <2>1
       DEF SandboxStep, SandboxRun, SandboxMissing, SandboxRead, SandboxCommit,
                SandboxError, SandboxRedelivered, Fault
  <2>2. ASSUME NEW l \in Reader, LookupStep(l)
        PROVE  faults' = faults \/ faults' = faults + 1
    BY <2>2 DEF LookupStep, LookupMiss, LookupFill, Reached, Fault
  <2>3. CASE SandboxCrash \/ (\E h \in Hash : CacheExpire(h)) \/ UNCHANGED vars
    BY <1>2, <2>3 DEF SandboxCrash, CacheExpire, Fault, vars
  <2> QED
    BY <1>2, <2>1, <2>2, <2>3
<1>4. \A h \in Hash : rep'[h].freq = rep[h].freq
  <2>1. CASE \E s \in SandboxSlot : SandboxCommit(s)
    <3>1. PICK s \in SandboxSlot : SandboxCommit(s) /\ slot[s] # SlotIdle
      BY <2>1, IdleFacts DEF SandboxCommit
    <3> QED
      BY <3>1, SandboxCommitRow
  <2>2. CASE ~\E s \in SandboxSlot : SandboxCommit(s)
    <3>1. rep' = rep
      BY <2>2
         DEF SandboxStep, SandboxRun, SandboxMissing, SandboxRead,
             SandboxError,
                  SandboxRedelivered, SandboxCrash, LookupStep, LookupMiss,
                  LookupFill,
                  CacheExpire, vars, dbVars
    <3> QED
      BY <3>1
  <2> QED
    BY <2>1, <2>2
<1>5. ASSUME NEW t \in Request PROVE Due(t)' + faults <= Due(t) + faults'
  <2>1. Due(t)' = Due(t)
    BY <1>1 DEF Due, Unpublished, Copies, Busy
  <2> QED
    BY <1>2, <1>3, <2>1, DueType
<1> QED
  BY <1>1, <1>4, <1>5, SightingKept

LEMMA InitSightings == Init => SightingInv
<1> SUFFICES ASSUME Init PROVE SightingInv
  OBVIOUS
<1>1. \A t \in Request : owner[HashOf[t]] # t
  BY PipelineAssumption DEF Init
<1>2. \A w \in MlWorker : ml[w].pc # "commit"
  BY IdleFacts DEF Init
<1>3. \A h \in Hash : rep[h].freq = 0
  BY DEF Init, NoReputation
<1> QED
  BY <1>1, <1>2, <1>3 DEF SightingInv

LEMMA StepSightings ==
    TypeOK /\ TypeOK' /\ OneTaskPerFile /\ SightingInv /\ [Next]_vars => SightingInv'
<1> SUFFICES ASSUME TypeOK, TypeOK', OneTaskPerFile, SightingInv, Next \/ UNCHANGED vars
             PROVE  SightingInv'
  OBVIOUS
<1> QED
  BY UploadSightings, StaticSightings, MlSightings, OtherSightings, Zenon
     DEF Next, Faulty

LEMMA SightingInvAlways == Spec => []SightingInv
BY InitSightings, StepSightings, TypeCorrect, OneTaskPerFileAlways, PTL DEF Spec

(* ml_worker.py:52: of the sightings that lower a file's malicious cutoff  *)
(* all but the first are the work of faults, however many workers, uploads *)
(* and redeliveries there are.                                             *)
THEOREM ExtraSightingsAreFaultsAlways == Spec => []ExtraSightingsAreFaults
<1>1. TypeOK /\ VerdictInv /\ SightingInv => ExtraSightingsAreFaults
  <2> SUFFICES ASSUME TypeOK, VerdictInv, SightingInv, NEW h \in Hash
               PROVE  rep[h].freq <= 1 + faults
    BY DEF ExtraSightingsAreFaults
  <2>1. faults \in Nat /\ rep[h].freq \in Nat
    BY PipelineAssumption DEF TypeOK, ReputationRow
  <2>2. CASE owner[h] = NoTask
    BY <2>1, <2>2 DEF SightingInv
  <2>3. CASE owner[h] # NoTask
    <3>1. owner[h] \in Request /\ HashOf[owner[h]] = h
      BY <2>3, Queues DEF VerdictInv, OwnersAgree
    <3>2. rep[h].freq + Due(owner[h]) <= 1 + faults /\ Due(owner[h]) \in Nat
      BY <3>1, DueType DEF SightingInv
    <3> QED
      BY <2>1, <3>2
  <2> QED
    BY <2>2, <2>3
<1> QED
  BY <1>1, SightingInvAlways, TypeCorrect, VerdictInvAlways, PTL

-----------------------------------------------------------------------------
(* RiskDropsOnlyOnSighting, for the one ML worker the deployment starts:   *)
(* it alone writes frequencies, so the count it read is the table's when   *)
(* it commits, and every commit of its changes the count.                  *)

CountsAgree ==
    \A w \in MlWorker :
        ml[w].pc = "commit" => ml[w].row.freq = rep[HashOf[ml[w].task]].freq

RiskKept == \A h \in Hash : rep'[h].freq = rep[h].freq => rep'[h].risk >= rep[h].risk

LEMMA RisksAreNumbers ==
    ASSUME TypeOK, NEW h \in Hash
    PROVE  rep[h].risk \in Int
<1>1. \A row \in ReputationRow : row.risk \in RiskScore
  BY DEF ReputationRow
<1>2. rep[h] \in ReputationRow
  BY DEF TypeOK
<1>3. \A risk \in RiskScore : risk \in Int
  BY DEF RiskScore, MaxRisk
<1> QED
  BY <1>1, <1>2, <1>3

LEMMA SameRows ==
    ASSUME TypeOK, rep' = rep
    PROVE  RiskKept
BY RisksAreNumbers DEF RiskKept

LEMMA OneWorkerRisk ==
    ASSUME TypeOK, CountsAgree, NEW w, MlWorker = {w},
           \/ MlStep(w) \/ MlError(w) \/ MlCommitLost(w) \/ MlCacheLost(w) \/ MlRouteLost(w)
           \/ MlRouteError(w) \/ MlStatusError(w) \/ MlCrash(w) \/ MlRedelivered(w)
    PROVE  CountsAgree' /\ RiskKept
<1>1. CASE MlCommit(w) \/ MlCommitLost(w)
  <2>1. /\ ml[w] # MlIdle /\ ml[w].pc = "commit" /\ MlWrite(w)
        /\ ml'[w].pc # "commit"
    BY <1>1, Queues, IdleFacts, MlAt DEF MlCommit, MlCommitLost, MlJob
  <2> DEFINE h == HashOf[ml[w].task]
  <2>2. /\ rep'[h].freq = rep[h].freq + 1 /\ rep[h].freq \in Nat
        /\ \A g \in Hash \ {h} : rep'[g] = rep[g]
    BY <2>1, MlWriteRow, MlAt DEF CountsAgree, TypeOK, ReputationRow
  <2>3. \A g \in Hash : rep[g].risk \in Int
    BY RisksAreNumbers
  <2> QED
    BY <2>1, <2>2, <2>3 DEF CountsAgree, RiskKept
<1>2. CASE ~(MlCommit(w) \/ MlCommitLost(w))
  BY <1>2, MlSession, SameRows DEF CountsAgree
<1> QED
  BY <1>1, <1>2

LEMMA SandboxRisk ==
    ASSUME TypeOK, OneTaskPerFile, VerdictInv, CountsAgree, NEW s \in SandboxSlot,
           SandboxCommit(s)
    PROVE  CountsAgree' /\ RiskKept
<1> DEFINE t == slot[s].task
           h == HashOf[t]
           row == slot[s].row
           sum == Smaller(MaxRisk, row.risk + slot[s].report)
<1>1. slot[s] # SlotIdle /\ slot[s].pc = "commit" /\ ml' = ml
  BY IdleFacts DEF SandboxCommit
<1>2. /\ t \in Request /\ h \in Hash /\ slot[s].report \in Nat
      /\ owner[h] = t /\ row.risk \in RiskScore
  BY <1>1, SlotAt, WorkedOn DEF ReputationRow
<1>3. /\ dynamic[t] = NoReport
      /\ row # NoReputation => row.risk = mlRisk[h] /\ rep[h] # NoReputation
  BY <1>1 DEF VerdictInv, OpenReports, SessionsHaveRows
<1>4. rep[h] # NoReputation => rep[h].risk = mlRisk[h]
  BY <1>2, <1>3, OneGround DEF VerdictInv, RiskFromOneReport, ExplainedRisk
<1>5. /\ \A g \in Hash \ {h} : rep'[g] = rep[g]
      /\ row = NoReputation => rep'[h] = rep[h]
      /\ row # NoReputation =>
            /\ rep'[h].freq = rep[h].freq
            /\ rep'[h].risk = IF sum # row.risk THEN sum ELSE rep[h].risk
  BY <1>1, SandboxCommitRow
<1>6. sum >= row.risk
  BY <1>2, CappedSum
<1>7. \A g \in Hash : rep[g].risk \in Int
  BY RisksAreNumbers
<1>8. \A g \in Hash : rep'[g].freq = rep[g].freq /\ rep'[g].risk >= rep[g].risk
  BY <1>3, <1>4, <1>5, <1>6, <1>7
<1>9. \A w \in MlWorker : ml[w].pc = "commit" => HashOf[ml[w].task] \in Hash
  BY MlAt, IdleFacts
<1> QED
  BY <1>1, <1>8, <1>9 DEF CountsAgree, RiskKept

LEMMA StepRisk ==
    ASSUME TypeOK, OneTaskPerFile, VerdictInv, CountsAgree, NEW w, MlWorker = {w},
           Next \/ UNCHANGED vars
    PROVE  CountsAgree' /\ RiskKept
<1>1. CASE \E s \in SandboxSlot : SandboxCommit(s)
  BY <1>1, SandboxRisk
<1>2. CASE \/ MlStep(w) \/ MlError(w) \/ MlCommitLost(w) \/ MlCacheLost(w) \/ MlRouteLost(w)
           \/ MlRouteError(w) \/ MlStatusError(w) \/ MlCrash(w) \/ MlRedelivered(w)
  BY <1>2, OneWorkerRisk
<1>3. CASE \/ \E r \in Request :
                 UploadStep(r) \/ UploadFails(r) \/ UploadPublishFails(r) \/ UploadKilled(r)
           \/ \E v \in StaticWorker :
                 \/ StaticStep(v) \/ StaticError(v) \/ StaticStatusError(v)
                 \/ StaticCrash(v) \/ StaticRedelivered(v)
           \/ \E s \in SandboxSlot :
                 \/ SandboxRun(s) \/ SandboxMissing(s) \/ SandboxRead(s)
                 \/ SandboxError(s) \/ SandboxRedelivered(s)
           \/ SandboxCrash
           \/ \E l \in Reader : LookupStep(l)
           \/ \E h \in Hash : CacheExpire(h)
           \/ UNCHANGED vars
  <2>1. rep' = rep /\ ml' = ml
    BY <1>3
       DEF UploadStep, UploadSelect, UploadInsert, UploadPublish, UploadFails,
                UploadPublishFails, UploadKilled, StaticStep, StaticReceive,
                StaticMark, StaticPublish,
                StaticMarkFailed, StaticError, StaticStatusError, StaticCrash,
                StaticRedelivered, SandboxRun, SandboxMissing, SandboxRead,
                SandboxError,
                SandboxRedelivered, SandboxCrash, LookupStep, LookupMiss,
                LookupFill,
                CacheExpire, vars, dbVars, workerVars
  <2> QED
    BY <2>1, SameRows DEF CountsAgree
<1> QED
  BY <1>1, <1>2, <1>3, Zenon DEF Next, Faulty, SandboxStep

(* sandbox_worker.py:62-79: with one ML worker a sandbox transaction that  *)
(* read an older row, or any other step between two inferences of a file,  *)
(* never takes its score back.                                             *)
THEOREM RiskDropsOnlyOnSightingOfOne ==
    ASSUME NEW w, MlWorker = {w}
    PROVE  Spec => RiskDropsOnlyOnSighting
<1>1. Init => CountsAgree
  BY IdleFacts DEF Init, CountsAgree
<1>2. TypeOK /\ OneTaskPerFile /\ VerdictInv /\ CountsAgree /\ [Next]_vars => CountsAgree'
  BY StepRisk
<1>3. TypeOK /\ OneTaskPerFile /\ VerdictInv /\ CountsAgree /\ [Next]_vars
      => [\A h \in Hash : rep'[h].freq = rep[h].freq => rep'[h].risk >= rep[h].risk]_vars
  BY StepRisk DEF RiskKept
<1> QED
  BY <1>1, <1>2, <1>3, TypeCorrect, OneTaskPerFileAlways, VerdictInvAlways, PTL
     DEF Spec, RiskDropsOnlyOnSighting

-----------------------------------------------------------------------------
(* CompletedFinalWithoutFaults.  Before any fault a COMPLETED task has     *)
(* been counted once, which leaves no copy of it to a queue or a worker.   *)

\* A task whose one sighting is in the table has no copy left.
LEMMA NoneDue ==
    ASSUME TypeOK, CompletedHasVerdict, VerdictInv, SightingInv, faults = 0,
           NEW h \in Hash, status[h] = "COMPLETED"
    PROVE  /\ owner[h] \in Request /\ HashOf[owner[h]] = h
           /\ \A w \in StaticWorker : static[w].task # owner[h]
           /\ \A w \in MlWorker :
                 ml[w].task = owner[h] => ml[w].pc \notin {"infer", "commit", "error"}
<1>1. rep[h].freq > 0 /\ rep[h].freq \in Nat
  BY DEF CompletedHasVerdict, VerdictInv, RowsSighted, TypeOK, ReputationRow
<1>2. owner[h] # NoTask
  BY <1>1 DEF SightingInv
<1>3. owner[h] \in Request /\ HashOf[owner[h]] = h
  BY <1>2, Queues DEF VerdictInv, OwnersAgree
<1> DEFINE t == owner[h]
<1>4. Due(t) = 0
  <2>1. rep[h].freq + Due(t) <= 1 + faults /\ Due(t) \in Nat
    BY <1>3, DueType DEF SightingInv
  <2> QED
    BY <1>1, <2>1
<1>5. Copies(static, t) = 0 /\ Copies(ml, t) = 0
  <2>1. /\ staticQ[t] \in Nat /\ mlQ[t] \in Nat /\ Unpublished(t) \in Nat
        /\ Copies(static, t) \in Nat /\ Copies(ml, t) \in Nat
    BY <1>3, DueType
  <2> QED
    BY <1>4, <2>1 DEF Due
<1>6. IsFiniteSet(Busy(static, t)) /\ IsFiniteSet(Busy(ml, t))
  <2>1. Busy(static, t) \in SUBSET StaticWorker /\ Busy(ml, t) \in SUBSET MlWorker
    BY Queues DEF Busy
  <2> QED
    BY <2>1, PipelineAssumption, FS_Subset
<1>7. Busy(static, t) = {} /\ Busy(ml, t) = {}
  BY <1>5, <1>6, FS_EmptySet DEF Copies
<1>8. Counted
  BY CountedType
<1>9. ASSUME NEW w \in StaticWorker PROVE static[w].task # t
  BY <1>3, <1>7, <1>8 DEF Counted, Copy
<1>10. ASSUME NEW w \in MlWorker, ml[w].task = t
       PROVE  ml[w].pc \notin {"infer", "commit", "error"}
  BY <1>3, <1>7, <1>8, <1>10 DEF Counted, Copy
<1> QED
  BY <1>3, <1>9, <1>10

\* Faults are only ever added to.
LEMMA FaultsGrow == TypeOK /\ [Next]_vars => faults \in Nat /\ faults' >= faults
<1> SUFFICES ASSUME TypeOK, [Next]_vars PROVE faults \in Nat /\ faults' >= faults
  OBVIOUS
<1>1. faults \in Nat
  BY PipelineAssumption DEF TypeOK
<1>2. \A n \in Nat : Fault(n) => faults' >= faults
  BY <1>1 DEF Fault
<1>3. faults' = faults => faults' >= faults
  BY <1>1
<1>4. \A copies \in 1..MaxAttempts : Confirmed(copies) => faults' >= faults
  BY <1>2, PipelineAssumption DEF Confirmed
<1>5. \A copies \in 0..MaxAttempts : NotConfirmed(copies) => faults' >= faults
  BY <1>2, PipelineAssumption DEF NotConfirmed, Larger
<1>6. \A c \in Store : Reached(c) => faults' >= faults
  BY <1>2, <1>3 DEF Reached
<1>7. ASSUME NEW r \in Request, UploadStep(r) PROVE faults' >= faults
  BY <1>3, <1>4, <1>7 DEF UploadStep, UploadSelect, UploadInsert, UploadPublish
<1>8. ASSUME NEW w \in StaticWorker, StaticStep(w) PROVE faults' >= faults
  BY <1>3, <1>4, <1>8
     DEF StaticStep, StaticReceive, StaticMark, StaticPublish, StaticMarkFailed
<1>9. ASSUME NEW w \in MlWorker, MlStep(w) PROVE faults' >= faults
  BY <1>3, <1>9
     DEF MlStep, MlReceive, MlRead, MlCommit, MlClash, MlCache, MlRoute,
         MlMarkFailed
<1>10. ASSUME NEW s \in SandboxSlot, SandboxStep(s) PROVE faults' >= faults
  BY <1>3, <1>10
     DEF SandboxStep, SandboxRun, SandboxMissing, SandboxRead, SandboxCommit
<1>11. ASSUME NEW l \in Reader, LookupStep(l) PROVE faults' >= faults
  BY <1>6, <1>11 DEF LookupStep, LookupMiss, LookupFill
<1>12. ASSUME NEW h \in Hash, CacheExpire(h) PROVE faults' >= faults
  BY <1>3, <1>12 DEF CacheExpire
<1>13. ASSUME Faulty PROVE faults' >= faults
  <2>1. ASSUME NEW r \in Request,
               UploadFails(r) \/ UploadPublishFails(r) \/ UploadKilled(r)
        PROVE  faults' >= faults
    BY <1>2, <1>5, <2>1
       DEF UploadFails, UploadPublishFails, UploadKilled, UploadNotConfirmed
  <2>2. ASSUME NEW w \in StaticWorker,
               \/ StaticError(w) \/ StaticStatusError(w) \/ StaticCrash(w)
               \/ StaticRedelivered(w)
        PROVE  faults' >= faults
    BY <1>2, <1>5, <2>2
       DEF StaticError, StaticStatusError, StaticCrash, StaticRedelivered
  <2>3. ASSUME NEW w \in MlWorker,
               \/ MlError(w) \/ MlCommitLost(w) \/ MlCacheLost(w) \/ MlRouteLost(w)
               \/ MlRouteError(w) \/ MlStatusError(w) \/ MlCrash(w) \/ MlRedelivered(w)
        PROVE  faults' >= faults
    BY <1>2, <2>3
       DEF MlError, MlCommitLost, MlCacheLost, MlRouteLost, MlRouteError,
                      MlStatusError, MlCrash, MlRedelivered
  <2>4. ASSUME NEW s \in SandboxSlot, SandboxError(s) \/ SandboxRedelivered(s)
        PROVE  faults' >= faults
    BY <1>2, <2>4 DEF SandboxError, SandboxRedelivered
  <2>5. ASSUME SandboxCrash PROVE faults' >= faults
    BY <1>2, <2>5 DEF SandboxCrash
  <2> QED
    BY <1>13, <2>1, <2>2, <2>3, <2>4, <2>5, Zenon DEF Faulty
<1>14. ASSUME UNCHANGED vars PROVE faults' >= faults
  BY <1>3, <1>14 DEF vars
<1> QED
  BY <1>1, <1>7, <1>8, <1>9, <1>10, <1>11, <1>12, <1>13, <1>14, Zenon DEF Next

(* Uploads are deduplicated, publishes confirmed and messages acked once:  *)
(* only a fault takes a COMPLETED status back, for any number of uploads,  *)
(* workers and attempts.                                                   *)
THEOREM CompletedFinalWithoutFaultsAlways == Spec => CompletedFinalWithoutFaults
<1>1. ASSUME TypeOK, TypeOK', CompletedHasVerdict, VerdictInv, SightingInv, [Next]_vars,
             faults' = 0, NEW h \in Hash, status[h] = "COMPLETED"
      PROVE  status'[h] = "COMPLETED"
  <2>0. faults = 0
    <3>1. faults \in Nat /\ faults' >= faults
      BY <1>1, FaultsGrow
    <3> QED
      BY <1>1, <3>1
  <2>1. /\ owner[h] \in Request /\ HashOf[owner[h]] = h
        /\ \A w \in StaticWorker : static[w].task # owner[h]
        /\ \A w \in MlWorker :
              ml[w].task = owner[h] => ml[w].pc \notin {"infer", "commit", "error"}
    BY <1>1, <2>0, NoneDue
  <2>2. ASSUME NEW t, owner[h] # t, NEW s, status' = SetStatus(t, s)
        PROVE  status'[h] = "COMPLETED"
    BY <1>1, <2>2 DEF SetStatus
  <2>3. ASSUME NEW r \in Request, UploadInsert(r)
        PROVE  status'[h] = "COMPLETED"
    <3>1. HashOf[r] # h \/ ~Insertable(h)
      BY <2>1, PipelineAssumption DEF Insertable
    <3> QED
      BY <1>1, <2>3, <3>1 DEF UploadInsert, TypeOK
  <2>4. ASSUME NEW w \in StaticWorker, StaticMark(w) \/ StaticMarkFailed(w)
        PROVE  status'[h] = "COMPLETED"
    BY <2>1, <2>2, <2>4 DEF StaticMark, StaticMarkFailed
  <2>5. ASSUME NEW w \in MlWorker, MlMarkFailed(w) \/ MlCommit(w) \/ MlCommitLost(w)
        PROVE  status'[h] = "COMPLETED"
    BY <2>1, <2>2, <2>5 DEF MlMarkFailed, MlCommit, MlCommitLost, MlWrite
  <2>6. CASE UNCHANGED status
    BY <1>1, <2>6
  <2> QED
    BY <1>1, <2>3, <2>4, <2>5, <2>6
       DEF Next, Faulty, vars, dbVars, UploadStep, StaticStep, MlStep,
           SandboxStep, LookupStep,
           UploadSelect, UploadPublish, UploadFails, UploadPublishFails,
           UploadKilled,
           StaticReceive, StaticPublish, StaticError, StaticStatusError,
           StaticCrash,
           StaticRedelivered, MlReceive, MlRead, MlClash, MlCache, MlCacheLost,
           MlRoute,
           MlRouteLost, MlRouteError, MlError, MlStatusError, MlCrash,
           MlRedelivered,
           SandboxRun, SandboxMissing, SandboxRead, SandboxCommit, SandboxError,
           SandboxCrash, SandboxRedelivered, LookupMiss, LookupFill, CacheExpire
<1>2. /\ TypeOK /\ TypeOK' /\ CompletedHasVerdict /\ VerdictInv /\ SightingInv /\ [Next]_vars
      => [faults' = 0 =>
             \A h \in Hash : status[h] = "COMPLETED" => status'[h] = "COMPLETED"]_vars
  BY <1>1
<1> QED
  BY <1>2, TypeCorrect, CompletedHasVerdictAlways, VerdictInvAlways, SightingInvAlways, PTL
     DEF Spec, CompletedFinalWithoutFaults

-----------------------------------------------------------------------------
(* LabelFlagged, for the one ML worker the deployment starts.  Until its   *)
(* report is stored a file's label and flag are one verdict, and nobody    *)
(* but the worker writes its row: a session that holds another row than    *)
(* the table's read it before the report.                                  *)

Flagged(row) == row.label = "malicious" => row.malicious
OneVerdict(row) == row.malicious <=> row.label = "malicious"

Unreported(h) == owner[h] = NoTask \/ dynamic[owner[h]] = NoReport

UnreportedRows == \A h \in Hash : Unreported(h) => OneVerdict(rep[h])

SightedRow(h, row) ==
    /\ row = rep[h] \/ (~Unreported(h) /\ OneVerdict(row))
    /\ row.malicious => rep[h].malicious

SightedRows ==
    \A w \in MlWorker :
        ml[w].pc = "commit" => SightedRow(HashOf[ml[w].task], ml[w].row)

ReportedRows == \A s \in SandboxSlot : slot[s].pc = "commit" => OneVerdict(slot[s].row)

FlagInv == LabelFlagged /\ UnreportedRows /\ SightedRows /\ ReportedRows

LEMMA OneVerdictOfNone == OneVerdict(NoReputation)
BY DEF OneVerdict, NoReputation

LEMMA OneVerdictSighted ==
    ASSUME NEW row, NEW risk
    PROVE  OneVerdict(Sighted(row, risk))
BY DEF OneVerdict, Sighted

\* The columns of a session that wrote one verdict over a row it read.
LEMMA FlushedFlag ==
    ASSUME NEW row \in ReputationRow, NEW old \in ReputationRow, NEW new \in ReputationRow,
           OneVerdict(new), Flagged(row), old.malicious => row.malicious,
           old = row \/ OneVerdict(old)
    PROVE  /\ Flagged(Flushed(row, old, new))
           /\ old = row => OneVerdict(Flushed(row, old, new))
<1> DEFINE left == Flushed(row, old, new)
<1>1. /\ left.label = IF new.label # old.label THEN new.label ELSE row.label
      /\ left.malicious = IF new.malicious # old.malicious THEN new.malicious ELSE row.malicious
  BY DEF Flushed
<1>2. row.malicious \in BOOLEAN /\ old.malicious \in BOOLEAN /\ new.malicious \in BOOLEAN
  BY DEF ReputationRow
<1> HIDE DEF left
<1>3. old = row => left.label = new.label /\ left.malicious = new.malicious
  BY <1>1
<1>4. old = row => OneVerdict(left)
  BY <1>3 DEF OneVerdict
<1>5. Flagged(left)
  <2>1. CASE old = row
    BY <1>4, <2>1 DEF Flagged, OneVerdict
  <2>2. CASE OneVerdict(old)
    <3>1. CASE new.label # old.label
      BY <1>1, <1>2, <2>2, <3>1 DEF Flagged, OneVerdict
    <3>2. CASE new.label = old.label
      <4>1. left.label = row.label
        BY <1>1, <3>2
      <4>2. new.malicious = old.malicious
        BY <1>2, <2>2, <3>2 DEF OneVerdict
      <4> QED
        BY <1>1, <4>1, <4>2 DEF Flagged
    <3> QED
      BY <3>1, <3>2
  <2> QED
    BY <2>1, <2>2
<1> QED
  BY <1>4, <1>5 DEF left

\* The columns of a callback that folded a report into a row of one verdict.
LEMMA CombinedFlag ==
    ASSUME NEW row \in ReputationRow, NEW old \in ReputationRow, NEW report \in Nat,
           OneVerdict(row), OneVerdict(old)
    PROVE  LET left == Flushed(row, old, Combined(old, report))
           IN  Flagged(left) /\ (row.malicious => left.malicious)
<1> DEFINE new == Combined(old, report)
           left == Flushed(row, old, new)
           convicts == Smaller(MaxRisk, old.risk + report) > 7500
<1>1. /\ left.label = IF new.label # old.label THEN new.label ELSE row.label
      /\ left.malicious = IF new.malicious # old.malicious THEN new.malicious ELSE row.malicious
  BY DEF Flushed
<1>2. row.malicious \in BOOLEAN /\ old.malicious \in BOOLEAN
  BY DEF ReputationRow
<1>3. /\ new.malicious <=> convicts \/ old.malicious
      /\ new.malicious \in BOOLEAN
      /\ convicts => new.label = "malicious"
      /\ ~convicts /\ new.label # old.label => new.label = "suspicious"
  <2>1. /\ new.malicious = (convicts \/ old.malicious = TRUE)
        /\ new.label = IF convicts THEN "malicious"
                       ELSE IF Smaller(MaxRisk, old.risk + report) > 4000
                            THEN "suspicious" ELSE old.label
    BY DEF Combined
  <2> HIDE DEF new, convicts
  <2>2. new.malicious \in BOOLEAN
    BY <2>1
  <2>3. new.malicious <=> convicts \/ old.malicious
    BY <1>2, <2>1
  <2>4. /\ convicts => new.label = "malicious"
        /\ ~convicts /\ new.label # old.label => new.label = "suspicious"
    BY <2>1
  <2> QED
    BY <2>2, <2>3, <2>4
<1> HIDE DEF new, left, convicts
<1>4. row.malicious => left.malicious
  BY <1>1, <1>2, <1>3
<1>5. ASSUME left.label = "malicious" PROVE left.malicious
  <2>1. CASE new.label # old.label
    <3>1. convicts /\ new.malicious /\ ~old.malicious
      BY <1>1, <1>3, <1>5, <2>1 DEF OneVerdict
    <3> QED
      BY <1>1, <1>2, <1>3, <3>1
  <2>2. CASE new.label = old.label
    <3>1. row.malicious
      BY <1>1, <1>5, <2>2 DEF OneVerdict
    <3> QED
      BY <1>4, <3>1
  <2> QED
    BY <2>1, <2>2
<1> QED
  BY <1>4, <1>5 DEF Flagged, left, new

\* Steps that leave the rows alone and only let go of copies of them.
LEMMA QuietFlags ==
    ASSUME FlagInv, rep' = rep,
           \A h \in Hash : Unreported(h)' => Unreported(h),
           \A w \in MlWorker :
              \/ ml'[w] = ml[w] \/ ml'[w].pc # "commit"
              \/ ml'[w].row = rep[HashOf[ml'[w].task]],
           \A w \in MlWorker : ml'[w].pc = "commit" => HashOf[ml'[w].task] \in Hash,
           \A s \in SandboxSlot :
              \/ slot'[s] = slot[s] \/ slot'[s].pc # "commit" \/ OneVerdict(slot'[s].row)
    PROVE  FlagInv'
<1>1. LabelFlagged'
  BY DEF FlagInv, LabelFlagged
<1>2. UnreportedRows'
  BY DEF FlagInv, UnreportedRows, OneVerdict
<1>3. SightedRows'
  <2>1. ASSUME NEW g \in Hash, NEW row, SightedRow(g, row) \/ row = rep[g]
        PROVE  SightedRow(g, row)'
    BY <2>1 DEF SightedRow, OneVerdict
  <2> SUFFICES ASSUME NEW w \in MlWorker, ml'[w].pc = "commit",
                      NEW g \in Hash, g = HashOf[ml'[w].task], NEW row, row = ml'[w].row
               PROVE  SightedRow(g, row)'
    BY DEF SightedRows, SightedRow, OneVerdict, Unreported
  <2>2. SightedRow(g, row) \/ row = rep[g]
    BY DEF FlagInv, SightedRows
  <2> QED
    BY <2>1, <2>2
<1>4. ReportedRows'
  BY DEF FlagInv, ReportedRows, OneVerdict
<1> QED
  BY <1>1, <1>2, <1>3, <1>4 DEF FlagInv

\* The one ML worker: it writes a verdict of its own, or nothing.
LEMMA MlFlags ==
    ASSUME TypeOK, TypeOK', FlagInv, NEW w, MlWorker = {w},
           \/ MlStep(w) \/ MlError(w) \/ MlCommitLost(w) \/ MlCacheLost(w) \/ MlRouteLost(w)
           \/ MlRouteError(w) \/ MlStatusError(w) \/ MlCrash(w) \/ MlRedelivered(w)
    PROVE  FlagInv'
<1>0. owner' = owner /\ dynamic' = dynamic /\ slot' = slot
  BY
     DEF MlStep, MlReceive, MlRead, MlCommit, MlClash, MlCache, MlRoute,
         MlMarkFailed, MlError,
         MlCommitLost, MlCacheLost, MlRouteLost, MlRouteError, MlStatusError,
         MlCrash,
         MlRedelivered, dbVars, workerVars
<1>1. \A h \in Hash : Unreported(h)' = Unreported(h)
  BY <1>0 DEF Unreported
<1>2. CASE MlCommit(w) \/ MlCommitLost(w)
  <2> DEFINE h == HashOf[ml[w].task]
             old == ml[w].row
             new == MlSighting(w)
  <2>1. /\ ml[w] # MlIdle /\ ml[w].pc = "commit" /\ MlWrite(w) /\ ~MlInsertClash(w)
        /\ ml'[w].pc # "commit"
    BY <1>2, Queues, IdleFacts, MlAt DEF MlCommit, MlCommitLost, MlJob
  <2>2. /\ h \in Hash /\ old \in ReputationRow /\ rep[h] \in ReputationRow
        /\ new \in ReputationRow /\ OneVerdict(new)
    BY <2>1, MlAt, SightedType, OneVerdictSighted DEF MlSighting, TypeOK
  <2>3. /\ \A g \in Hash \ {h} : rep'[g] = rep[g]
        /\ rep'[h] = IF old = NoReputation THEN new ELSE Flushed(rep[h], old, new)
    <3>1. rep' = [rep EXCEPT ![h] = IF old = NoReputation THEN new ELSE Flushed(@, old, new)]
      BY <2>1 DEF MlWrite
    <3> HIDE DEF new, old
    <3> QED
      BY <2>2, <3>1 DEF TypeOK
  <2>4. /\ SightedRow(h, old)
        /\ Flagged(rep[h])
    BY <2>1, <2>2 DEF FlagInv, SightedRows, LabelFlagged, Flagged
  <2>5. /\ Flagged(Flushed(rep[h], old, new))
        /\ old = rep[h] => OneVerdict(Flushed(rep[h], old, new))
    <3> HIDE DEF new, old, h
    <3> QED
      BY <2>2, <2>4, FlushedFlag DEF SightedRow
  <2>6. Flagged(rep'[h]) /\ (Unreported(h) => OneVerdict(rep'[h]))
    <3> HIDE DEF new, old
    <3> QED
      BY <2>2, <2>3, <2>4, <2>5 DEF SightedRow, Flagged, OneVerdict
  <2>7. LabelFlagged'
    <3> HIDE DEF h
    <3> QED
      BY <2>3, <2>6 DEF FlagInv, LabelFlagged, Flagged
  <2>8. UnreportedRows'
    <3>1. \A g \in Hash : Unreported(g) => OneVerdict(rep'[g])
      <4> HIDE DEF h
      <4> QED
        BY <2>3, <2>6 DEF FlagInv, UnreportedRows
    <3> QED
      BY <1>1, <3>1 DEF UnreportedRows, OneVerdict
  <2>9. SightedRows'
    BY <2>1 DEF SightedRows
  <2>10. ReportedRows'
    BY <1>0 DEF FlagInv, ReportedRows, OneVerdict
  <2> QED
    BY <2>7, <2>8, <2>9, <2>10 DEF FlagInv
<1>3. CASE ~(MlCommit(w) \/ MlCommitLost(w))
  <2>1. rep' = rep
    BY <1>3, MlSession
  <2>2. ml'[w].pc = "commit" =>
           /\ HashOf[ml'[w].task] \in Hash
           /\ ml'[w] = ml[w] \/ ml'[w].row = rep[HashOf[ml'[w].task]]
    <3>1. ml'[w].pc = "commit" => ml'[w] \in MlJob
      BY IdleFacts DEF TypeOK
    <3>2. ml'[w].pc = "commit" => HashOf[ml'[w].task] \in Hash
      BY <3>1, Queues DEF MlJob
    <3> QED
      BY <1>3, <3>2, MlSession
  <2> QED
    BY <1>0, <1>1, <2>1, <2>2, QuietFlags
<1> QED
  BY <1>2, <1>3

\* A callback reads a row no report has reached: label and flag agree.
LEMMA SandboxReadFlags ==
    ASSUME TypeOK, OneTaskPerFile, FlagInv, NEW s \in SandboxSlot, SandboxRead(s)
    PROVE  FlagInv'
<1> DEFINE t == slot[s].task
<1>1. /\ slot[s] # SlotIdle /\ owner' = owner /\ rep' = rep /\ dynamic' = dynamic /\ ml' = ml
      /\ slot' = IF FirstReport(t)
                 THEN [slot EXCEPT ![s].pc = "commit", ![s].row = rep[HashOf[t]]]
                 ELSE [slot EXCEPT ![s] = SlotIdle]
  BY IdleFacts DEF SandboxRead, dbVars
<1>2. HashOf[t] \in Hash /\ owner[HashOf[t]] = t
  BY <1>1, SlotAt, WorkedOn
<1>3. FirstReport(t) => OneVerdict(rep[HashOf[t]])
  BY <1>2 DEF FirstReport, FlagInv, UnreportedRows, Unreported
<1>4. ASSUME NEW k \in SandboxSlot
      PROVE  slot'[k] = slot[k] \/ slot'[k].pc # "commit" \/ OneVerdict(slot'[k].row)
  <2>1. CASE k # s
    BY <1>1, <2>1, Queues
  <2>2. CASE k = s /\ FirstReport(t)
    <3>1. slot[s] \in SandboxJob
      BY <1>1, SlotAt
    <3>2. slot'[s].row = rep[HashOf[t]]
      BY <1>1, <2>2, <3>1, Queues DEF SandboxJob
    <3> QED
      BY <1>3, <2>2, <3>2
  <2>3. CASE k = s /\ ~FirstReport(t)
    BY <1>1, <2>3, Queues, IdleFacts
  <2> QED
    BY <2>1, <2>2, <2>3
<1>5. \A h \in Hash : Unreported(h)' = Unreported(h)
  BY <1>1 DEF Unreported
<1>6. \A w \in MlWorker : ml'[w].pc = "commit" => HashOf[ml'[w].task] \in Hash
  BY <1>1, MlAt, IdleFacts
<1> QED
  BY <1>1, <1>4, <1>5, <1>6, QuietFlags

\* Storing the report ends the agreement, but never clears a flag.
LEMMA SandboxCommitFlags ==
    ASSUME TypeOK, OneTaskPerFile, VerdictInv, FlagInv, NEW s \in SandboxSlot, SandboxCommit(s)
    PROVE  FlagInv'
<1> SUFFICES ASSUME NEW t, t = slot[s].task, NEW h, h = HashOf[t],
                    NEW row, row = slot[s].row, NEW report, report = slot[s].report
             PROVE  FlagInv'
  OBVIOUS
<1> DEFINE left == Flushed(rep[h], row, Combined(row, report))
<1>1. /\ slot[s] # SlotIdle /\ slot[s].pc = "commit" /\ ml' = ml /\ owner' = owner
      /\ slot' = [slot EXCEPT ![s] = SlotIdle]
      /\ dynamic' = [dynamic EXCEPT ![t] = report]
      /\ rep' = [rep EXCEPT ![h] = IF row = NoReputation THEN @
                                   ELSE Flushed(@, row, Combined(row, report))]
  BY IdleFacts DEF SandboxCommit
<1>2. /\ t \in Request /\ h \in Hash /\ report \in Nat /\ owner[h] = t
      /\ row \in ReputationRow /\ rep[h] \in ReputationRow
  BY <1>1, SlotAt, WorkedOn DEF TypeOK
<1>3. Unreported(h) /\ OneVerdict(rep[h]) /\ OneVerdict(row)
  BY <1>1, <1>2
     DEF VerdictInv, OpenReports, FlagInv, UnreportedRows, Unreported,
         ReportedRows
<1>4. /\ \A g \in Hash \ {h} : rep'[g] = rep[g]
      /\ rep'[h] = IF row = NoReputation THEN rep[h] ELSE left
  <2> QED
    BY <1>1, <1>2 DEF TypeOK
<1>5. Flagged(left) /\ (rep[h].malicious => left.malicious)
  <2>1. ASSUME NEW r \in ReputationRow, NEW o \in ReputationRow, NEW n \in Nat,
               OneVerdict(r), OneVerdict(o)
        PROVE  /\ Flagged(Flushed(r, o, Combined(o, n)))
               /\ r.malicious => Flushed(r, o, Combined(o, n)).malicious
    BY <2>1, CombinedFlag
  <2> QED
    BY <1>2, <1>3, <2>1
<1>6. Flagged(rep'[h]) /\ (rep[h].malicious => rep'[h].malicious)
  <2> HIDE DEF left
  <2> QED
    BY <1>3, <1>4, <1>5 DEF Flagged, OneVerdict
<1>7. /\ ~Unreported(h)'
      /\ \A g \in Hash \ {h} : Unreported(g)' = Unreported(g)
  <2>1. dynamic'[t] = report /\ \A r \in Request \ {t} : dynamic'[r] = dynamic[r]
    BY <1>1, <1>2 DEF TypeOK
  <2>2. t # NoTask /\ report # NoReport
    BY <1>2, Queues DEF NoReport
  <2>3. \A g \in Hash \ {h} : owner[g] = NoTask \/ owner[g] \in Request \ {t}
    BY Queues DEF VerdictInv, OwnersAgree
  <2> QED
    BY <1>1, <1>2, <2>1, <2>2, <2>3 DEF Unreported
<1>8. LabelFlagged'
  <2> QED
    BY <1>4, <1>6 DEF FlagInv, LabelFlagged, Flagged
<1>9. UnreportedRows'
  <2> QED
    BY <1>4, <1>7 DEF FlagInv, UnreportedRows, OneVerdict
<1>10. SightedRows'
  <2> SUFFICES ASSUME NEW w \in MlWorker, ml[w].pc = "commit",
                      NEW g, g = HashOf[ml[w].task], NEW read, read = ml[w].row
               PROVE  SightedRow(g, read)'
    BY <1>1 DEF SightedRows, SightedRow, OneVerdict, Unreported
  <2>1. g \in Hash /\ SightedRow(g, read)
    BY MlAt, IdleFacts DEF FlagInv, SightedRows
  <2>2. CASE g = h
    <3>1. OneVerdict(read) /\ (read.malicious => rep'[h].malicious)
      BY <1>3, <1>6, <2>1, <2>2 DEF SightedRow
    <3> QED
      BY <1>7, <2>2, <3>1 DEF SightedRow, OneVerdict
  <2>3. CASE g # h
    <3>1. rep'[g] = rep[g] /\ Unreported(g)' = Unreported(g)
      BY <1>4, <1>7, <2>1, <2>3
    <3> QED
      BY <2>1, <3>1 DEF SightedRow, OneVerdict
  <2> QED
    BY <2>2, <2>3
<1>11. ReportedRows'
  <2>1. \A k \in SandboxSlot : slot'[k] = slot[k] \/ slot'[k].pc # "commit"
    BY <1>1, Queues, IdleFacts
  <2> QED
    BY <2>1 DEF FlagInv, ReportedRows, OneVerdict
<1> QED
  BY <1>8, <1>9, <1>10, <1>11 DEF FlagInv

LEMMA StepFlags ==
    ASSUME TypeOK, TypeOK', OneTaskPerFile, VerdictInv, FlagInv, NEW w, MlWorker = {w},
           Next \/ UNCHANGED vars
    PROVE  FlagInv'
<1>0. \A v \in MlWorker : ml[v].pc = "commit" => HashOf[ml[v].task] \in Hash
  BY MlAt, IdleFacts
<1>1. CASE \E s \in SandboxSlot : SandboxRead(s) \/ SandboxCommit(s)
  BY <1>1, SandboxReadFlags, SandboxCommitFlags
<1>2. CASE \/ MlStep(w) \/ MlError(w) \/ MlCommitLost(w) \/ MlCacheLost(w) \/ MlRouteLost(w)
           \/ MlRouteError(w) \/ MlStatusError(w) \/ MlCrash(w) \/ MlRedelivered(w)
  BY <1>2, MlFlags
<1>3. ASSUME NEW s \in SandboxSlot,
             \/ SandboxRun(s) \/ SandboxMissing(s) \/ SandboxError(s)
             \/ SandboxRedelivered(s) \/ SandboxCrash
      PROVE  FlagInv'
  <2>1. owner' = owner /\ rep' = rep /\ dynamic' = dynamic /\ ml' = ml
    BY <1>3
       DEF SandboxRun, SandboxMissing, SandboxError, SandboxRedelivered,
           SandboxCrash,
                dbVars, workerVars
  <2>2. \A k \in SandboxSlot : slot'[k] = slot[k] \/ slot'[k].pc # "commit"
    BY <1>3, Queues, IdleFacts DEF SandboxRun, SandboxMissing, SandboxError,
                                   SandboxRedelivered, SandboxCrash, workerVars
  <2>3. \A h \in Hash : Unreported(h)' = Unreported(h)
    BY <2>1 DEF Unreported
  <2> QED
    BY <1>0, <2>1, <2>2, <2>3, QuietFlags
<1>4. CASE \E r \in Request :
           UploadStep(r) \/ UploadFails(r) \/ UploadPublishFails(r) \/ UploadKilled(r)
  <2>1. dynamic' = dynamic /\ rep' = rep /\ ml' = ml /\ slot' = slot
    BY <1>4
       DEF UploadStep, UploadSelect, UploadInsert, UploadPublish, UploadFails,
                UploadPublishFails, UploadKilled, dbVars, workerVars
  <2>2. \A h \in Hash : owner'[h] = owner[h] \/ owner[h] = NoTask
    BY <1>4, Queues
       DEF UploadStep, UploadSelect, UploadInsert, Insertable, UploadPublish,
                        UploadFails, UploadPublishFails, UploadKilled, dbVars
  <2>3. \A h \in Hash : Unreported(h)' => Unreported(h)
    BY <2>1, <2>2 DEF Unreported
  <2> QED
    BY <1>0, <2>1, <2>3, QuietFlags
<1>5. CASE \/ \E v \in StaticWorker :
                 \/ StaticStep(v) \/ StaticError(v) \/ StaticStatusError(v)
                 \/ StaticCrash(v) \/ StaticRedelivered(v)
           \/ \E l \in Reader : LookupStep(l)
           \/ \E h \in Hash : CacheExpire(h)
           \/ UNCHANGED vars
  <2>1. owner' = owner /\ rep' = rep /\ dynamic' = dynamic /\ ml' = ml /\ slot' = slot
    BY <1>5
       DEF StaticStep, StaticReceive, StaticMark, StaticPublish,
           StaticMarkFailed,
                StaticError, StaticStatusError, StaticCrash, StaticRedelivered,
                LookupStep,
                LookupMiss, LookupFill, CacheExpire, vars, dbVars, workerVars
  <2>2. \A h \in Hash : Unreported(h)' = Unreported(h)
    BY <2>1 DEF Unreported
  <2> QED
    BY <1>0, <2>1, <2>2, QuietFlags
<1>6. CASE SandboxCrash
  BY <1>3, <1>6 DEF SandboxCrash
<1> QED
  BY <1>1, <1>2, <1>3, <1>4, <1>5, <1>6, Zenon DEF Next, Faulty, SandboxStep

LEMMA FlagInvOfOne ==
    ASSUME NEW w, MlWorker = {w}
    PROVE  Spec => []FlagInv
<1>1. Init => FlagInv
  BY IdleFacts, OneVerdictOfNone
     DEF Init, FlagInv, LabelFlagged, UnreportedRows, SightedRows,
         ReportedRows, NoReputation
<1>2. TypeOK /\ TypeOK' /\ OneTaskPerFile /\ VerdictInv /\ FlagInv /\ [Next]_vars => FlagInv'
  BY StepFlags
<1> QED
  BY <1>1, <1>2, TypeCorrect, OneTaskPerFileAlways, VerdictInvAlways, PTL
     DEF Spec

(* sandbox_worker.py:62-81, ml_worker.py:50-69: with one ML worker no       *)
(* order of its sessions and of the callbacks that write the same rows,    *)
(* column by column, leaves the label "malicious" without the flag.        *)
THEOREM LabelFlaggedOfOne ==
    ASSUME NEW w, MlWorker = {w}
    PROVE  Spec => []LabelFlagged
<1>1. FlagInv => LabelFlagged
  BY DEF FlagInv
<1> QED
  BY <1>1, FlagInvOfOne, PTL
=============================================================================

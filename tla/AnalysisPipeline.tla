-------------------------- MODULE AnalysisPipeline --------------------------
(***************************************************************************)
(* The backend's analysis pipeline: upload and hash-lookup handlers of the *)
(* API (backend/api/routes.py), the static, ML and sandbox workers         *)
(* (backend/workers), the three RabbitMQ queues that join them, the        *)
(* file_metadata, reputation and dynamic_features tables and the Redis     *)
(* verdict cache.                                                          *)
(*                                                                         *)
(* A task id is named by the request that minted it.  A queue is a count   *)
(* of messages per task: nothing relies on the order of two tasks, and a   *)
(* redelivered message goes back anywhere.  Each database transaction that *)
(* reads a row and writes it back is two steps, with the session's copy of *)
(* the row kept in between; everything else that suspends at an await is a *)
(* step of its own.                                                        *)
(*                                                                         *)
(* Faults (an exception, a timeout, a lost connection, a killed process)   *)
(* may come at any step; MaxFaults bounds how many a behaviour has.        *)
(***************************************************************************)
EXTENDS Reputation, FiniteSets

CONSTANTS
    Hash,          \* SHA-256 digests
    Request,       \* upload requests; also the task ids they mint
    NoTask, NoHash,  \* no task id, no digest
    HashOf,        \* the digest of the file a request uploads
    StaticWorker, MlWorker,  \* consumers of the first two queues
    SandboxSlot,   \* callbacks the sandbox worker runs at once (prefetch 2)
    Reader,        \* lookup_hash requests being served at once
    MlRisk,        \* risk scores the model may give
    Report,        \* ten times the risk scores the sandbox may report
    MaxAttempts,   \* stop_after_attempt(3) of every tenacity decorator
    MaxFaults      \* bound on the faults of a behaviour

ASSUME PipelineAssumption ==
    /\ HashOf \in [Request -> Hash]
    /\ NoTask \notin Request
    /\ NoHash \notin Hash
    /\ IsFiniteSet(StaticWorker) /\ IsFiniteSet(MlWorker) /\ IsFiniteSet(SandboxSlot)
    /\ MlRisk \subseteq RiskScore
    /\ Report \subseteq Nat
    /\ MaxAttempts \in Nat \ {0}
    /\ MaxFaults \in Nat

VARIABLES
    upload,      \* upload[r]: where the upload handler of request r is
    reply,       \* reply[r]: the task id returned to the client
    owner,       \* owner[h]: file_metadata.task_id of digest h
    status,      \* status[h]: file_metadata.status of digest h
    rep,         \* rep[h]: the reputation row of digest h
    dynamic,     \* dynamic[t]: dynamic_features.risk_score (x10) of task t
    cache,       \* cache[s][h]: entry "hash:<h>" of store s
    staticQ, mlQ, sandboxQ,  \* messages waiting in each queue, per task
    static,      \* static[w]: the message a static worker is processing
    ml,          \* ml[w]: the message an ML worker is processing
    slot,        \* slot[s]: the message a sandbox callback is processing
    reader,      \* reader[l]: a lookup that missed the cache
    mlRisk,      \* mlRisk[h]: the model's score for the file; never changes
    abandoned,   \* history: tasks a publisher or consumer logged it gave up on
                 \* since a message of theirs was last taken up
    faults       \* faults so far

dbVars == <<owner, status, rep, dynamic>>
queueVars == <<staticQ, mlQ, sandboxQ>>
workerVars == <<static, ml, slot>>
apiVars == <<upload, reply, reader>>
vars == <<dbVars, queueVars, workerVars, apiVars, cache, mlRisk, abandoned, faults>>

(* CacheClient keeps verdicts in Redis and, while Redis is out of reach,   *)
(* in a dictionary of its process.  Only the API reads; what a worker puts *)
(* into its own dictionary is as good as lost.                             *)
Store == {"redis", "dictionary"}
NoReport == -1
Status == {"PENDING", "PROCESSING", "COMPLETED", "FAILED"}
Final == {"COMPLETED", "FAILED"}

Idle == [pc |-> "idle", task |-> NoTask, tries |-> 0]
MlIdle == [pc |-> "idle", task |-> NoTask, tries |-> 0, row |-> NoReputation]
SlotIdle == [pc |-> "idle", task |-> NoTask, report |-> NoReport, row |-> NoReputation]
ReaderIdle == [hash |-> NoHash, row |-> NoReputation]

Init ==
    /\ upload = [r \in Request |-> "select"]
    /\ reply = [r \in Request |-> NoTask]
    /\ owner = [h \in Hash |-> NoTask]
    /\ status = [h \in Hash |-> "PENDING"]
    /\ rep = [h \in Hash |-> NoReputation]
    /\ dynamic = [t \in Request |-> NoReport]
    /\ cache = [c \in Store |-> [h \in Hash |-> NoReputation]]
    /\ staticQ = [t \in Request |-> 0]
    /\ mlQ = [t \in Request |-> 0]
    /\ sandboxQ = [t \in Request |-> 0]
    /\ static = [w \in StaticWorker |-> Idle]
    /\ ml = [w \in MlWorker |-> MlIdle]
    /\ slot = [s \in SandboxSlot |-> SlotIdle]
    /\ reader = [l \in Reader |-> ReaderIdle]
    /\ mlRisk \in [Hash -> MlRisk]
    /\ abandoned = {}
    /\ faults = 0

-----------------------------------------------------------------------------
\* n more faults, within the bound.
Fault(n) ==
    /\ faults + n <= MaxFaults
    /\ faults' = faults + n

(* publish_task retries an attempt that failed or timed out, and an        *)
(* attempt that timed out may have reached the queue all the same.  It     *)
(* returns after at least one confirmed copy, or raises after any number.  *)
Published(queue, t, copies) == [queue EXCEPT ![t] = @ + copies]
\* Mutant of Confirmed: an attempt that succeeded does not end the loop.
ConfirmedAgain(copies) == copies \in 1..MaxAttempts /\ Fault(0)

Confirmed(copies) == copies \in 1..MaxAttempts /\ Fault(copies - 1)
NotConfirmed(copies) == copies \in 0..MaxAttempts /\ Fault(Larger(1, copies))

Taken(queue, t) == [queue EXCEPT ![t] = @ - 1]

\* update_task_status and mark_task_failed find the row by its task id.
SetStatus(t, s) == [h \in Hash |-> IF owner[h] = t THEN s ELSE status[h]]

-----------------------------------------------------------------------------
(* POST /upload.  The file is hashed, looked up by digest, stored and      *)
(* inserted with a fresh task id; only then is the task published.         *)

UploadSelect(r) ==
    /\ upload[r] = "select"
    /\ IF owner[HashOf[r]] # NoTask
       THEN /\ upload' = [upload EXCEPT ![r] = "replied"]
            /\ reply' = [reply EXCEPT ![r] = owner[HashOf[r]]]
       ELSE /\ upload' = [upload EXCEPT ![r] = "insert"]
            /\ UNCHANGED reply
    /\ UNCHANGED <<dbVars, queueVars, workerVars, reader, cache, mlRisk, abandoned, faults>>

\* Mutant of Insertable: sha256 is not unique and the later insert wins.
InsertableTwice(h) == TRUE

\* The sha256 column is unique.
Insertable(h) == owner[h] = NoTask

\* A request that lost the race gets an error.
UploadInsert(r) ==
    LET h == HashOf[r] IN
    /\ upload[r] = "insert"
    /\ IF Insertable(h)
       THEN /\ owner' = [owner EXCEPT ![h] = r]
            /\ status' = [status EXCEPT ![h] = "PENDING"]
            /\ upload' = [upload EXCEPT ![r] = "publish"]
       ELSE /\ upload' = [upload EXCEPT ![r] = "failed"]
            /\ UNCHANGED <<owner, status>>
    /\ UNCHANGED <<rep, dynamic, queueVars, workerVars, reply, reader, cache,
                   mlRisk, abandoned, faults>>

\* An exception before the commit, or the API process killed.
UploadFails(r) ==
    /\ upload[r] \in {"select", "insert"}
    /\ Fault(1)
    /\ upload' = [upload EXCEPT ![r] = "failed"]
    /\ UNCHANGED <<dbVars, queueVars, workerVars, reply, reader, cache, mlRisk, abandoned>>

UploadPublish(r) ==
    /\ upload[r] = "publish"
    /\ \E copies \in 1..MaxAttempts :
          /\ Confirmed(copies)
          /\ staticQ' = Published(staticQ, r, copies)
    /\ upload' = [upload EXCEPT ![r] = "replied"]
    /\ reply' = [reply EXCEPT ![r] = r]
    /\ UNCHANGED <<dbVars, mlQ, sandboxQ, workerVars, reader, cache, mlRisk, abandoned>>

UploadNotConfirmed(r) ==
    /\ upload[r] = "publish"
    /\ \E copies \in 0..MaxAttempts :
          /\ NotConfirmed(copies)
          /\ staticQ' = Published(staticQ, r, copies)

(* publish_task raises: the error is logged and the client told that the   *)
(* upload failed, but the row is committed and nothing undoes the insert.  *)
UploadPublishFails(r) ==
    /\ UploadNotConfirmed(r)
    /\ upload' = [upload EXCEPT ![r] = "failed"]
    /\ abandoned' = abandoned \cup {r}
    /\ UNCHANGED <<dbVars, mlQ, sandboxQ, workerVars, reply, reader, cache, mlRisk>>

(* The API process is killed after the commit and before the publish, or   *)
(* during it: nobody logs anything and the client gets no answer.          *)
UploadKilled(r) ==
    /\ UploadNotConfirmed(r)
    /\ upload' = [upload EXCEPT ![r] = "killed"]
    /\ UNCHANGED <<dbVars, mlQ, sandboxQ, workerVars, reply, reader, cache, mlRisk,
                   abandoned>>

-----------------------------------------------------------------------------
(* GET /hash/{sha256}.  A hit returns the cached verdict and changes       *)
(* nothing.  A miss reads the table and, if there is a row, caches it.     *)

\* get_json and set_json use the dictionary only when Redis raises.
Reached(c) == IF c = "redis" THEN UNCHANGED faults ELSE Fault(1)

LookupMiss(l, h) ==
    /\ reader[l] = ReaderIdle
    /\ \E c \in Store : cache[c][h] = NoReputation /\ Reached(c)
    /\ rep[h] # NoReputation
    /\ reader' = [reader EXCEPT ![l] = [hash |-> h, row |-> rep[h]]]
    /\ UNCHANGED <<dbVars, queueVars, workerVars, upload, reply, cache, mlRisk, abandoned>>

LookupFill(l) ==
    /\ reader[l] # ReaderIdle
    /\ \E c \in Store :
          /\ Reached(c)
          /\ cache' = [cache EXCEPT ![c][reader[l].hash] = reader[l].row]
    /\ reader' = [reader EXCEPT ![l] = ReaderIdle]
    /\ UNCHANGED <<dbVars, queueVars, workerVars, upload, reply, mlRisk, abandoned>>

\* Mutant of CacheExpire: SET without EX.
CacheKeeps(h) == FALSE

\* The 24 hours an entry of Redis lives are over; the dictionary's never are.
CacheExpire(h) ==
    /\ cache["redis"][h] # NoReputation
    /\ cache' = [cache EXCEPT !["redis"][h] = NoReputation]
    /\ UNCHANGED <<dbVars, queueVars, workerVars, apiVars, mlRisk, abandoned, faults>>
-----------------------------------------------------------------------------
(* The static worker: mark PROCESSING, fetch and analyse the file, store   *)
(* the features, publish to the ML queue.  An exception after the first    *)
(* step marks the task FAILED before tenacity tries again.                 *)

StaticReceive(w) ==
    /\ static[w] = Idle
    /\ \E t \in Request :
          /\ staticQ[t] > 0
          /\ staticQ' = Taken(staticQ, t)
          /\ static' = [static EXCEPT ![w] = [pc |-> "mark", task |-> t, tries |-> 0]]
          /\ abandoned' = abandoned \ {t}
    /\ UNCHANGED <<dbVars, mlQ, sandboxQ, ml, slot, apiVars, cache, mlRisk, faults>>

StaticMark(w) ==
    /\ static[w].pc = "mark"
    /\ status' = SetStatus(static[w].task, "PROCESSING")
    /\ static' = [static EXCEPT ![w].pc = "analyse"]
    /\ UNCHANGED <<owner, rep, dynamic, queueVars, ml, slot, apiVars, cache, mlRisk,
                   abandoned, faults>>

StaticPublish(w) ==
    /\ static[w].pc = "analyse"
    /\ \E copies \in 1..MaxAttempts :
          /\ Confirmed(copies)
          /\ mlQ' = Published(mlQ, static[w].task, copies)
    /\ static' = [static EXCEPT ![w] = Idle]
    /\ UNCHANGED <<dbVars, staticQ, sandboxQ, ml, slot, apiVars, cache, mlRisk, abandoned>>

StaticError(w) ==
    /\ static[w].pc = "analyse"
    /\ \E copies \in 0..MaxAttempts :
          /\ NotConfirmed(copies)
          /\ mlQ' = Published(mlQ, static[w].task, copies)
    /\ static' = [static EXCEPT ![w].pc = "error"]
    /\ UNCHANGED <<dbVars, staticQ, sandboxQ, ml, slot, apiVars, cache, mlRisk, abandoned>>

\* Mutant of StaticRetry: the exception is swallowed at its first attempt.
StaticRetrySilent(w) ==
    static' = [static EXCEPT ![w] = Idle] /\ UNCHANGED abandoned

(* Tenacity starts the next attempt; after the last one the consumer logs  *)
(* "message_abandoned", swallows the exception and the message is acked.   *)
StaticRetry(w) ==
    IF static[w].tries + 1 < MaxAttempts
    THEN /\ static' = [static EXCEPT ![w].pc = "mark", ![w].tries = @ + 1]
         /\ UNCHANGED abandoned
    ELSE /\ static' = [static EXCEPT ![w] = Idle]
         /\ abandoned' = abandoned \cup {static[w].task}

StaticMarkFailed(w) ==
    /\ static[w].pc = "error"
    /\ status' = SetStatus(static[w].task, "FAILED")
    /\ StaticRetry(w)
    /\ UNCHANGED <<owner, rep, dynamic, queueVars, ml, slot, apiVars, cache, mlRisk, faults>>

\* The database refuses a status update: marking PROCESSING is outside the try.
StaticStatusError(w) ==
    /\ static[w].pc \in {"mark", "error"}
    /\ Fault(1)
    /\ StaticRetry(w)
    /\ UNCHANGED <<dbVars, queueVars, ml, slot, apiVars, cache, mlRisk>>

\* The process dies: the broker requeues the message it had not acked.
StaticCrash(w) ==
    /\ static[w] # Idle
    /\ Fault(1)
    /\ staticQ' = Published(staticQ, static[w].task, 1)
    /\ static' = [static EXCEPT ![w] = Idle]
    /\ UNCHANGED <<dbVars, mlQ, sandboxQ, ml, slot, apiVars, cache, mlRisk, abandoned>>

(* The robust connection drops and reconnects: the broker requeues, the    *)
(* handler goes on, and its ack on the old channel is ignored.             *)
StaticRedelivered(w) ==
    /\ static[w] # Idle
    /\ Fault(1)
    /\ staticQ' = Published(staticQ, static[w].task, 1)
    /\ UNCHANGED <<dbVars, mlQ, sandboxQ, workerVars, apiVars, cache, mlRisk, abandoned>>

-----------------------------------------------------------------------------
(* The ML worker: score, persist the reputation and COMPLETED in one       *)
(* transaction, cache the verdict, forward middling scores to the sandbox. *)

MlReceive(w) ==
    /\ ml[w] = MlIdle
    /\ \E t \in Request :
          /\ mlQ[t] > 0
          /\ mlQ' = Taken(mlQ, t)
          /\ ml' = [ml EXCEPT ![w] = [pc |-> "infer", task |-> t, tries |-> 0,
                                      row |-> NoReputation]]
          /\ abandoned' = abandoned \ {t}
    /\ UNCHANGED <<dbVars, staticQ, sandboxQ, static, slot, apiVars, cache, mlRisk, faults>>

\* evaluate_risk, then the SELECT of persist_reputation.
MlRead(w) ==
    /\ ml[w].pc = "infer"
    /\ ml' = [ml EXCEPT ![w].pc = "commit", ![w].row = rep[HashOf[ml[w].task]]]
    /\ UNCHANGED <<dbVars, queueVars, static, slot, apiVars, cache, mlRisk, abandoned, faults>>

\* Mutant of MlSighting: a new Reputation is built and never added.
MlSightingDropped(w) ==
    IF ml[w].row = NoReputation THEN NoReputation
    ELSE Sighted(ml[w].row, mlRisk[HashOf[ml[w].task]])

\* What the transaction writes for worker w, which holds the row it read.
MlSighting(w) == Sighted(ml[w].row, mlRisk[HashOf[ml[w].task]])

MlWrite(w) ==
    LET h == HashOf[ml[w].task] IN
    /\ rep' = [rep EXCEPT ![h] = IF ml[w].row = NoReputation THEN MlSighting(w)
                                 ELSE Flushed(@, ml[w].row, MlSighting(w))]
    /\ status' = SetStatus(ml[w].task, "COMPLETED")

\* An INSERT fails on the unique sha256 when another worker inserted first.
MlInsertClash(w) ==
    ml[w].row = NoReputation /\ rep[HashOf[ml[w].task]] # NoReputation

MlCommit(w) ==
    /\ ml[w].pc = "commit"
    /\ ~MlInsertClash(w)
    /\ MlWrite(w)
    /\ ml' = [ml EXCEPT ![w].pc = "cache", ![w].row = MlSighting(w)]
    /\ UNCHANGED <<owner, dynamic, queueVars, static, slot, apiVars, cache, mlRisk,
                   abandoned, faults>>

MlClash(w) ==
    /\ ml[w].pc = "commit"
    /\ MlInsertClash(w)
    /\ ml' = [ml EXCEPT ![w].pc = "error", ![w].row = NoReputation]
    /\ UNCHANGED <<dbVars, queueVars, static, slot, apiVars, cache, mlRisk, abandoned, faults>>

\* The connection is lost as the COMMIT is sent: it took effect or not.
MlCommitLost(w) ==
    /\ ml[w].pc = "commit"
    /\ ~MlInsertClash(w)
    /\ Fault(1)
    /\ MlWrite(w)
    /\ ml' = [ml EXCEPT ![w].pc = "error", ![w].row = NoReputation]
    /\ UNCHANGED <<owner, dynamic, queueVars, static, slot, apiVars, cache, mlRisk, abandoned>>

\* Redis gets the verdict as the session holds it, not as the table does.
MlCache(w) ==
    /\ ml[w].pc = "cache"
    /\ cache' = [cache EXCEPT !["redis"][HashOf[ml[w].task]] = ml[w].row]
    /\ ml' = [ml EXCEPT ![w].pc = "route", ![w].row = NoReputation]
    /\ UNCHANGED <<dbVars, queueVars, static, slot, apiVars, mlRisk, abandoned, faults>>

\* Redis is down: the verdict goes to a dictionary of the worker nobody reads.
MlCacheLost(w) ==
    /\ ml[w].pc = "cache"
    /\ Fault(1)
    /\ ml' = [ml EXCEPT ![w].pc = "route", ![w].row = NoReputation]
    /\ UNCHANGED <<dbVars, queueVars, static, slot, apiVars, cache, mlRisk, abandoned>>

MlRoute(w) ==
    LET t == ml[w].task IN
    /\ ml[w].pc = "route"
    /\ sandboxQ' = IF NeedsSandbox(mlRisk[HashOf[t]]) THEN Published(sandboxQ, t, 1)
                   ELSE sandboxQ
    /\ ml' = [ml EXCEPT ![w] = MlIdle]
    /\ UNCHANGED <<dbVars, staticQ, mlQ, static, slot, apiVars, cache, mlRisk, abandoned, faults>>

\* Nobody has declared "sandbox-queue", or the broker restarts: a message lost in silence.
MlRouteLost(w) ==
    /\ ml[w].pc = "route"
    /\ NeedsSandbox(mlRisk[HashOf[ml[w].task]])
    /\ Fault(1)
    /\ ml' = [ml EXCEPT ![w] = MlIdle]
    /\ UNCHANGED <<dbVars, queueVars, static, slot, apiVars, cache, mlRisk, abandoned>>

\* The broker connection fails before or after the message is out.
MlRouteError(w) ==
    LET t == ml[w].task IN
    /\ ml[w].pc = "route"
    /\ NeedsSandbox(mlRisk[HashOf[t]])
    /\ Fault(1)
    /\ \E copies \in 0..1 : sandboxQ' = Published(sandboxQ, t, copies)
    /\ ml' = [ml EXCEPT ![w].pc = "error"]
    /\ UNCHANGED <<dbVars, staticQ, mlQ, static, slot, apiVars, cache, mlRisk, abandoned>>

\* The model is missing, or the database refuses a query.
MlError(w) ==
    /\ ml[w].pc \in {"infer", "commit"}
    /\ Fault(1)
    /\ ml' = [ml EXCEPT ![w].pc = "error", ![w].row = NoReputation]
    /\ UNCHANGED <<dbVars, queueVars, static, slot, apiVars, cache, mlRisk, abandoned>>

MlRetry(w) ==
    IF ml[w].tries + 1 < MaxAttempts
    THEN /\ ml' = [ml EXCEPT ![w].pc = "infer", ![w].tries = @ + 1]
         /\ UNCHANGED abandoned
    ELSE /\ ml' = [ml EXCEPT ![w] = MlIdle]
         /\ abandoned' = abandoned \cup {ml[w].task}

MlMarkFailed(w) ==
    /\ ml[w].pc = "error"
    /\ status' = SetStatus(ml[w].task, "FAILED")
    /\ MlRetry(w)
    /\ UNCHANGED <<owner, rep, dynamic, queueVars, static, slot, apiVars, cache, mlRisk, faults>>

MlStatusError(w) ==
    /\ ml[w].pc = "error"
    /\ Fault(1)
    /\ MlRetry(w)
    /\ UNCHANGED <<dbVars, queueVars, static, slot, apiVars, cache, mlRisk>>

MlCrash(w) ==
    /\ ml[w] # MlIdle
    /\ Fault(1)
    /\ mlQ' = Published(mlQ, ml[w].task, 1)
    /\ ml' = [ml EXCEPT ![w] = MlIdle]
    /\ UNCHANGED <<dbVars, staticQ, sandboxQ, static, slot, apiVars, cache, mlRisk, abandoned>>

MlRedelivered(w) ==
    /\ ml[w] # MlIdle
    /\ Fault(1)
    /\ mlQ' = Published(mlQ, ml[w].task, 1)
    /\ UNCHANGED <<dbVars, staticQ, sandboxQ, workerVars, apiVars, cache, mlRisk, abandoned>>
-----------------------------------------------------------------------------
(* The sandbox worker: run the staged file under the tracer, insert the    *)
(* report, fold it into the reputation.  Callbacks of one process overlap  *)
(* at the awaits; message.process() rejects without requeueing when the    *)
(* callback raises, so every exit but a lost process consumes the message. *)
(* Nothing in the repository writes /tmp/sandbox_uploads: whether the file *)
(* is there is a free choice at every delivery.                            *)

\* The file is there and the tracer has run it: the call blocks the worker's loop.
SandboxRun(s) ==
    /\ slot[s] = SlotIdle
    /\ \E t \in Request, report \in Report :
          /\ sandboxQ[t] > 0
          /\ sandboxQ' = Taken(sandboxQ, t)
          /\ slot' = [slot EXCEPT ![s] = [pc |-> "report", task |-> t, report |-> report,
                                          row |-> NoReputation]]
    /\ UNCHANGED <<dbVars, staticQ, mlQ, static, ml, apiVars, cache, mlRisk, abandoned, faults>>

\* "File not found for dynamic analysis": the message is acked.
SandboxMissing(s) ==
    /\ slot[s] = SlotIdle
    /\ \E t \in Request :
          /\ sandboxQ[t] > 0
          /\ sandboxQ' = Taken(sandboxQ, t)
    /\ UNCHANGED <<dbVars, staticQ, mlQ, workerVars, apiVars, cache, mlRisk, abandoned, faults>>

\* Mutant of ReportInserted: the lock outlives the transaction that took it.
ReportEverInserted(s, t) == dynamic[t] # NoReport

(* The SELECT of the reputation flushes the INSERT first.  It waits for    *)
(* another transaction that has inserted the same task_id, and fails once  *)
(* a row with it is committed.                                             *)
ReportInserted(s, t) ==
    \E s2 \in SandboxSlot \ {s} : slot[s2].pc = "commit" /\ slot[s2].task = t

\* Mutant of FirstReport: dynamic_features.task_id is not unique.
FirstReportOrNot(t) == TRUE

FirstReport(t) == dynamic[t] = NoReport

SandboxRead(s) ==
    LET t == slot[s].task IN
    /\ slot[s].pc = "report"
    /\ ~ReportInserted(s, t)
    /\ slot' = IF FirstReport(t)
               THEN [slot EXCEPT ![s].pc = "commit", ![s].row = rep[HashOf[t]]]
               ELSE [slot EXCEPT ![s] = SlotIdle]
    /\ UNCHANGED <<dbVars, queueVars, static, ml, apiVars, cache, mlRisk, abandoned, faults>>

SandboxCommit(s) ==
    LET t == slot[s].task
        h == HashOf[t]
        row == slot[s].row
    IN
    /\ slot[s].pc = "commit"
    /\ dynamic' = [dynamic EXCEPT ![t] = slot[s].report]
    /\ rep' = [rep EXCEPT ![h] = IF row = NoReputation THEN @
                                 ELSE Flushed(@, row, Combined(row, slot[s].report))]
    /\ slot' = [slot EXCEPT ![s] = SlotIdle]
    /\ UNCHANGED <<owner, status, queueVars, static, ml, apiVars, cache, mlRisk,
                   abandoned, faults>>

\* The sandbox or the database fails: the message is acked or rejected, never retried.
SandboxError(s) ==
    /\ slot[s] # SlotIdle
    /\ Fault(1)
    /\ slot' = [slot EXCEPT ![s] = SlotIdle]
    /\ UNCHANGED <<dbVars, queueVars, static, ml, apiVars, cache, mlRisk, abandoned>>

\* The one process that runs every callback dies.
SandboxCrash ==
    /\ \E s \in SandboxSlot : slot[s] # SlotIdle
    /\ Fault(1)
    /\ sandboxQ' = [t \in Request |->
                      sandboxQ[t] + Cardinality({s \in SandboxSlot : slot[s].task = t})]
    /\ slot' = [s \in SandboxSlot |-> SlotIdle]
    /\ UNCHANGED <<dbVars, staticQ, mlQ, static, ml, apiVars, cache, mlRisk, abandoned>>

SandboxRedelivered(s) ==
    /\ slot[s] # SlotIdle
    /\ Fault(1)
    /\ sandboxQ' = Published(sandboxQ, slot[s].task, 1)
    /\ UNCHANGED <<dbVars, staticQ, mlQ, workerVars, apiVars, cache, mlRisk, abandoned>>

-----------------------------------------------------------------------------
UploadStep(r) == UploadSelect(r) \/ UploadInsert(r) \/ UploadPublish(r)

StaticStep(w) ==
    StaticReceive(w) \/ StaticMark(w) \/ StaticPublish(w) \/ StaticMarkFailed(w)

MlStep(w) ==
    \/ MlReceive(w) \/ MlRead(w) \/ MlCommit(w) \/ MlClash(w) \/ MlCache(w)
    \/ MlRoute(w) \/ MlMarkFailed(w)

SandboxStep(s) ==
    SandboxRun(s) \/ SandboxMissing(s) \/ SandboxRead(s) \/ SandboxCommit(s)

LookupStep(l) == (\E h \in Hash : LookupMiss(l, h)) \/ LookupFill(l)

Faulty ==
    \/ \E r \in Request : UploadFails(r) \/ UploadPublishFails(r) \/ UploadKilled(r)
    \/ \E w \in StaticWorker :
          StaticError(w) \/ StaticStatusError(w) \/ StaticCrash(w) \/ StaticRedelivered(w)
    \/ \E w \in MlWorker :
          \/ MlError(w) \/ MlCommitLost(w) \/ MlCacheLost(w) \/ MlRouteLost(w)
          \/ MlRouteError(w) \/ MlStatusError(w) \/ MlCrash(w) \/ MlRedelivered(w)
    \/ \E s \in SandboxSlot : SandboxError(s) \/ SandboxRedelivered(s)
    \/ SandboxCrash

Next ==
    \/ \E r \in Request : UploadStep(r)
    \/ \E w \in StaticWorker : StaticStep(w)
    \/ \E w \in MlWorker : MlStep(w)
    \/ \E s \in SandboxSlot : SandboxStep(s)
    \/ \E l \in Reader : LookupStep(l)
    \/ \E h \in Hash : CacheExpire(h)
    \/ Faulty

Spec == Init /\ [][Next]_vars

(* Handlers and consumers keep running: each step is an await that returns *)
(* or a callback the event loop gets to; and Redis expires its keys.  New  *)
(* lookups and faults need not happen.                                     *)
FairSpec ==
    /\ Spec
    /\ \A r \in Request : WF_vars(UploadStep(r))
    /\ \A w \in StaticWorker : WF_vars(StaticStep(w))
    /\ \A w \in MlWorker : WF_vars(MlStep(w))
    /\ \A s \in SandboxSlot : WF_vars(SandboxStep(s))
    /\ \A l \in Reader : WF_vars(LookupFill(l))
    /\ \A h \in Hash : WF_vars(CacheExpire(h))

-----------------------------------------------------------------------------
\* A consumer that is not idle works on a task some request minted.
StaticJob == [pc: {"mark", "analyse", "error"}, task: Request, tries: Nat]
MlJob == [pc: {"infer", "commit", "cache", "route", "error"}, task: Request,
          tries: Nat, row: ReputationRow]
SandboxJob == [pc: {"report", "commit"}, task: Request, report: Report, row: ReputationRow]
Fill == [hash: Hash, row: ReputationRow]

TypeOK ==
    /\ upload \in [Request -> {"select", "insert", "publish", "replied", "failed",
                               "killed"}]
    /\ reply \in [Request -> Request \cup {NoTask}]
    /\ owner \in [Hash -> Request \cup {NoTask}]
    /\ status \in [Hash -> Status]
    /\ rep \in [Hash -> ReputationRow]
    /\ dynamic \in [Request -> Report \cup {NoReport}]
    /\ cache \in [Store -> [Hash -> ReputationRow]]
    /\ staticQ \in [Request -> Nat]
    /\ mlQ \in [Request -> Nat]
    /\ sandboxQ \in [Request -> Nat]
    /\ static \in [StaticWorker -> StaticJob \cup {Idle}]
    /\ ml \in [MlWorker -> MlJob \cup {MlIdle}]
    /\ slot \in [SandboxSlot -> SandboxJob \cup {SlotIdle}]
    /\ reader \in [Reader -> Fill \cup {ReaderIdle}]
    /\ mlRisk \in [Hash -> MlRisk]
    /\ abandoned \subseteq Request
    /\ faults \in 0..MaxFaults

(* Messages of a task waiting or being worked on, before the step that     *)
(* decides its status.                                                     *)
Carried(t) ==
    \/ upload[t] = "publish"
    \/ staticQ[t] > 0
    \/ mlQ[t] > 0
    \/ \E w \in StaticWorker : static[w].task = t
    \/ \E w \in MlWorker : ml[w].task = t /\ ml[w].pc \in {"infer", "commit", "error"}

InFlight(t) ==
    \/ Carried(t)
    \/ sandboxQ[t] > 0
    \/ \E w \in MlWorker : ml[w].task = t
    \/ \E s \in SandboxSlot : slot[s].task = t

(* However the SELECT and INSERT of concurrent uploads of one file         *)
(* interleave (routes.py:58-96), one task id is ever analysed for it, and  *)
(* every client that gets a task id gets that one.                         *)
OneTaskPerFile ==
    \A r \in Request :
        /\ InFlight(r) => owner[HashOf[r]] = r
        /\ reply[r] # NoTask => reply[r] = owner[HashOf[r]]

(* The agent looks a verdict up as soon as its poll says COMPLETED and     *)
(* takes a missing one for "benign" (api_client.rs): the status is never   *)
(* COMPLETED before the reputation row is there (ml_worker.py:38-69).      *)
CompletedHasVerdict ==
    \A h \in Hash : status[h] = "COMPLETED" => rep[h] # NoReputation

(* A task that has not reached a final status still has a message that     *)
(* will move it, or a publisher or consumer has logged that it gave up and *)
(* nothing has taken the task up since: no crash, redelivery, late status  *)
(* update or ack order loses it in silence (routes.py:96-114,              *)
(* static_worker.py:88-158, ml_worker.py), but for one window.  An API     *)
(* process killed between the commit and the publish leaves a row PENDING  *)
(* that nobody has logged, will ever analyse, or undoes: later uploads of  *)
(* the file are answered with its task.                                    *)
KilledUnpublished(r) == upload[r] = "killed" /\ status[HashOf[r]] = "PENDING"

NoSilentLoss ==
    \A r \in Request :
        owner[HashOf[r]] = r =>
            \/ status[HashOf[r]] \in Final
            \/ Carried(r)
            \/ r \in abandoned
            \/ KilledUnpublished(r)

(* The scores a row may legitimately have: the model's, or the model's     *)
(* plus the one report stored for the task.                                *)
Reports(h) == {dynamic[t] : t \in {owner[h]} \ {NoTask}} \ {NoReport}
Grounds(h) == {mlRisk[h]} \cup {Smaller(MaxRisk, mlRisk[h] + report) : report \in Reports(h)}

ExplainedRisk(h, row) == row = NoReputation \/ row.risk \in Grounds(h)

(* The sandbox adds to the stored score, so running a task twice or        *)
(* against a row another worker is writing could count evidence twice.     *)
(* It never does, in the table, in Redis, in the dictionary that stands in *)
(* for Redis and never expires, or in a lookup about to fill one of them   *)
(* (sandbox_worker.py:51-80, cache.py:18-34).                              *)
RiskFromOneReport ==
    /\ \A h \in Hash :
          ExplainedRisk(h, rep[h]) /\ \A c \in Store : ExplainedRisk(h, cache[c][h])
    /\ \A l \in Reader :
          reader[l] # ReaderIdle => ExplainedRisk(reader[l].hash, reader[l].row)

(* Sightings lower the malicious cutoff, and every pass of the ML worker   *)
(* counts as one (ml_worker.py:52): each count beyond the first is the     *)
(* work of a fault, none of ordinary concurrency or deduplication.         *)
ExtraSightingsAreFaults == \A h \in Hash : rep[h].freq <= 1 + faults

(* Between two inferences of a file its score only rises: a sandbox        *)
(* transaction that read an older row never takes one back.                *)
RiskDropsOnlyOnSighting ==
    [][\A h \in Hash : rep'[h].freq = rep[h].freq => rep'[h].risk >= rep[h].risk]_vars

(* The pipeline as its clients see it: GET /report tells how far a task    *)
(* is, GET /hash and a completed report tell a verdict, from the table or  *)
(* from what CacheClient finds.                                            *)
Shown == [PENDING |-> "open", PROCESSING |-> "open",
          COMPLETED |-> "completed", FAILED |-> "failed"]
SeenStatus(h) == IF owner[h] = NoTask THEN "none" ELSE Shown[status[h]]

Answered(h) ==
    IF rep[h] = NoReputation THEN {}
    ELSE {row.risk : row \in {rep[h]} \cup ({cache[c][h] : c \in Store} \ {NoReputation})}

Service == INSTANCE VerdictService WITH
    File <- Hash,
    Verdict <- RiskScore,
    status <- [h \in Hash |-> SeenStatus(h)],
    grounds <- [h \in Hash |-> Grounds(h)],
    known <- [h \in Hash |-> Answered(h)]

(* Queues, retries, sessions and caches together are the service that      *)
(* agents rely on (VerdictService): no interleaving and no fault shows a   *)
(* client "completed" without a verdict, a verdict that is unknown again,  *)
(* or an answer the evidence does not support.                             *)
ImplementsService == Service!Spec

(* A client that is answered with a task id of its own has the file        *)
(* analysed: where fewer faults come than an attempt may be repeated,      *)
(* retries, redeliveries and requeues bring the task to COMPLETED for      *)
(* good, whatever status a late or repeated message sets in between.  Of   *)
(* an upload that failed or was killed after its commit, and of those that *)
(* were answered with its task, nothing is promised: their status may stay *)
(* PENDING for ever (routes.py:96-114), as it stays PROCESSING where the   *)
(* last attempt cannot write FAILED either (static_worker.py:125).         *)
AcceptedCompletes ==
    [](faults < MaxAttempts) =>
        \A r \in Request :
            reply[r] = r ~> [](status[HashOf[r]] = "COMPLETED")

(* The work of a task ends: retries, redeliveries and the three queues do  *)
(* not keep each other going.                                              *)
WorkEnds == <>[](\A t \in Request : ~InFlight(t))

(* Once the work has ended, what Redis holds is what the table holds: a    *)
(* verdict cached before the sandbox reported, or by a lookup that read    *)
(* before a commit, does not outlive its 24 hours (routes.py:157).         *)
AnswersSettle == <>[](\A h \in Hash : cache["redis"][h] \in {NoReputation, rep[h]})

(* db/models.py: is_malicious is the "Binary status" of the verdict and    *)
(* classification its label; DOCS.md documents them as one verdict.        *)
VerdictFieldsAgree ==
    \A h \in Hash : rep[h].malicious <=> rep[h].label = "malicious"

(* What does hold of it where one ML worker runs: the sandbox adds to a    *)
(* row it read earlier and both write only the columns that changed        *)
(* (sandbox_worker.py:62-81, ml_worker.py:50-69), and still no row carries *)
(* the label the agent quarantines on without the flag.                    *)
LabelFlagged ==
    \A h \in Hash : rep[h].label = "malicious" => rep[h].malicious

(* static_worker.py:120: the task stays in PROCESSING "until ML stage      *)
(* finalizes verdict": once final, a verdict's status is not taken back.   *)
CompletedIsFinal ==
    [][\A h \in Hash : status[h] = "COMPLETED" => status'[h] = "COMPLETED"]_vars

(* What does hold of it: a task is analysed once unless something fails,   *)
(* so that without a fault no message, upload or worker takes a COMPLETED  *)
(* status back, however many of them there are.                            *)
CompletedFinalWithoutFaults ==
    [][faults' = 0 =>
          \A h \in Hash : status[h] = "COMPLETED" => status'[h] = "COMPLETED"]_vars
=============================================================================

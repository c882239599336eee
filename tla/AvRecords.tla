----------------------------- MODULE AvRecords ------------------------------
(***************************************************************************)
(* The AV management API's writers: restoring and deleting a quarantine    *)
(* record (routers/quarantine.py), triggering and completing a scan        *)
(* (routers/scans.py), over one asyncpg pool.                              *)
(*                                                                         *)
(* Every request is a coroutine that gives way at each await, so requests  *)
(* interleave between statements.  PostgreSQL runs at READ COMMITTED: a    *)
(* transaction's writes are seen from its commit on, and a row selected    *)
(* FOR UPDATE stays locked until the transaction ends.  A statement        *)
(* outside a transaction commits by itself.                                *)
(***************************************************************************)
EXTENDS Integers, FiniteSets

CONSTANTS
    QuarantineId,  \* the ids requests name
    Record,        \* those with a row in quarantine_records
    Scan,          \* scan ids, drawn by uuid4 or named by the daemon
    Actor,         \* request.state.agent_id
    Nobody,        \* NULL
    Request,       \* one call of the API each: the bound on calls
    PoolSize       \* max_size of the pool

ASSUME RecordsAssumption ==
    /\ Record \subseteq QuarantineId
    /\ Nobody \notin Actor \cup QuarantineId \cup Scan
    /\ PoolSize \in Nat \ {0}

VARIABLES
    marks,  \* marks[q]["restore"], ["delete"]: restored_by and deleted_by;
            \* restored and deleted are true iff these are not NULL
    audit,  \* the rows of av_audit_log
    scan,   \* scan[s]: status of a scan_events row, "none" without a row
    req     \* req[r]: where the handler of request r is

vars == <<marks, audit, scan, req>>

Mark == {"restore", "delete"}
Op == Mark \cup {"trigger", "complete"}
Status == {"running", "completed"}
Target(op) == IF op \in Mark THEN QuarantineId ELSE Scan

\* `staged' is what the open transaction has written.  The actor of a scan is
\* only logged, and left out.
Call == [pc: {"acquire", "select", "update", "audit", "commit",
              "insert", "close", "done"},
         op: Op, target: QuarantineId \cup Scan, actor: Actor \cup {Nobody},
         staged: SUBSET {"row", "entry"},
         answer: {"none", "ok", "not found", "conflict", "unconfirmed",
                  "error"}]
NoCall == [pc |-> "idle", op |-> "none", target |-> Nobody,
           actor |-> Nobody, staged |-> {}, answer |-> "none"]

Entry(r) == [by |-> r, action |-> req[r].op, target |-> req[r].target,
             actor |-> req[r].actor]
AuditEntry == [by: Request, action: Mark, target: QuarantineId, actor: Actor]

Init ==
    /\ marks = [q \in Record |-> [m \in Mark |-> Nobody]]
    /\ audit = {}
    /\ scan = [s \in Scan |-> "none"]
    /\ req = [r \in Request |-> NoCall]

-----------------------------------------------------------------------------
Connected == {r \in Request : req[r].pc \notin {"idle", "acquire", "done"}}
InTransaction(r) == req[r].pc \in {"update", "audit", "commit"}
Locked(q) == \E r \in Request : InTransaction(r) /\ req[r].target = q

At(r, pc) == req[r].pc = pc
Goto(r, pc) == req' = [req EXCEPT ![r].pc = pc]
Answer(r, answer) ==
    req' = [req EXCEPT ![r].pc = "done", ![r].answer = answer]

\* A scan id is drawn by uuid4: no other trigger has it.
Fresh(s) ==
    \A r \in Request : ~(req[r].op = "trigger" /\ req[r].target = s)

\* A call comes in; a delete without `confirmed' is turned away at once.
ArriveAs(r, actors) ==
    /\ At(r, "idle")
    /\ \E op \in Op : \E target \in Target(op), actor \in actors \cup {Nobody} :
         /\ op \in Mark => actor \in actors
         /\ op \notin Mark => actor = Nobody
         /\ op = "trigger" => Fresh(target)
         /\ \/ req' = [req EXCEPT ![r] =
                 [pc |-> "acquire", op |-> op, target |-> target,
                  actor |-> actor, staged |-> {}, answer |-> "none"]]
            \/ /\ op = "delete"
               /\ req' = [req EXCEPT ![r] =
                    [pc |-> "done", op |-> op, target |-> target,
                     actor |-> actor, staged |-> {},
                     answer |-> "unconfirmed"]]
    /\ UNCHANGED <<marks, audit, scan>>

\* Mutant of Arrive: the actor defaults to None.
ArriveAnonymous(r) == ArriveAs(r, Actor \cup {Nobody})

Arrive(r) == ArriveAs(r, Actor)

\* pool.acquire(): waits for one of the PoolSize connections.
Acquire(r) ==
    /\ At(r, "acquire")
    /\ Cardinality(Connected) < PoolSize
    /\ \/ req[r].op \in Mark /\ Goto(r, "select")
       \/ req[r].op = "trigger" /\ Goto(r, "insert")
       \/ req[r].op = "complete" /\ Goto(r, "close")
    /\ UNCHANGED <<marks, audit, scan>>

\* restore is refused for restored and deleted records, delete only for
\* deleted ones.
Bars(op) == IF op = "restore" THEN Mark ELSE {"delete"}
Barred(q, bars) == \E m \in bars : marks[q][m] # Nobody

\* SELECT ... FOR UPDATE: waits for the row's lock, and takes it.
SelectBarredBy(r, bars) ==
    LET q == req[r].target
    IN  /\ At(r, "select")
        /\ \/ q \notin Record /\ Answer(r, "not found")
           \/ q \in Record /\ Barred(q, bars) /\ Answer(r, "conflict")
           \/ q \in Record /\ ~Barred(q, bars) /\ Goto(r, "update")
        /\ UNCHANGED <<marks, audit, scan>>

\* Mutant of Select: no FOR UPDATE.
SelectUnlocked(r) == SelectBarredBy(r, Bars(req[r].op))

\* Mutant of Select: restore checks `restored' only.
SelectOwnMark(r) ==
    ~Locked(req[r].target) /\ SelectBarredBy(r, {req[r].op})

Select(r) == ~Locked(req[r].target) /\ SelectBarredBy(r, Bars(req[r].op))

\* Mutant of Update: run outside a transaction.
UpdateAutocommit(r) ==
    /\ At(r, "update")
    /\ marks' = [marks EXCEPT ![req[r].target][req[r].op] = req[r].actor]
    /\ req' = [req EXCEPT ![r].pc = "audit", ![r].staged = {"row"}]
    /\ UNCHANGED <<audit, scan>>

\* UPDATE quarantine_records ...
Update(r) ==
    /\ At(r, "update")
    /\ req' = [req EXCEPT ![r].pc = "audit",
                          ![r].staged = req[r].staged \cup {"row"}]
    /\ UNCHANGED <<marks, audit, scan>>

\* INSERT INTO av_audit_log ...
Log(r) ==
    /\ At(r, "audit")
    /\ req' = [req EXCEPT ![r].pc = "commit",
                          ![r].staged = req[r].staged \cup {"entry"}]
    /\ UNCHANGED <<marks, audit, scan>>

\* Mutant of LogAction: the entry is written over a connection of its own.
LogOverPool(r) == Cardinality(Connected) < PoolSize /\ Log(r)

LogAction(r) == Log(r)

Committed(r) ==
    /\ marks' = IF "row" \in req[r].staged
                THEN [marks EXCEPT
                        ![req[r].target][req[r].op] = req[r].actor]
                ELSE marks
    /\ audit' = audit \cup {e \in {Entry(r)} : "entry" \in req[r].staged}
    /\ UNCHANGED scan

\* The transaction commits at the end of its block and the call returns.
Commit(r) == At(r, "commit") /\ Committed(r) /\ Answer(r, "ok")

\* It commits, and the connection breaks before the reply.
CommitLost(r) == At(r, "commit") /\ Committed(r) /\ Answer(r, "error")

\* INSERT INTO scan_events ... 'running'; the reply may be lost.
InsertScan(r) ==
    /\ At(r, "insert")
    /\ scan' = [scan EXCEPT ![req[r].target] = "running"]
    /\ Answer(r, "ok") \/ Answer(r, "error")
    /\ UNCHANGED <<marks, audit>>

CloseFrom(r, open) ==
    /\ At(r, "close")
    /\ \/ /\ scan[req[r].target] \in open
          /\ scan' = [scan EXCEPT ![req[r].target] = "completed"]
          /\ Answer(r, "ok") \/ Answer(r, "error")
       \/ /\ scan[req[r].target] \notin open
          /\ Answer(r, "not found")
          /\ UNCHANGED scan
    /\ UNCHANGED <<marks, audit>>

\* Mutant of CloseScan: UPDATE without AND status = 'running'.
CloseAnyScan(r) == CloseFrom(r, Status)

\* UPDATE scan_events ... WHERE status = 'running'; "UPDATE 0" is a 404.
CloseScan(r) == CloseFrom(r, {"running"})

\* Any step may raise before it takes effect: no connection, a statement
\* over command_timeout (waiting for a lock included), details that are not
\* JSON, a server that goes away, this process killed.  An open transaction
\* is rolled back.
Fail(r) ==
    /\ req[r].pc \notin {"idle", "done"}
    /\ Answer(r, "error")
    /\ UNCHANGED <<marks, audit, scan>>

Step(r) ==
    \/ Acquire(r) \/ Select(r) \/ Update(r) \/ LogAction(r) \/ Commit(r)
    \/ InsertScan(r) \/ CloseScan(r)

Next == \E r \in Request : Arrive(r) \/ Step(r) \/ CommitLost(r) \/ Fail(r)

Spec == Init /\ [][Next]_vars

\* asyncio resumes a coroutine whose await is over; the pool and a row's
\* lock are handed to a waiter when they are released.
FairSpec == Spec /\ \A r \in Request : WF_vars(Step(r))

-----------------------------------------------------------------------------
TypeOK ==
    /\ marks \in [Record -> [Mark -> Actor \cup {Nobody}]]
    /\ audit \subseteq AuditEntry
    /\ scan \in [Scan -> Status \cup {"none"}]
    /\ req \in [Request -> Call \cup {NoCall}]

Entries(q, m) == {e \in audit : e.target = q /\ e.action = m}

(* "Every restore/delete action is written to av_audit_log with the acting *)
(* user's identity" (quarantine.py:9-10), whatever interleaves or fails: a *)
(* mark has exactly one entry, by the actor in the row, and no entry is    *)
(* there without its mark.                                                 *)
Audited ==
    \A q \in Record, m \in Mark :
       \/ marks[q][m] = Nobody /\ Entries(q, m) = {}
       \/ \E e \in Entries(q, m) :
             Entries(q, m) = {e} /\ marks[q][m] = e.actor

(* What a caller was told stays so: an "ok" is in the row and in the log   *)
(* under the caller's name, however many others raced it, and a 409 names  *)
(* a mark that was committed (quarantine.py:160-225, 250-310).             *)
AnswersTrue ==
    \A r \in Request :
       LET call == req[r]
       IN  /\ call.answer = "ok" /\ call.op \in Mark =>
                /\ call.target \in Record
                /\ marks[call.target][call.op] = call.actor
                /\ Entry(r) \in audit
           /\ call.answer = "ok" /\ call.op = "trigger" =>
                scan[call.target] # "none"
           /\ call.answer = "ok" /\ call.op = "complete" =>
                scan[call.target] = "completed"
           /\ call.answer = "conflict" =>
                Barred(call.target, Bars(call.op))

(* Of all the calls that restore one record, delete it or close one scan,  *)
(* at most one is told it did (quarantine.py:178, 266, scans.py:190).      *)
OneWinner ==
    \A r1, r2 \in Request :
       /\ req[r1].answer = "ok" /\ req[r2].answer = "ok"
       /\ req[r1].op = req[r2].op /\ req[r1].target = req[r2].target
       => r1 = r2

(* The audit trail is append-only (DOCS.md:791), no mark is taken back or  *)
(* passed to another actor, a deleted record is not restored ("File has    *)
(* been permanently deleted", quarantine.py:182) and a closed scan is not  *)
(* opened again.                                                           *)
NothingUndone ==
    [][/\ audit \subseteq audit'
       /\ \A q \in Record, m \in Mark :
             marks[q][m] # Nobody => marks'[q][m] = marks[q][m]
       /\ \A q \in Record :
             marks[q]["delete"] # Nobody => marks'[q] = marks[q]
       /\ \A s \in Scan : scan[s] = "completed" => scan'[s] = "completed"
      ]_vars

\* What the callers see of their calls.
Calls == [r \in Request |-> [op |-> req[r].op, target |-> req[r].target,
                             actor |-> req[r].actor, answer |-> req[r].answer]]

Service == INSTANCE RecordsService WITH call <- Calls

(* With their connections, transactions and row locks out of sight, the    *)
(* handlers of quarantine.py:160-310 and scans.py:95-205 are atomic: what  *)
(* each call does and answers is done on one state between its arrival and *)
(* its answer, however their statements interleave and whatever fails.     *)
CallsAreAtomic == Service!Spec

(* No set of calls can wait for each other's connections and locks for     *)
(* ever: every call is answered, also when there are more calls than       *)
(* connections (pool.py:47-49).                                            *)
EveryCallAnswered ==
    \A r \in Request : ~At(r, "idle") ~> At(r, "done")
=============================================================================

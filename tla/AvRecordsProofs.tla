-------------------------- MODULE AvRecordsProofs ---------------------------
(***************************************************************************)
(* What AvRecords keeps for any number of records, scans, actors, calls    *)
(* and connections.  The argument is the one the code relies on: between   *)
(* SELECT ... FOR UPDATE and the commit a call alone holds its record, and *)
(* no mark that would have refused it can appear meanwhile (LockInv); an   *)
(* audit entry belongs to a call that has returned (LogInv).               *)
(***************************************************************************)
EXTENDS AvRecords, TLAPS

\* What the handler's place in the code tells about a call.
CallInv ==
    \A r \in Request :
      LET call == req[r]
      IN  /\ call.pc # "idle" => call \in Call
          /\ call.op \in Mark =>
               call.actor \in Actor /\ call.target \in QuarantineId
          /\ call.op \in {"trigger", "complete"} => call.target \in Scan
          /\ call.pc \in {"select", "update", "audit", "commit"} =>
               call.op \in Mark
          /\ call.pc = "insert" => call.op = "trigger"
          /\ call.pc = "close" => call.op = "complete"
          /\ call.pc \in {"acquire", "select", "update"} => call.staged = {}
          /\ call.pc = "audit" => call.staged = {"row"}
          /\ call.pc = "commit" => call.staged = {"row", "entry"}
          /\ call.pc # "done" => call.answer = "none"

\* A transaction works on a record whose marks do not refuse it, alone.
LockInv ==
    /\ \A r \in Request : InTransaction(r) =>
          /\ req[r].target \in Record
          /\ ~Barred(req[r].target, Bars(req[r].op))
    /\ \A r1, r2 \in Request :
          /\ InTransaction(r1) /\ InTransaction(r2)
          /\ req[r1].target = req[r2].target
          => r1 = r2

\* An entry was written by a call that has returned.
LogInv ==
    \A e \in audit : At(e.by, "done") /\ e = Entry(e.by)

\* A scan id belongs to one trigger and has no row before its INSERT.
ScanInv ==
    /\ \A r \in Request :
          req[r].op = "trigger" /\ ~At(r, "done") =>
             scan[req[r].target] = "none"
    /\ \A r1, r2 \in Request :
          /\ req[r1].op = "trigger" /\ req[r2].op = "trigger"
          /\ req[r1].target = req[r2].target
          => r1 = r2
    /\ \A s \in Scan : scan[s] # "none" => ~Fresh(s)

\* Of the calls that close one scan, one is told it did.
OneCloses ==
    \A r1, r2 \in Request :
       /\ req[r1].answer = "ok" /\ req[r2].answer = "ok"
       /\ req[r1].op = "complete" /\ req[r2].op = "complete"
       /\ req[r1].target = req[r2].target
       => r1 = r2

Inv ==
    /\ TypeOK /\ CallInv /\ LockInv /\ LogInv /\ ScanInv
    /\ Audited /\ AnswersTrue /\ OneCloses

-----------------------------------------------------------------------------
Moved(r, pc, staged, answer) ==
    req' = [req EXCEPT ![r].pc = pc, ![r].staged = staged,
                       ![r].answer = answer]

\* Where a call may be with what it has staged and answered.
Place(op, pc, staged, answer) ==
    /\ pc \in {"select", "update", "audit", "commit"} => op \in Mark
    /\ pc = "insert" => op = "trigger"
    /\ pc = "close" => op = "complete"
    /\ pc \in {"acquire", "select", "update"} => staged = {}
    /\ pc = "audit" => staged = {"row"}
    /\ pc = "commit" => staged = {"row", "entry"}
    /\ pc # "done" => answer = "none"

Pc == {"acquire", "select", "update", "audit", "commit", "insert", "close",
       "done"}
Answers == {"none", "ok", "not found", "conflict", "unconfirmed", "error"}

(* Moving a call changes its place, and nothing else of any call.          *)
LEMMA MovedEffect ==
    ASSUME TypeOK, CallInv, NEW r \in Request, ~At(r, "idle"),
           NEW pc \in Pc, NEW staged \in SUBSET {"row", "entry"},
           NEW answer \in Answers,
           Place(req[r].op, pc, staged, answer),
           Moved(r, pc, staged, answer)
    PROVE  /\ req' \in [Request -> Call \cup {NoCall}]
           /\ CallInv'
           /\ req'[r].pc = pc /\ req'[r].answer = answer
           /\ \A o \in Request :
                 /\ req'[o].op = req[o].op
                 /\ req'[o].target = req[o].target
                 /\ req'[o].actor = req[o].actor
                 /\ o # r => req'[o] = req[o]
<1>1. req[r] \in Call
  BY DEF CallInv, At
<1>2. [req[r] EXCEPT !.pc = pc, !.staged = staged, !.answer = answer] \in Call
  BY <1>1 DEF Call, Pc, Answers
<1>3. req' = [req EXCEPT ![r] = [req[r] EXCEPT !.pc = pc, !.staged = staged,
                                              !.answer = answer]]
  BY DEF Moved
<1>4. req' \in [Request -> Call \cup {NoCall}]
  BY <1>2, <1>3 DEF TypeOK
<1>5. /\ req'[r] = [req[r] EXCEPT !.pc = pc, !.staged = staged,
                                 !.answer = answer]
      /\ \A o \in Request : o # r => req'[o] = req[o]
  BY <1>3 DEF TypeOK
<1>6. /\ req'[r].pc = pc /\ req'[r].answer = answer /\ req'[r].staged = staged
      /\ req'[r].op = req[r].op /\ req'[r].target = req[r].target
      /\ req'[r].actor = req[r].actor
  BY <1>1, <1>5 DEF Call
<1>7. CallInv'
  <2> SUFFICES ASSUME NEW o \in Request
               PROVE  CallInv!(o)'
    BY DEF CallInv
  <2>1. CASE o # r
    BY <2>1, <1>5 DEF CallInv
  <2>2. CASE o = r
    BY <2>2, <1>2, <1>5, <1>6 DEF CallInv, Place
  <2> QED
    BY <2>1, <2>2
<1> QED
  BY <1>4, <1>5, <1>6, <1>7

(* A step that touches no table keeps the invariant, if a call enters a    *)
(* transaction only on a free record that does not refuse it, and says "ok"*)
(* to nobody.                                                              *)
LEMMA QuietStep ==
    ASSUME Inv, NEW r \in Request, req[r].pc \notin {"idle", "done"},
           NEW pc \in Pc, NEW staged \in SUBSET {"row", "entry"},
           NEW answer \in Answers \ {"ok"},
           Place(req[r].op, pc, staged, answer),
           Moved(r, pc, staged, answer),
           UNCHANGED <<marks, audit, scan>>,
           pc \in {"update", "audit", "commit"} =>
              \/ InTransaction(r)
              \/ /\ req[r].target \in Record
                 /\ ~Barred(req[r].target, Bars(req[r].op))
                 /\ ~Locked(req[r].target),
           answer = "conflict" => Barred(req[r].target, Bars(req[r].op))
    PROVE  Inv'
<1>1. /\ req' \in [Request -> Call \cup {NoCall}]
      /\ CallInv'
      /\ req'[r].pc = pc /\ req'[r].answer = answer
      /\ \A o \in Request :
            /\ req'[o].op = req[o].op
            /\ req'[o].target = req[o].target
            /\ req'[o].actor = req[o].actor
            /\ o # r => req'[o] = req[o]
  BY MovedEffect DEF Inv, At
<1>2. TypeOK'
  BY <1>1 DEF Inv, TypeOK
<1>3. LockInv'
  <2>1. ASSUME NEW o \in Request, InTransaction(o)'
        PROVE  (/\ req[o].target \in Record
                /\ ~Barred(req[o].target, Bars(req[o].op)))'
    <3>1. CASE o # r
      BY <1>1, <2>1, <3>1 DEF Inv, LockInv, InTransaction, Barred
    <3>2. CASE o = r
      BY <1>1, <2>1, <3>2 DEF Inv, LockInv, InTransaction, Barred
    <3> QED
      BY <3>1, <3>2
  <2>2. ASSUME NEW r1 \in Request, NEW r2 \in Request,
               InTransaction(r1)', InTransaction(r2)',
               req'[r1].target = req'[r2].target, r1 # r2
        PROVE  FALSE
    <3>1. CASE r1 # r /\ r2 # r
      BY <1>1, <2>2, <3>1 DEF Inv, LockInv, InTransaction
    <3>2. CASE r1 = r
      BY <1>1, <2>2, <3>2 DEF Inv, LockInv, InTransaction, Locked
    <3>3. CASE r2 = r
      BY <1>1, <2>2, <3>3 DEF Inv, LockInv, InTransaction, Locked
    <3> QED
      BY <3>1, <3>2, <3>3
  <2> QED
    BY <2>1, <2>2 DEF LockInv
<1>4. LogInv'
  <2> SUFFICES ASSUME NEW e \in audit
               PROVE  At(e.by, "done")' /\ (e = Entry(e.by))'
    BY DEF LogInv
  <2>1. e.by \in Request /\ At(e.by, "done") /\ e = Entry(e.by)
    BY DEF Inv, LogInv, TypeOK, AuditEntry
  <2>2. req'[e.by] = req[e.by]
    BY <1>1, <2>1 DEF At
  <2> QED
    BY <2>1, <2>2 DEF At, Entry
<1>5. ScanInv'
  BY <1>1 DEF Inv, ScanInv, Fresh, At
<1>6. Audited'
  BY DEF Inv, Audited, Entries
<1>7. AnswersTrue'
  <2> SUFFICES ASSUME NEW o \in Request
               PROVE  AnswersTrue!(o)'
    BY DEF AnswersTrue
  <2>1. CASE o # r
    BY <1>1, <2>1 DEF Inv, AnswersTrue, Entry, Barred
  <2>2. CASE o = r
    BY <1>1, <2>2 DEF Barred
  <2> QED
    BY <2>1, <2>2
<1>8. OneCloses'
  BY <1>1 DEF Inv, OneCloses
<1> QED
  BY <1>1, <1>2, <1>3, <1>4, <1>5, <1>6, <1>7, <1>8 DEF Inv

(* The actions' own ways to move a call.                                   *)
LEMMA Moves ==
    ASSUME TypeOK, CallInv, NEW r \in Request, ~At(r, "idle")
    PROVE  /\ \A pc : Goto(r, pc) => Moved(r, pc, req[r].staged, req[r].answer)
           /\ \A a : Answer(r, a) => Moved(r, "done", req[r].staged, a)
           /\ \A pc, staged :
                 req' = [req EXCEPT ![r].pc = pc, ![r].staged = staged]
                 => Moved(r, pc, staged, req[r].answer)
<1>1. req[r] \in Call /\ req \in [Request -> Call \cup {NoCall}]
  BY DEF TypeOK, CallInv, At
<1>2. ASSUME NEW pc, NEW staged, NEW a
      PROVE  /\ [req[r] EXCEPT !.pc = pc]
                = [req[r] EXCEPT !.pc = pc, !.staged = req[r].staged,
                                 !.answer = req[r].answer]
             /\ [req[r] EXCEPT !.pc = pc, !.answer = a]
                = [req[r] EXCEPT !.pc = pc, !.staged = req[r].staged,
                                 !.answer = a]
             /\ [req[r] EXCEPT !.pc = pc, !.staged = staged]
                = [req[r] EXCEPT !.pc = pc, !.staged = staged,
                                 !.answer = req[r].answer]
  BY <1>1 DEF Call
<1>3. ASSUME NEW pc, Goto(r, pc)
      PROVE  Moved(r, pc, req[r].staged, req[r].answer)
  BY <1>1, <1>2, <1>3 DEF Goto, Moved
<1>4. ASSUME NEW a, Answer(r, a)
      PROVE  Moved(r, "done", req[r].staged, a)
  BY <1>1, <1>2, <1>4 DEF Answer, Moved
<1>5. ASSUME NEW pc, NEW staged,
             req' = [req EXCEPT ![r].pc = pc, ![r].staged = staged]
      PROVE  Moved(r, pc, staged, req[r].answer)
  <2>1. req' = [req EXCEPT ![r] = [req[r] EXCEPT !.pc = pc, !.staged = staged]]
    BY <1>1, <1>5
  <2>2. req' = [req EXCEPT ![r] = [req[r] EXCEPT !.pc = pc, !.staged = staged,
                                                 !.answer = req[r].answer]]
    BY <2>1, <1>2, Zenon
  <2> QED
    BY <1>1, <2>2 DEF Moved
<1> QED
  BY <1>3, <1>4, <1>5

(* A new call holds nothing and has been told nothing.                     *)
LEMMA ArriveStep ==
    ASSUME Inv, NEW r \in Request, Arrive(r)
    PROVE  Inv'
<1>1. PICK op \in Op : \E target \in Target(op), actor \in Actor \cup {Nobody} :
        /\ op \in Mark => actor \in Actor
        /\ op = "trigger" => Fresh(target)
        /\ \E pc \in {"acquire", "done"}, answer \in {"none", "unconfirmed"} :
              /\ pc = "acquire" => answer = "none"
              /\ pc = "done" => op = "delete"
              /\ req' = [req EXCEPT ![r] =
                   [pc |-> pc, op |-> op, target |-> target,
                    actor |-> actor, staged |-> {}, answer |-> answer]]
  BY DEF Arrive, ArriveAs
<1>1a. PICK target \in Target(op), actor \in Actor \cup {Nobody} :
        /\ op \in Mark => actor \in Actor
        /\ op = "trigger" => Fresh(target)
        /\ \E pc \in {"acquire", "done"}, answer \in {"none", "unconfirmed"} :
              /\ pc = "acquire" => answer = "none"
              /\ pc = "done" => op = "delete"
              /\ req' = [req EXCEPT ![r] =
                   [pc |-> pc, op |-> op, target |-> target,
                    actor |-> actor, staged |-> {}, answer |-> answer]]
  BY <1>1, Zenon
<1>2. PICK pc \in {"acquire", "done"}, answer \in {"none", "unconfirmed"} :
        /\ op \in Mark => actor \in Actor
        /\ op = "trigger" => Fresh(target)
        /\ pc = "acquire" => answer = "none"
        /\ pc = "done" => op = "delete"
        /\ req' = [req EXCEPT ![r] =
             [pc |-> pc, op |-> op, target |-> target,
              actor |-> actor, staged |-> {}, answer |-> answer]]
  BY <1>1a, Zenon
<1> DEFINE call == [pc |-> pc, op |-> op, target |-> target,
                    actor |-> actor, staged |-> {}, answer |-> answer]
<1>3. UNCHANGED <<marks, audit, scan>> /\ req[r].pc = "idle"
  BY DEF Arrive, ArriveAs, At
<1>4. call \in Call /\ (op \in Mark => target \in QuarantineId)
                    /\ (op \notin Mark => target \in Scan)
  BY DEF Call, Target, Mark
<1>5. /\ req' \in [Request -> Call \cup {NoCall}]
      /\ req'[r] = call
      /\ \A o \in Request : o # r => req'[o] = req[o]
  BY <1>2, <1>4 DEF Inv, TypeOK
<1> HIDE DEF call
<1>6. /\ call.pc = pc /\ call.op = op /\ call.target = target
      /\ call.actor = actor /\ call.staged = {} /\ call.answer = answer
  BY DEF call
<1>7. TypeOK'
  BY <1>3, <1>5 DEF Inv, TypeOK
<1>8. CallInv'
  <2> SUFFICES ASSUME NEW o \in Request
               PROVE  CallInv!(o)'
    BY DEF CallInv
  <2>1. CASE o # r
    BY <1>5, <2>1 DEF Inv, CallInv
  <2>2. CASE o = r
    BY <1>2, <1>4, <1>5, <1>6, <2>2 DEF Mark
  <2> QED
    BY <2>1, <2>2
<1>9. LockInv'
  BY <1>2, <1>3, <1>5, <1>6 DEF Inv, LockInv, InTransaction, Barred
<1>10. LogInv'
  <2> SUFFICES ASSUME NEW e \in audit
               PROVE  At(e.by, "done")' /\ (e = Entry(e.by))'
    BY <1>3 DEF LogInv
  <2>1. e.by \in Request /\ At(e.by, "done") /\ e = Entry(e.by)
    BY DEF Inv, LogInv, TypeOK, AuditEntry
  <2>2. req'[e.by] = req[e.by]
    BY <1>3, <1>5, <2>1 DEF At
  <2> QED
    BY <2>1, <2>2 DEF At, Entry
<1>11. ScanInv'
  <2>1. ASSUME NEW o \in Request, req'[o].op = "trigger", ~At(o, "done")'
        PROVE  scan'[req'[o].target] = "none"
    <3>1. CASE o # r
      BY <1>3, <1>5, <2>1, <3>1 DEF Inv, ScanInv, At
    <3>2. CASE o = r
      BY <1>2, <1>3, <1>4, <1>5, <1>6, <2>1, <3>2 DEF Inv, ScanInv, Mark
    <3> QED
      BY <3>1, <3>2
  <2>2. \A r1, r2 \in Request :
          /\ req'[r1].op = "trigger" /\ req'[r2].op = "trigger"
          /\ req'[r1].target = req'[r2].target
          => r1 = r2
    BY <1>2, <1>5, <1>6 DEF Inv, ScanInv, Fresh
  <2>3. \A s \in Scan : scan'[s] # "none" => ~Fresh(s)'
    <3>1. req[r] = NoCall
      BY <1>3 DEF Inv, TypeOK, Call
    <3>2. req[r].op # "trigger"
      BY <3>1 DEF NoCall
    <3> QED
      BY <1>3, <1>5, <3>2 DEF Inv, ScanInv, Fresh
  <2> QED
    BY <2>1, <2>2, <2>3 DEF ScanInv
<1>12. Audited'
  BY <1>3 DEF Inv, Audited, Entries
<1>13. AnswersTrue'
  <2> SUFFICES ASSUME NEW o \in Request
               PROVE  AnswersTrue!(o)'
    BY DEF AnswersTrue
  <2>1. CASE o # r
    BY <1>3, <1>5, <2>1 DEF Inv, AnswersTrue, Entry, Barred
  <2>2. CASE o = r
    BY <1>5, <1>6, <2>2
  <2> QED
    BY <2>1, <2>2
<1>14. OneCloses'
  BY <1>5, <1>6 DEF Inv, OneCloses
<1> QED
  BY <1>7, <1>8, <1>9, <1>10, <1>11, <1>12, <1>13, <1>14 DEF Inv

(* The commit: the call holds its record alone, so the mark it sets and    *)
(* the entry it adds are the first of their kind, and stay the only ones.  *)
LEMMA CommitStep ==
    ASSUME Inv, NEW r \in Request, At(r, "commit"), Committed(r),
           NEW answer \in {"ok", "error"}, Answer(r, answer)
    PROVE  Inv'
<1> DEFINE q == req[r].target
           m == req[r].op
<1>1. /\ req[r] \in Call /\ m \in Mark /\ req[r].actor \in Actor
      /\ req[r].staged = {"row", "entry"} /\ InTransaction(r)
      /\ q \in Record /\ ~Barred(q, Bars(m)) /\ q \in QuarantineId
  BY DEF Inv, CallInv, LockInv, At, InTransaction
<1>2. Place(m, "done", req[r].staged, answer)
  BY DEF Place
<1>3. /\ Moved(r, "done", req[r].staged, answer) /\ ~At(r, "idle")
      /\ req[r].staged \in SUBSET {"row", "entry"}
      /\ "done" \in Pc /\ answer \in Answers
  BY <1>1, Moves DEF Inv, At, Pc, Answers
<1>4. /\ req' \in [Request -> Call \cup {NoCall}]
      /\ CallInv'
      /\ req'[r].pc = "done" /\ req'[r].answer = answer
      /\ \A o \in Request :
            /\ req'[o].op = req[o].op
            /\ req'[o].target = req[o].target
            /\ req'[o].actor = req[o].actor
            /\ o # r => req'[o] = req[o]
  BY <1>2, <1>3, MovedEffect DEF Inv
<1>5. /\ marks' = [marks EXCEPT ![q][m] = req[r].actor]
      /\ audit' = audit \cup {Entry(r)}
      /\ scan' = scan
  BY <1>1 DEF Committed
<1>6. marks \in [Record -> [Mark -> Actor \cup {Nobody}]]
  BY DEF Inv, TypeOK
<1>7. /\ marks' \in [Record -> [Mark -> Actor \cup {Nobody}]]
      /\ \A p \in Record, n \in Mark :
            marks'[p][n] = IF p = q /\ n = m THEN req[r].actor ELSE marks[p][n]
  BY <1>1, <1>5, <1>6
<1>8. Entry(r) \in AuditEntry /\ Entry(r)' = Entry(r)
  BY <1>1, <1>4 DEF Entry, AuditEntry
<1>9. req[r].actor # Nobody /\ marks[q][m] = Nobody
  BY <1>1, RecordsAssumption DEF Barred, Bars, Mark
<1>10. TypeOK'
  BY <1>4, <1>5, <1>7, <1>8 DEF Inv, TypeOK
<1>11. LockInv'
  <2>1. ASSUME NEW o \in Request, InTransaction(o)'
        PROVE  /\ o # r /\ InTransaction(o) /\ req'[o] = req[o]
               /\ req[o].target # q
    BY <1>1, <1>4, <2>1 DEF Inv, LockInv, InTransaction
  <2>2. ASSUME NEW o \in Request, InTransaction(o)'
        PROVE  (/\ req[o].target \in Record
                /\ ~Barred(req[o].target, Bars(req[o].op)))'
    <3>1. req[o].target \in Record /\ ~Barred(req[o].target, Bars(req[o].op))
      BY <2>1, <2>2 DEF Inv, LockInv
    <3> QED
      BY <1>7, <2>1, <2>2, <3>1 DEF Barred, Bars, Mark
  <2>3. \A r1, r2 \in Request :
          /\ InTransaction(r1)' /\ InTransaction(r2)'
          /\ req'[r1].target = req'[r2].target
          => r1 = r2
    BY <2>1 DEF Inv, LockInv
  <2> QED
    BY <2>2, <2>3 DEF LockInv
<1>12. LogInv'
  <2> SUFFICES ASSUME NEW e \in audit'
               PROVE  At(e.by, "done")' /\ (e = Entry(e.by))'
    BY DEF LogInv
  <2>1. CASE e = Entry(r)
    BY <1>4, <1>8, <2>1 DEF Entry, At
  <2>2. CASE e \in audit
    <3>1. e.by \in Request /\ At(e.by, "done") /\ e = Entry(e.by)
      BY <2>2 DEF Inv, LogInv, TypeOK, AuditEntry
    <3>2. req'[e.by] = req[e.by]
      BY <1>4, <3>1 DEF At
    <3> QED
      BY <3>1, <3>2 DEF At, Entry
  <2> QED
    BY <1>5, <2>1, <2>2
<1>13. ScanInv'
  BY <1>4, <1>5 DEF Inv, ScanInv, Fresh, At
<1>14. Audited'
  <2>1. Entries(q, m) = {}
    BY <1>1, <1>9, RecordsAssumption
       DEF Inv, Audited, Entries, TypeOK, AuditEntry
  <2> SUFFICES ASSUME NEW p \in Record, NEW n \in Mark
               PROVE  (\/ marks[p][n] = Nobody /\ Entries(p, n) = {}
                       \/ \E e \in Entries(p, n) :
                             /\ Entries(p, n) = {e}
                             /\ marks[p][n] = e.actor)'
    BY DEF Audited
  <2>2. /\ Entry(r).target = q /\ Entry(r).action = m
        /\ Entry(r).actor = req[r].actor
    BY DEF Entry
  <2>3. CASE p = q /\ n = m
    <3>1. Entries(p, n)' = {Entry(r)}
      BY <1>5, <2>1, <2>2, <2>3 DEF Entries
    <3> QED
      BY <1>7, <2>2, <2>3, <3>1
  <2>4. CASE ~(p = q /\ n = m)
    <3>1. Entries(p, n)' = Entries(p, n) /\ marks'[p][n] = marks[p][n]
      BY <1>5, <1>7, <2>2, <2>4 DEF Entries
    <3> QED
      BY <3>1 DEF Inv, Audited
  <2> QED
    BY <2>3, <2>4
<1>15. AnswersTrue'
  <2> SUFFICES ASSUME NEW o \in Request
               PROVE  AnswersTrue!(o)'
    BY DEF AnswersTrue
  <2>1. CASE o # r
    <3>1. req'[o] = req[o] /\ Entry(o)' = Entry(o)
      BY <1>4, <2>1 DEF Entry
    <3>2. AnswersTrue!(o)
      BY DEF Inv, AnswersTrue
    <3>3. ASSUME req[o].answer = "ok", req[o].op \in Mark
          PROVE  /\ req[o].target \in Record
                 /\ marks'[req[o].target][req[o].op] = req[o].actor
                 /\ Entry(o) \in audit'
      <4>1. /\ req[o].target \in Record
            /\ marks[req[o].target][req[o].op] = req[o].actor
            /\ Entry(o) \in audit
        BY <3>2, <3>3
      <4>2. req[o].actor # Nobody
        BY <3>3, RecordsAssumption DEF Inv, CallInv
      <4> QED
        BY <1>5, <1>7, <1>9, <3>3, <4>1, <4>2
    <3>4. ASSUME req[o].answer = "conflict"
          PROVE  Barred(req[o].target, Bars(req[o].op))'
      <4>1. Barred(req[o].target, Bars(req[o].op))
        BY <3>2, <3>4
      <4>2. PICK n \in Bars(req[o].op) : marks[req[o].target][n] # Nobody
        BY <4>1 DEF Barred
      <4>3. n \in Mark /\ n \in Bars(req'[o].op)
        BY <3>1, <4>2 DEF Bars, Mark
      <4>4. marks'[req[o].target][n] # Nobody
        <5>1. CASE req[o].target \in Record
          BY <1>7, <1>9, <4>2, <4>3, <5>1
        <5>2. CASE req[o].target \notin Record
          BY <1>1, <1>5, <1>6, <4>2, <5>2
        <5> QED
          BY <5>1, <5>2
      <4> QED
        BY <3>1, <4>3, <4>4 DEF Barred
    <3> QED
      BY <1>5, <3>1, <3>2, <3>3, <3>4
  <2>2. CASE o = r
    BY <1>1, <1>4, <1>5, <1>7, <1>8, <2>2 DEF Mark
  <2> QED
    BY <2>1, <2>2
<1>16. OneCloses'
  BY <1>1, <1>4 DEF Inv, OneCloses, Mark
<1> QED
  BY <1>4, <1>10, <1>11, <1>12, <1>13, <1>14, <1>15, <1>16 DEF Inv

(* A scan gets its row, or is closed: its mark and its answer agree, and   *)
(* the records and their log are not touched.                              *)
LEMMA ScanStep ==
    ASSUME Inv, NEW r \in Request, NEW status \in Status,
           NEW answer \in {"ok", "error"},
           \/ At(r, "insert") /\ status = "running"
           \/ /\ At(r, "close") /\ status = "completed"
              /\ scan[req[r].target] = "running",
           scan' = [scan EXCEPT ![req[r].target] = status],
           Answer(r, answer), UNCHANGED <<marks, audit>>
    PROVE  Inv'
<1> DEFINE s == req[r].target
<1>1. /\ req[r] \in Call /\ req[r].op \in {"trigger", "complete"} /\ s \in Scan
      /\ At(r, "insert") => req[r].op = "trigger" /\ scan[s] = "none"
      /\ At(r, "close") => req[r].op = "complete"
      /\ ~At(r, "idle") /\ ~At(r, "done")
  BY DEF Inv, CallInv, ScanInv, At
<1>2. Place(req[r].op, "done", req[r].staged, answer)
  BY DEF Place
<1>3. /\ Moved(r, "done", req[r].staged, answer)
      /\ req[r].staged \in SUBSET {"row", "entry"}
      /\ "done" \in Pc /\ answer \in Answers
  BY <1>1, Moves DEF Inv, Pc, Answers, Call
<1>4. /\ req' \in [Request -> Call \cup {NoCall}]
      /\ CallInv'
      /\ req'[r].pc = "done" /\ req'[r].answer = answer
      /\ \A o \in Request :
            /\ req'[o].op = req[o].op
            /\ req'[o].target = req[o].target
            /\ req'[o].actor = req[o].actor
            /\ o # r => req'[o] = req[o]
  BY <1>1, <1>2, <1>3, MovedEffect DEF Inv
<1>5. /\ scan' \in [Scan -> Status \cup {"none"}]
      /\ \A t \in Scan : scan'[t] = IF t = s THEN status ELSE scan[t]
      /\ scan[s] # "completed" /\ status # "none"
  BY <1>1 DEF Inv, TypeOK, Status
<1>6. TypeOK'
  BY <1>4, <1>5 DEF Inv, TypeOK
<1>7. LockInv'
  BY <1>1, <1>4 DEF Inv, LockInv, InTransaction, Barred
<1>8. LogInv'
  <2> SUFFICES ASSUME NEW e \in audit
               PROVE  At(e.by, "done")' /\ (e = Entry(e.by))'
    BY DEF LogInv
  <2>1. e.by \in Request /\ At(e.by, "done") /\ e = Entry(e.by)
    BY DEF Inv, LogInv, TypeOK, AuditEntry
  <2>2. req'[e.by] = req[e.by]
    BY <1>1, <1>4, <2>1 DEF At
  <2> QED
    BY <2>1, <2>2 DEF At, Entry
<1>9. ScanInv'
  <2>1. ASSUME NEW o \in Request, req'[o].op = "trigger", ~At(o, "done")'
        PROVE  scan'[req'[o].target] = "none"
    <3>1. o # r /\ req'[o] = req[o] /\ ~At(o, "done")
      BY <1>4, <2>1 DEF At
    <3>2. req[o].target \in Scan /\ scan[req[o].target] = "none"
      BY <2>1, <3>1 DEF Inv, ScanInv, CallInv
    <3>3. req[o].target # s
      BY <1>1, <2>1, <3>1, <3>2 DEF Inv, ScanInv
    <3> QED
      BY <1>5, <3>1, <3>2, <3>3
  <2>2. \A r1, r2 \in Request :
          /\ req'[r1].op = "trigger" /\ req'[r2].op = "trigger"
          /\ req'[r1].target = req'[r2].target
          => r1 = r2
    BY <1>4 DEF Inv, ScanInv
  <2>3. ASSUME NEW t \in Scan, scan'[t] # "none"
        PROVE  ~Fresh(t)'
    <3>1. ~Fresh(t)
      <4>1. CASE t # s
        BY <1>5, <2>3, <4>1 DEF Inv, ScanInv
      <4>2. CASE t = s /\ At(r, "insert")
        BY <1>1, <4>2 DEF Fresh
      <4>3. CASE t = s /\ At(r, "close")
        BY <1>1, <4>3 DEF Inv, ScanInv, At
      <4> QED
        BY <4>1, <4>2, <4>3
    <3> QED
      BY <1>4, <3>1 DEF Fresh
  <2> QED
    BY <2>1, <2>2, <2>3 DEF ScanInv
<1>10. Audited'
  BY DEF Inv, Audited, Entries
<1>11. AnswersTrue'
  <2> SUFFICES ASSUME NEW o \in Request
               PROVE  AnswersTrue!(o)'
    BY DEF AnswersTrue
  <2>1. CASE o # r
    <3>1. req'[o] = req[o] /\ Entry(o)' = Entry(o) /\ AnswersTrue!(o)
      BY <1>4, <2>1 DEF Entry, Inv, AnswersTrue
    <3>2. req[o].op \in {"trigger", "complete"} =>
             /\ req[o].target \in Scan
             /\ scan[req[o].target] # "none" => scan'[req[o].target] # "none"
             /\ scan[req[o].target] = "completed" =>
                  scan'[req[o].target] = "completed"
      BY <1>5 DEF Inv, CallInv
    <3>3. Barred(req[o].target, Bars(req[o].op)) =>
             Barred(req[o].target, Bars(req[o].op))'
      BY <3>1 DEF Barred
    <3> QED
      BY <3>1, <3>2, <3>3
  <2>2. CASE o = r
    BY <1>1, <1>4, <1>5, <2>2 DEF Mark
  <2> QED
    BY <2>1, <2>2
<1>12. OneCloses'
  <2> SUFFICES ASSUME NEW r1 \in Request, NEW r2 \in Request,
                      req'[r1].answer = "ok", req'[r2].answer = "ok",
                      req'[r1].op = "complete", req'[r2].op = "complete",
                      req'[r1].target = req'[r2].target, r1 # r2
               PROVE  FALSE
    BY DEF OneCloses
  <2>1. CASE r1 # r /\ r2 # r
    BY <1>4, <2>1 DEF Inv, OneCloses
  <2>2. CASE r1 = r
    BY <1>4, <1>5, <2>2 DEF Inv, AnswersTrue
  <2>3. CASE r2 = r
    BY <1>4, <1>5, <2>3 DEF Inv, AnswersTrue
  <2> QED
    BY <2>1, <2>2, <2>3
<1> QED
  BY <1>4, <1>6, <1>7, <1>8, <1>9, <1>10, <1>11, <1>12 DEF Inv

-----------------------------------------------------------------------------
LEMMA InitInv == Init => Inv
<1> SUFFICES ASSUME Init PROVE Inv
  OBVIOUS
<1>1. \A r \in Request : req[r] = NoCall
  BY DEF Init
<1>2. \A r \in Request :
        /\ req[r].pc = "idle" /\ req[r].op = "none" /\ req[r].answer = "none"
        /\ req[r].staged = {}
  BY <1>1 DEF NoCall
<1>3. TypeOK
  BY DEF Init, TypeOK
<1>4. CallInv
  BY <1>2 DEF CallInv, Mark
<1>5. LockInv /\ LogInv /\ ScanInv /\ OneCloses
  BY <1>2 DEF Init, LockInv, InTransaction, LogInv, ScanInv, OneCloses
<1>6. Audited
  BY DEF Init, Audited, Entries
<1>7. AnswersTrue
  BY <1>2 DEF AnswersTrue
<1> QED
  BY <1>3, <1>4, <1>5, <1>6, <1>7 DEF Inv

LEMMA NextInv == Inv /\ [Next]_vars => Inv'
<1> SUFFICES ASSUME Inv, [Next]_vars PROVE Inv'
  OBVIOUS
<1>1. CASE UNCHANGED vars
  BY <1>1 DEF Inv, vars, TypeOK, CallInv, LockInv, InTransaction, Barred,
              LogInv, At, Entry, ScanInv, Fresh, Audited, Entries,
              AnswersTrue, OneCloses
<1>2. ASSUME NEW r \in Request, Arrive(r)
      PROVE  Inv'
  BY <1>2, ArriveStep
<1>3. ASSUME NEW r \in Request, Acquire(r)
      PROVE  Inv'
  <2>1. PICK pc \in {"select", "insert", "close"} :
          /\ Goto(r, pc)
          /\ pc = "select" => req[r].op \in Mark
          /\ pc = "insert" => req[r].op = "trigger"
          /\ pc = "close" => req[r].op = "complete"
    BY <1>3 DEF Acquire
  <2>2. /\ req[r].pc = "acquire" /\ req[r].staged = {}
        /\ req[r].answer = "none"
    BY <1>3 DEF Acquire, At, Inv, CallInv
  <2>3. Moved(r, pc, {}, "none")
    BY <2>1, <2>2, Moves DEF Inv, At
  <2>4. Place(req[r].op, pc, {}, "none") /\ pc \in Pc
    BY <2>1 DEF Place, Pc
  <2>5. UNCHANGED <<marks, audit, scan>>
    BY <1>3 DEF Acquire
  <2> QED
    BY <2>1, <2>2, <2>3, <2>4, <2>5, QuietStep DEF Answers
<1>4. ASSUME NEW r \in Request, Select(r)
      PROVE  Inv'
  <2> DEFINE q == req[r].target
             bars == Bars(req[r].op)
  <2>1. /\ req[r].pc = "select" /\ req[r].staged = {}
        /\ req[r].answer = "none" /\ req[r].op \in Mark
        /\ UNCHANGED <<marks, audit, scan>> /\ ~Locked(q)
    BY <1>4 DEF Select, SelectBarredBy, At, Inv, CallInv
  <2>2. CASE q \in Record /\ ~Barred(q, bars) /\ Goto(r, "update")
    <3>1. Moved(r, "update", {}, "none")
      BY <2>1, <2>2, Moves DEF Inv, At
    <3>2. Place(req[r].op, "update", {}, "none")
      BY <2>1 DEF Place
    <3> QED
      BY <2>1, <2>2, <3>1, <3>2, QuietStep DEF Answers, Pc
  <2>3. CASE \/ Answer(r, "not found")
             \/ Barred(q, bars) /\ Answer(r, "conflict")
    <3>1. PICK answer \in {"not found", "conflict"} :
            /\ Answer(r, answer)
            /\ answer = "conflict" => Barred(q, bars)
      BY <2>3
    <3>2. Moved(r, "done", {}, answer)
      BY <2>1, <3>1, Moves DEF Inv, At
    <3>3. Place(req[r].op, "done", {}, answer)
      BY DEF Place
    <3> QED
      BY <2>1, <3>1, <3>2, <3>3, QuietStep DEF Answers, Pc
  <2> QED
    BY <1>4, <2>2, <2>3 DEF Select, SelectBarredBy
<1>5. ASSUME NEW r \in Request, Update(r) \/ LogAction(r)
      PROVE  Inv'
  <2>1. /\ req[r].pc \in {"update", "audit"} /\ req[r].answer = "none"
        /\ req[r].op \in Mark /\ InTransaction(r) /\ ~At(r, "idle")
        /\ UNCHANGED <<marks, audit, scan>>
    BY <1>5 DEF Update, LogAction, Log, At, Inv, CallInv, InTransaction
  <2>2. CASE Update(r)
    <3>1. req' = [req EXCEPT ![r].pc = "audit", ![r].staged = {"row"}]
      BY <2>2 DEF Update, At, Inv, CallInv
    <3>2. Moved(r, "audit", {"row"}, "none")
      BY <2>1, <3>1, Moves DEF Inv
    <3>3. Place(req[r].op, "audit", {"row"}, "none")
      BY <2>1 DEF Place
    <3> QED
      BY <2>1, <3>2, <3>3, QuietStep DEF Answers, Pc
  <2>3. CASE LogAction(r)
    <3>1. req[r].staged \cup {"entry"} = {"row", "entry"}
      BY <2>3 DEF LogAction, Log, At, Inv, CallInv
    <3>2. req' = [req EXCEPT ![r].pc = "commit",
                            ![r].staged = {"row", "entry"}]
      BY <2>3, <3>1 DEF LogAction, Log
    <3>3. Moved(r, "commit", {"row", "entry"}, "none")
      BY <2>1, <3>2, Moves DEF Inv
    <3>4. Place(req[r].op, "commit", {"row", "entry"}, "none")
      BY <2>1 DEF Place
    <3> QED
      BY <2>1, <3>3, <3>4, QuietStep DEF Answers, Pc
  <2> QED
    BY <1>5, <2>2, <2>3
<1>6. ASSUME NEW r \in Request, Commit(r) \/ CommitLost(r)
      PROVE  Inv'
  BY <1>6, CommitStep DEF Commit, CommitLost
<1>7. ASSUME NEW r \in Request, InsertScan(r)
      PROVE  Inv'
  BY <1>7, ScanStep DEF InsertScan, Status
<1>8. ASSUME NEW r \in Request,
             \/ Fail(r)
             \/ /\ At(r, "close") /\ Answer(r, "not found")
                /\ UNCHANGED <<marks, audit, scan>>
      PROVE  Inv'
  <2>1. PICK answer \in {"error", "not found"} : Answer(r, answer)
    BY <1>8 DEF Fail
  <2>2. /\ req[r].pc \notin {"idle", "done"}
        /\ UNCHANGED <<marks, audit, scan>>
    BY <1>8 DEF Fail, At
  <2>3. req[r].staged \in SUBSET {"row", "entry"}
    BY <2>2 DEF Inv, CallInv, Call
  <2>4. Moved(r, "done", req[r].staged, answer)
    BY <2>1, <2>2, Moves DEF Inv, At
  <2>5. Place(req[r].op, "done", req[r].staged, answer)
    BY DEF Place
  <2> QED
    BY <2>2, <2>3, <2>4, <2>5, QuietStep DEF Answers, Pc
<1>9. ASSUME NEW r \in Request, CloseScan(r)
      PROVE  Inv'
  <2>1. CASE scan[req[r].target] = "running"
    BY <1>9, <2>1, ScanStep DEF CloseScan, CloseFrom, Status
  <2>2. CASE scan[req[r].target] # "running"
    BY <1>8, <1>9, <2>2 DEF CloseScan, CloseFrom
  <2> QED
    BY <2>1, <2>2
<1> QED
  BY <1>1, <1>2, <1>3, <1>4, <1>5, <1>6, <1>7, <1>8, <1>9 DEF Next, Step

LEMMA InvAlways == Spec => []Inv
  BY InitInv, NextInv, PTL DEF Spec

(* Every table and every call keep their types, NULL actors stay out of    *)
(* av_audit_log.                                                           *)
THEOREM TypeCorrect == Spec => []TypeOK
<1>1. Inv => TypeOK
  BY DEF Inv
<1> QED
  BY <1>1, InvAlways, PTL

(* quarantine.py:9-10 for any number of concurrent calls: marks and audit  *)
(* entries correspond one to one.                                          *)
THEOREM AuditedAlways == Spec => []Audited
<1>1. Inv => Audited
  BY DEF Inv
<1> QED
  BY <1>1, InvAlways, PTL

(* No answer is proved wrong later: not by a race, not by a failure.       *)
THEOREM AnswersTrueAlways == Spec => []AnswersTrue
<1>1. Inv => AnswersTrue
  BY DEF Inv
<1> QED
  BY <1>1, InvAlways, PTL

(* At most one of the calls that do the same to the same row is told "ok": *)
(* for marks because the log has one entry for it, for scans because       *)
(* 'running' is left once.                                                 *)
THEOREM OneWinnerAlways == Spec => []OneWinner
<1>1. Inv => OneWinner
  <2> SUFFICES ASSUME Inv, NEW r1 \in Request, NEW r2 \in Request,
                      req[r1].answer = "ok", req[r2].answer = "ok",
                      req[r1].op = req[r2].op,
                      req[r1].target = req[r2].target
               PROVE  r1 = r2
    BY DEF OneWinner
  <2>1. req[r1] \in Call
    BY DEF Inv, TypeOK, NoCall
  <2>2. CASE req[r1].op \in Mark
    <3>1. /\ req[r1].target \in Record
          /\ Entry(r1) \in audit /\ Entry(r2) \in audit
      BY <2>2 DEF Inv, AnswersTrue
    <3>2. /\ Entry(r1) \in Entries(req[r1].target, req[r1].op)
          /\ Entry(r2) \in Entries(req[r1].target, req[r1].op)
      BY <3>1 DEF Entries, Entry
    <3>3. Entry(r1) = Entry(r2)
      BY <2>2, <3>1, <3>2 DEF Inv, Audited
    <3> QED
      BY <3>3 DEF Entry
  <2>3. CASE req[r1].op = "trigger"
    BY <2>3 DEF Inv, ScanInv
  <2>4. CASE req[r1].op = "complete"
    BY <2>4 DEF Inv, OneCloses
  <2> QED
    BY <2>1, <2>2, <2>3, <2>4 DEF Call, Op
<1> QED
  BY <1>1, InvAlways, PTL

(* The log only grows, marks are final, nothing deleted is restored and no *)
(* closed scan is opened, by any step of any call.                         *)
THEOREM NothingUndoneAlways == Spec => NothingUndone
<1> DEFINE Kept ==
      /\ audit \subseteq audit'
      /\ \A q \in Record, m \in Mark :
            marks[q][m] # Nobody => marks'[q][m] = marks[q][m]
      /\ \A q \in Record :
            marks[q]["delete"] # Nobody => marks'[q] = marks[q]
      /\ \A s \in Scan : scan[s] = "completed" => scan'[s] = "completed"
<1>1. ASSUME Inv, Next
      PROVE  Kept
  <2>1. CASE UNCHANGED <<marks, audit, scan>>
    BY <2>1
  <2>2. ASSUME NEW r \in Request, Commit(r) \/ CommitLost(r)
        PROVE  Kept
    <3> DEFINE q == req[r].target
               m == req[r].op
    <3>1. /\ q \in Record /\ m \in Mark /\ ~Barred(q, Bars(m))
          /\ req[r].staged = {"row", "entry"}
      BY <1>1, <2>2 DEF Commit, CommitLost, At, Inv, LockInv, CallInv,
                        InTransaction
    <3>2. /\ marks' = [marks EXCEPT ![q][m] = req[r].actor]
          /\ audit' = audit \cup {Entry(r)} /\ scan' = scan
      BY <2>2, <3>1 DEF Commit, CommitLost, Committed
    <3>3. marks[q][m] = Nobody /\ marks[q]["delete"] = Nobody
      BY <3>1 DEF Barred, Bars, Mark
    <3>4. marks \in [Record -> [Mark -> Actor \cup {Nobody}]]
      BY <1>1 DEF Inv, TypeOK
    <3>5. \A p \in Record : p # q => marks'[p] = marks[p]
      BY <3>1, <3>2, <3>4
    <3>6. \A n \in Mark : n # m => marks'[q][n] = marks[q][n]
      BY <3>1, <3>2, <3>4
    <3> QED
      BY <3>2, <3>3, <3>5, <3>6
  <2>3. ASSUME NEW r \in Request, InsertScan(r) \/ CloseScan(r)
        PROVE  Kept
    <3>1. /\ req[r].target \in Scan
          /\ At(r, "insert") => scan[req[r].target] = "none"
      BY <1>1, <2>3 DEF InsertScan, CloseScan, CloseFrom, At, Inv, ScanInv,
                        CallInv
    <3>2. scan \in [Scan -> Status \cup {"none"}]
      BY <1>1 DEF Inv, TypeOK
    <3> QED
      BY <2>3, <3>1, <3>2 DEF InsertScan, CloseScan, CloseFrom
  <2>4. ASSUME NEW r \in Request,
               \/ Arrive(r) \/ Acquire(r) \/ Select(r) \/ Update(r)
               \/ LogAction(r) \/ Fail(r)
        PROVE  UNCHANGED <<marks, audit, scan>>
    BY <2>4 DEF Arrive, ArriveAs, Acquire, Select, SelectBarredBy, Update,
                LogAction, Log, Fail
  <2> QED
    BY <1>1, <2>1, <2>2, <2>3, <2>4 DEF Next, Step
<1>2. Inv /\ [Next]_vars => [Kept]_vars
  BY <1>1
<1>3. Spec => [][Kept]_vars
  BY <1>2, InvAlways, PTL DEF Spec
<1> QED
  BY <1>3 DEF NothingUndone

-----------------------------------------------------------------------------
(* Callers see a call move only when it is answered.                       *)
LEMMA CallsMoved ==
    ASSUME TypeOK, CallInv, NEW r \in Request, ~At(r, "idle"),
           NEW pc \in Pc, NEW staged \in SUBSET {"row", "entry"},
           NEW answer \in Answers,
           Place(req[r].op, pc, staged, answer),
           Moved(r, pc, staged, answer)
    PROVE  /\ Calls' = [Calls EXCEPT ![r].answer = answer]
           /\ answer = req[r].answer => Calls' = Calls
<1>1. /\ req'[r].answer = answer
      /\ \A o \in Request :
            /\ req'[o].op = req[o].op
            /\ req'[o].target = req[o].target
            /\ req'[o].actor = req[o].actor
            /\ o # r => req'[o] = req[o]
  BY MovedEffect
<1>2. ASSUME NEW o \in Request
      PROVE  /\ Calls'[o] = [Calls EXCEPT ![r].answer = answer][o]
             /\ answer = req[r].answer => Calls'[o] = Calls[o]
  <2>1. CASE o = r
    BY <1>1, <2>1 DEF Calls
  <2>2. CASE o # r
    BY <1>1, <2>2 DEF Calls
  <2> QED
    BY <2>1, <2>2
<1>3. /\ Calls' = [o \in Request |-> Calls'[o]]
      /\ Calls = [o \in Request |-> Calls[o]]
      /\ [Calls EXCEPT ![r].answer = answer]
         = [o \in Request |-> [Calls EXCEPT ![r].answer = answer][o]]
  BY DEF Calls
<1> QED
  BY <1>2, <1>3, Zenon

\* The steps that answer nobody and change no table: callers see nothing.
LEMMA QuietCalls ==
    ASSUME Inv, NEW r \in Request, Acquire(r) \/ Update(r) \/ LogAction(r)
    PROVE  UNCHANGED Service!recordVars
<1>1. req[r] \in Call /\ ~At(r, "idle") /\ req[r].answer = "none"
  BY DEF Inv, CallInv, At, Acquire, Update, LogAction, Log
<1>2. UNCHANGED <<marks, audit, scan>>
  BY DEF Acquire, Update, LogAction, Log
<1>3. ASSUME NEW pc \in Pc, NEW staged \in SUBSET {"row", "entry"},
             Place(req[r].op, pc, staged, "none"),
             Moved(r, pc, staged, req[r].answer)
      PROVE  Calls' = Calls
  <2>1. "none" \in Answers /\ Moved(r, pc, staged, "none")
    BY <1>1, <1>3 DEF Answers
  <2>2. TypeOK /\ CallInv
    BY DEF Inv
  <2> QED
    BY <1>1, <1>3, <2>1, <2>2, CallsMoved
<1>4. CASE Acquire(r)
  <2>1. PICK pc \in {"select", "insert", "close"} :
          /\ Goto(r, pc)
          /\ pc = "select" => req[r].op \in Mark
          /\ pc = "insert" => req[r].op = "trigger"
          /\ pc = "close" => req[r].op = "complete"
    BY <1>4 DEF Acquire
  <2>2. Moved(r, pc, req[r].staged, req[r].answer)
    BY <1>1, <2>1, Moves DEF Inv
  <2>3. req[r].staged = {}
    BY <1>4 DEF Acquire, At, Inv, CallInv
  <2> QED
    BY <1>2, <1>3, <2>1, <2>2, <2>3 DEF Place, Pc, Service!recordVars
<1>5. CASE Update(r)
  <2>1. /\ req[r].op \in Mark
        /\ req' = [req EXCEPT ![r].pc = "audit", ![r].staged = {"row"}]
    BY <1>5 DEF Update, Inv, CallInv, At
  <2>2. Moved(r, "audit", {"row"}, req[r].answer)
    BY <1>1, <2>1, Moves DEF Inv
  <2> QED
    BY <1>2, <1>3, <2>1, <2>2 DEF Place, Pc, Service!recordVars
<1>6. CASE LogAction(r)
  <2>1. /\ req[r].op \in Mark
        /\ req' = [req EXCEPT ![r].pc = "commit", ![r].staged = {"row", "entry"}]
    BY <1>6 DEF LogAction, Log, Inv, CallInv, At
  <2>2. Moved(r, "commit", {"row", "entry"}, req[r].answer)
    BY <1>1, <2>1, Moves DEF Inv
  <2> QED
    BY <1>2, <1>3, <2>1, <2>2 DEF Place, Pc, Service!recordVars
<1> QED
  BY <1>4, <1>5, <1>6

\* An answer is seen as it is given.
LEMMA AnswerSeen ==
    ASSUME Inv, NEW r \in Request, ~At(r, "idle"), ~At(r, "done"),
           NEW answer \in Answers, Answer(r, answer)
    PROVE  /\ Service!Told(r, answer)
           /\ Calls[r].answer = "none"
           /\ Calls[r].op = req[r].op /\ Calls[r].target = req[r].target
           /\ Calls[r].actor = req[r].actor
<1>1. req[r] \in Call /\ req[r].answer = "none"
  BY DEF Inv, CallInv, At
<1>2. Moved(r, "done", req[r].staged, answer)
  BY Moves DEF Inv
<1>3. Place(req[r].op, "done", req[r].staged, answer)
  BY DEF Place
<1>4. "done" \in Pc /\ req[r].staged \in SUBSET {"row", "entry"}
  BY <1>1 DEF Pc, Call
<1>5. Calls' = [Calls EXCEPT ![r].answer = answer]
  BY <1>2, <1>3, <1>4, CallsMoved DEF Inv
<1> QED
  BY <1>1, <1>5 DEF Service!Told, Calls

LEMMA FreeIsNotBarred ==
    ASSUME NEW q \in Record, NEW op \in Mark
    PROVE  Service!Free(q, op) <=> ~Barred(q, Bars(op))
BY DEF Service!Free, Barred, Bars, Mark

LEMMA StepIsAtomic ==
    ASSUME Inv, Inv', Next
    PROVE  Service!Next \/ UNCHANGED Service!recordVars
<1>1. PICK r \in Request : Arrive(r) \/ Step(r) \/ CommitLost(r) \/ Fail(r)
  BY DEF Next
<1>2. CASE Arrive(r)
  <2>1. At(r, "idle") /\ UNCHANGED <<marks, audit, scan>>
    BY <1>2 DEF Arrive, ArriveAs
  <2>2. PICK op \in Op, target \in QuarantineId \cup Scan, actor \in Actor \cup {Nobody},
             pc \in {"acquire", "done"}, answer \in {"none", "unconfirmed"} :
          /\ answer = "unconfirmed" => op = "delete"
          /\ req' = [req EXCEPT ![r] =
               [pc |-> pc, op |-> op, target |-> target,
                actor |-> actor, staged |-> {}, answer |-> answer]]
    <3>1. PICK op \in Op : \E target \in Target(op), actor \in Actor \cup {Nobody} :
            \E pc \in {"acquire", "done"}, answer \in {"none", "unconfirmed"} :
              /\ answer = "unconfirmed" => op = "delete"
              /\ req' = [req EXCEPT ![r] =
                   [pc |-> pc, op |-> op, target |-> target,
                    actor |-> actor, staged |-> {}, answer |-> answer]]
      BY <1>2 DEF Arrive, ArriveAs
    <3> QED
      BY <3>1 DEF Target
  <2>3. req[r] = NoCall
    BY <2>1 DEF Inv, TypeOK, At, Call
  <2>4. Calls[r] = Service!Unasked
    BY <2>3 DEF Calls, NoCall, Service!Unasked
  <2>5. Calls' = [Calls EXCEPT ![r] = [op |-> op, target |-> target,
                                       actor |-> actor, answer |-> answer]]
    <3>1. req \in [Request -> Call \cup {NoCall}]
      BY DEF Inv, TypeOK
    <3>2. /\ req'[r].op = op /\ req'[r].target = target
          /\ req'[r].actor = actor /\ req'[r].answer = answer
          /\ \A o \in Request : o # r => req'[o] = req[o]
      BY <2>2, <3>1
    <3> QED
      BY <3>2 DEF Calls
  <2>6. Service!Ask(r)
    BY <2>1, <2>2, <2>4, <2>5 DEF Service!Ask, Service!Marking, Op, Mark
  <2> QED
    BY <2>6 DEF Service!Next
<1>3. CASE Acquire(r) \/ Update(r) \/ LogAction(r)
  BY <1>3, QuietCalls
<1>4. CASE Select(r)
  <2>1. /\ At(r, "select") /\ req[r].op \in Mark /\ UNCHANGED <<marks, audit, scan>>
        /\ ~At(r, "idle") /\ ~At(r, "done")
    BY <1>4 DEF Select, SelectBarredBy, Inv, CallInv, At
  <2>2. CASE Goto(r, "update")
    <3>1. Moved(r, "update", req[r].staged, req[r].answer)
      BY <2>1, <2>2, Moves DEF Inv
    <3>2. /\ Place(req[r].op, "update", req[r].staged, req[r].answer)
          /\ "update" \in Pc /\ req[r].staged \in SUBSET {"row", "entry"}
          /\ req[r].answer \in Answers
      BY <2>1 DEF Inv, CallInv, At, Place, Pc, Answers
    <3>3. Calls' = Calls
      BY <2>1, <3>1, <3>2, CallsMoved DEF Inv
    <3> QED
      BY <2>1, <3>3 DEF Service!recordVars
  <2>3. CASE req[r].target \notin Record /\ Answer(r, "not found")
    <3>1. Service!Told(r, "not found") /\ Service!Asked(r, req[r].op)
          /\ Calls[r].target = req[r].target
      BY <2>1, <2>3, AnswerSeen DEF Answers, Service!Asked
    <3> QED
      BY <2>1, <2>3, <3>1 DEF Service!Next, Service!Refuse, Mark
  <2>4. CASE /\ req[r].target \in Record /\ Barred(req[r].target, Bars(req[r].op))
             /\ Answer(r, "conflict")
    <3>1. Service!Told(r, "conflict") /\ Service!Asked(r, req[r].op)
          /\ Calls[r].target = req[r].target /\ Calls[r].op = req[r].op
      BY <2>1, <2>4, AnswerSeen DEF Answers, Service!Asked
    <3>2. ~Service!Free(req[r].target, req[r].op)
      BY <2>1, <2>4, FreeIsNotBarred
    <3> QED
      BY <2>1, <2>4, <3>1, <3>2 DEF Service!Next, Service!Refuse, Mark
  <2> QED
    BY <1>4, <2>2, <2>3, <2>4 DEF Select, SelectBarredBy
<1>5. CASE Commit(r) \/ CommitLost(r)
  <2>1. /\ At(r, "commit") /\ ~At(r, "idle") /\ ~At(r, "done") /\ Committed(r)
        /\ req[r].op \in Mark /\ req[r].staged = {"row", "entry"}
        /\ req[r].target \in Record /\ ~Barred(req[r].target, Bars(req[r].op))
    BY <1>5 DEF Commit, CommitLost, Inv, CallInv, LockInv, InTransaction, At
  <2>2. PICK answer \in {"ok", "error"} : Answer(r, answer)
    BY <1>5 DEF Commit, CommitLost
  <2>3. /\ Service!Told(r, answer) /\ Service!Asked(r, req[r].op)
        /\ Calls[r].op = req[r].op /\ Calls[r].target = req[r].target
        /\ Calls[r].actor = req[r].actor
    BY <2>1, <2>2, AnswerSeen DEF Answers, Service!Asked
  <2>4. Service!Free(req[r].target, req[r].op)
    BY <2>1, FreeIsNotBarred
  <2>5. /\ marks' = [marks EXCEPT ![req[r].target][req[r].op] = req[r].actor]
        /\ audit' = audit \cup {Entry(r)} /\ scan' = scan
    BY <2>1 DEF Committed
  <2>6. Service!MarkRecord(r)
    BY <2>1, <2>2, <2>3, <2>4, <2>5 DEF Service!MarkRecord, Service!Served, Entry, Mark
  <2> QED
    BY <2>6 DEF Service!Next
<1>6. CASE InsertScan(r)
  <2>1. /\ At(r, "insert") /\ ~At(r, "idle") /\ ~At(r, "done")
        /\ req[r].op = "trigger" /\ scan[req[r].target] = "none"
        /\ scan' = [scan EXCEPT ![req[r].target] = "running"] /\ UNCHANGED <<marks, audit>>
    BY <1>6 DEF InsertScan, Inv, CallInv, ScanInv, At
  <2>2. PICK answer \in {"ok", "error"} : Answer(r, answer)
    BY <1>6 DEF InsertScan
  <2>3. /\ Service!Told(r, answer) /\ Service!Asked(r, "trigger")
        /\ Calls[r].target = req[r].target
    BY <2>1, <2>2, AnswerSeen DEF Answers, Service!Asked
  <2> QED
    BY <2>1, <2>2, <2>3 DEF Service!Next, Service!OpenScan, Service!Served
<1>7. CASE CloseScan(r)
  <2>1. /\ At(r, "close") /\ ~At(r, "idle") /\ ~At(r, "done")
        /\ req[r].op = "complete" /\ UNCHANGED <<marks, audit>>
    BY <1>7 DEF CloseScan, CloseFrom, Inv, CallInv, At
  <2>2. PICK answer \in {"ok", "error", "not found"} :
          /\ Answer(r, answer)
          /\ \/ /\ scan[req[r].target] = "running" /\ answer # "not found"
                /\ scan' = [scan EXCEPT ![req[r].target] = "completed"]
             \/ /\ scan[req[r].target] # "running" /\ answer = "not found"
                /\ UNCHANGED scan
    BY <1>7 DEF CloseScan, CloseFrom
  <2>3. /\ Service!Told(r, answer) /\ Service!Asked(r, "complete")
        /\ Calls[r].target = req[r].target
    BY <2>1, <2>2, AnswerSeen DEF Answers, Service!Asked
  <2> QED
    BY <2>1, <2>2, <2>3 DEF Service!Next, Service!EndScan, Service!Served
<1>8. CASE Fail(r)
  <2>1. /\ ~At(r, "idle") /\ ~At(r, "done") /\ Answer(r, "error")
        /\ UNCHANGED <<marks, audit, scan>>
    BY <1>8 DEF Fail, At
  <2>2. Service!Told(r, "error") /\ Calls[r].answer = "none" /\ Calls[r].op = req[r].op
    BY <2>1, AnswerSeen DEF Answers
  <2>3. req[r].op # "none"
    BY <2>1 DEF Inv, CallInv, At, Call, Op, Mark
  <2> QED
    BY <2>1, <2>2, <2>3 DEF Service!Next, Service!GiveUp
<1> QED
  BY <1>1, <1>2, <1>3, <1>4, <1>5, <1>6, <1>7, <1>8 DEF Step

(* The management API implements RecordsService: with any number of calls, *)
(* records and connections, each restore, delete, trigger and completion   *)
(* takes effect and is answered on one state, or fails without effect.     *)
THEOREM CallsAreAtomicAlways == Spec => CallsAreAtomic
<1>1. Init => Service!Init
  BY DEF Init, Service!Init, Calls, NoCall, Service!Unasked, Mark, Service!Marking
<1>2. Inv /\ Inv' /\ [Next]_vars => [Service!Next]_Service!recordVars
  <2>1. UNCHANGED vars => UNCHANGED Service!recordVars
    BY DEF vars, Calls, Service!recordVars
  <2> QED
    BY <2>1, StepIsAtomic
<1> QED
  BY <1>1, <1>2, InvAlways, PTL DEF Spec, CallsAreAtomic, Service!Spec
=============================================================================

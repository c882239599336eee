--------------------------- MODULE RecordsService ---------------------------
(***************************************************************************)
(* What the AV management API promises to its callers: the abstract        *)
(* specification that AvRecords implements.                                *)
(*                                                                         *)
(* There are no connections, locks, transactions or statements here: a     *)
(* call is asked and later answered, and at one moment in between it does  *)
(* all it does, to the record and to the audit log together, on the state  *)
(* as it then is.  Only an "error" leaves the caller in doubt whether it   *)
(* took effect.                                                            *)
(***************************************************************************)

CONSTANTS QuarantineId, Record, Scan, Actor, Nobody, Request

VARIABLES
    marks,  \* marks[q]["restore"], ["delete"]: who did it
    audit,  \* the audit log
    scan,   \* scan[s]: "none", "running" or "completed"
    call    \* call[r]: what is asked and the answer, "none" while there is none

recordVars == <<marks, audit, scan, call>>

Marking == {"restore", "delete"}
Unasked == [op |-> "none", target |-> Nobody, actor |-> Nobody, answer |-> "none"]

Init ==
    /\ marks = [q \in Record |-> [m \in Marking |-> Nobody]]
    /\ audit = {}
    /\ scan = [s \in Scan |-> "none"]
    /\ call = [r \in Request |-> Unasked]

Asked(r, op) == call[r].op = op /\ call[r].answer = "none"
Told(r, answer) == call' = [call EXCEPT ![r].answer = answer]

\* A call that has taken effect is answered so, or its reply is lost.
Served(r) == Told(r, "ok") \/ Told(r, "error")

Ask(r) ==
    /\ call[r] = Unasked
    /\ \E op \in Marking \cup {"trigger", "complete"},
          target \in QuarantineId \cup Scan, actor \in Actor \cup {Nobody},
          answer \in {"none", "unconfirmed"} :
          /\ answer = "unconfirmed" => op = "delete"
          /\ call' = [call EXCEPT ![r] = [op |-> op, target |-> target,
                                          actor |-> actor, answer |-> answer]]
    /\ UNCHANGED <<marks, audit, scan>>

\* Nothing is restored twice, deleted twice, or restored once deleted.
Free(q, op) ==
    /\ marks[q]["delete"] = Nobody
    /\ op = "restore" => marks[q]["restore"] = Nobody

\* The mark and its audit entry, in one.
MarkRecord(r) ==
    /\ Asked(r, "restore") \/ Asked(r, "delete")
    /\ LET q == call[r].target
           op == call[r].op
       IN  /\ q \in Record /\ Free(q, op)
           /\ marks' = [marks EXCEPT ![q][op] = call[r].actor]
           /\ audit' = audit \cup {[by |-> r, action |-> op, target |-> q,
                                    actor |-> call[r].actor]}
    /\ Served(r)
    /\ UNCHANGED scan

Refuse(r) ==
    /\ Asked(r, "restore") \/ Asked(r, "delete")
    /\ \/ call[r].target \notin Record /\ Told(r, "not found")
       \/ /\ call[r].target \in Record /\ ~Free(call[r].target, call[r].op)
          /\ Told(r, "conflict")
    /\ UNCHANGED <<marks, audit, scan>>

OpenScan(r) ==
    /\ Asked(r, "trigger")
    /\ scan[call[r].target] = "none"
    /\ scan' = [scan EXCEPT ![call[r].target] = "running"]
    /\ Served(r)
    /\ UNCHANGED <<marks, audit>>

EndScan(r) ==
    /\ Asked(r, "complete")
    /\ \/ /\ scan[call[r].target] = "running"
          /\ scan' = [scan EXCEPT ![call[r].target] = "completed"]
          /\ Served(r)
       \/ /\ scan[call[r].target] # "running"
          /\ Told(r, "not found")
          /\ UNCHANGED scan
    /\ UNCHANGED <<marks, audit>>

\* An error without effect.
GiveUp(r) ==
    /\ call[r].op # "none" /\ call[r].answer = "none"
    /\ Told(r, "error")
    /\ UNCHANGED <<marks, audit, scan>>

Next == \E r \in Request :
    Ask(r) \/ MarkRecord(r) \/ Refuse(r) \/ OpenScan(r) \/ EndScan(r) \/ GiveUp(r)

Spec == Init /\ [][Next]_recordVars
=============================================================================

--------------------------- MODULE VerdictService ---------------------------
(***************************************************************************)
(* What the backend promises to whoever uploads files and asks for their   *)
(* verdicts: the abstract specification that AnalysisPipeline implements   *)
(* and that AgentLoop is written against.                                  *)
(*                                                                         *)
(* A file is submitted once, however many clients upload it.  Its status   *)
(* may be followed, and may go back and forth; but "completed" comes with  *)
(* a verdict, a verdict once known is never unknown again, whichever       *)
(* table, cache or dictionary a request is answered from, and every answer *)
(* is one that the evidence on the file supports.                          *)
(***************************************************************************)

CONSTANTS
    File,     \* what is judged
    Verdict   \* what can be said of it

VARIABLES
    status,   \* status[f]: how far the analysis of f is
    grounds,  \* grounds[f]: the verdicts the evidence on f supports
    known     \* known[f]: the verdicts a request about f may be answered with

serviceVars == <<status, grounds, known>>

Progress == {"open", "failed"}

Init ==
    /\ status = [f \in File |-> "none"]
    /\ grounds \in [File -> SUBSET Verdict]
    /\ known = [f \in File |-> {}]

\* The first upload of the file; later ones are answered with its task.
Submit(f) ==
    /\ status[f] = "none"
    /\ status' = [status EXCEPT ![f] = "open"]
    /\ UNCHANGED <<grounds, known>>

\* A worker takes the task up again or fails it.
Track(f, s) ==
    /\ status[f] # "none"
    /\ status' = [status EXCEPT ![f] = s]
    /\ UNCHANGED <<grounds, known>>

Judge(f) ==
    /\ status[f] # "none"
    /\ status' = [status EXCEPT ![f] = "completed"]
    /\ \E k \in (SUBSET grounds[f]) \ {{}} : known' = [known EXCEPT ![f] = k]
    /\ UNCHANGED grounds

(* New evidence on files, and copies of verdicts made, replaced, expired   *)
(* or lost: what is known stays known, with answers that are supported.    *)
Revise ==
    /\ grounds' \in [File -> SUBSET Verdict]
    /\ known' \in [File -> SUBSET Verdict]
    /\ \A f \in File : /\ grounds[f] \subseteq grounds'[f]
                       /\ known'[f] \subseteq grounds'[f]
                       /\ known'[f] = {} <=> known[f] = {}
    /\ UNCHANGED status

Next ==
    \/ \E f \in File : \/ Submit(f) \/ Judge(f)
                       \/ \E s \in Progress : Track(f, s)
    \/ Revise

Spec == Init /\ [][Next]_serviceVars

(* The analysis of a submitted file ends, with a verdict or without one.   *)
(* Nothing promises that it does.                                          *)
Settle(f) ==
    /\ status[f] = "open"
    /\ Judge(f) \/ Track(f, "failed")
=============================================================================

---------------------------- MODULE MCAgentLoop -----------------------------
(* Two files, two contents, one of which a local rule matches.  In the     *)
(* safety run the evidence on a content starts with one class, which may   *)
(* differ between the two; others add to it.  In the progress run there is *)
(* a file at every path and nothing yet speaks against it.                 *)
EXTENDS AgentLoop

CONSTANTS p1, p2, plain, rule_hit

\* Both names are UTF-8; or p2 is not, and is read as p1.
MCUtf8 == [p \in Path |-> p]
MCLossy == [p \in Path |-> p1]

EachItsClass == grounds \in [Digest -> {{c} : c \in Class}] /\ Init

Harmless ==
    /\ grounds = [h \in Digest |-> Class \ {Malicious}]
    /\ Init
    /\ \A p \in Path : file[p] # Nothing

MCSpec == EachItsClass /\ [][Next]_vars
MCFairSpec == Harmless /\ [][Next]_vars /\ Fairness
=============================================================================

----------------------------- MODULE Reputation -----------------------------
(***************************************************************************)
(* The scoring rules of the backend: how a risk score and a sighting count *)
(* become a verdict (backend/services/reputation.py), what the ML worker   *)
(* stores for a sighting (backend/workers/ml_worker.py) and how the        *)
(* sandbox worker folds its report in (backend/workers/sandbox_worker.py). *)
(*                                                                         *)
(* Scores are counted in hundredths of a point: evaluate_risk rounds to    *)
(* two decimals, so 0..10000 is every score the model can emit.            *)
(***************************************************************************)
EXTENDS Integers

CONSTANTS
    SuspiciousThreshold,  \* settings.SUSPICIOUS_THRESHOLD, 40.00 by default
    MaliciousThreshold    \* settings.MALICIOUS_THRESHOLD, 70.00 by default

\* Both thresholds are read from the environment and nothing orders them.
ASSUME ThresholdAssumption ==
    /\ SuspiciousThreshold \in 0..10000
    /\ MaliciousThreshold \in 0..10000

MaxRisk == 10000
RiskScore == 0..MaxRisk
Label == {"benign", "suspicious", "malicious"}

Smaller(a, b) == IF a <= b THEN a ELSE b
Larger(a, b) == IF a >= b THEN a ELSE b

(* A row of the reputation table.  No row is the record with frequency 0:  *)
(* lookup_hash answers "unknown" for it.                                   *)
ReputationRow ==
    [freq: Nat, risk: RiskScore, label: Label \cup {"unknown"}, malicious: BOOLEAN]

NoReputation == [freq |-> 0, risk |-> 0, label |-> "unknown", malicious |-> FALSE]

\* Frequent sightings lower the cutoff, by at most ten points and never below fifty.
DynamicMalicious(freq) ==
    Larger(5000, MaliciousThreshold - Smaller(1000, 20 * freq))

ClassifyRisk(risk, freq) ==
    IF risk >= DynamicMalicious(freq) THEN "malicious"
    ELSE IF risk >= SuspiciousThreshold THEN "suspicious"
    ELSE "benign"

(* The row after one more inference of the given risk: the first is        *)
(* classified with frequency 1 by evaluate_risk, later ones with the count *)
(* just incremented, so inserting and updating are the same function.      *)
Sighted(row, risk) ==
    LET label == ClassifyRisk(risk, row.freq + 1)
    IN  [freq |-> row.freq + 1, risk |-> risk, label |-> label,
         malicious |-> label = "malicious"]

\* Mutant: the clamp at 100 is forgotten.
CombinedUnclamped(row, report) ==
    [row EXCEPT !.risk = @ + report, !.label = "malicious", !.malicious = TRUE]

\* Mutant: the report replaces the model's score instead of adding to it.
CombinedReplaced(row, report) ==
    [row EXCEPT !.risk = report,
                !.label = IF report > 7500 THEN "malicious" ELSE @]

\* Mutant: the label is raised and the flag is not.
CombinedLabelOnly(row, report) ==
    LET risk == Smaller(MaxRisk, row.risk + report)
    IN  [row EXCEPT !.risk = risk,
                    !.label = IF risk > 7500 THEN "malicious" ELSE @]

(* The row after a sandbox report: is_malicious is raised with the label   *)
(* "malicious" and left alone by the label "suspicious".                   *)
Combined(row, report) ==
    LET risk == Smaller(MaxRisk, row.risk + report)
    IN  [freq      |-> row.freq,
         risk      |-> risk,
         label     |-> IF risk > 7500 THEN "malicious"
                       ELSE IF risk > 4000 THEN "suspicious" ELSE row.label,
         malicious |-> risk > 7500 \/ row.malicious = TRUE]

(* Ten times the risk the sandbox reports: three points per traced line    *)
(* that names a password file, one for a spawned process, two for a socket;*)
(* nothing when the tracer left no log, or the container failed.           *)
SandboxReport(reads, spawned, network) ==
    1000 * (3 * reads + (IF spawned THEN 1 ELSE 0) + (IF network THEN 2 ELSE 0))

\* Scores the ML worker forwards to the sandbox.
NeedsSandbox(risk) == 4000 < risk /\ risk < 9000

(* What an UPDATE leaves in a row the session loaded as old and turned     *)
(* into new: SQLAlchemy writes the columns whose value changed, the others *)
(* keep what another transaction may have committed since.                 *)
Flushed(row, old, new) ==
    [freq      |-> IF new.freq # old.freq THEN new.freq ELSE row.freq,
     risk      |-> IF new.risk # old.risk THEN new.risk ELSE row.risk,
     label     |-> IF new.label # old.label THEN new.label ELSE row.label,
     malicious |-> IF new.malicious # old.malicious THEN new.malicious ELSE row.malicious]
=============================================================================

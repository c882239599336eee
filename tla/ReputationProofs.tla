-------------------------- MODULE ReputationProofs --------------------------
(* What the scoring rules guarantee for every threshold, score and count.  *)
EXTENDS Reputation, TLAPS

LEMMA SmallerLarger ==
    ASSUME NEW a \in Int, NEW b \in Int
    PROVE  /\ Smaller(a, b) \in Int /\ Smaller(a, b) <= a /\ Smaller(a, b) <= b
           /\ Larger(a, b) \in Int /\ Larger(a, b) >= a /\ Larger(a, b) >= b
BY DEF Smaller, Larger

LEMMA CappedSum ==
    ASSUME NEW risk \in RiskScore, NEW report \in Nat
    PROVE  Smaller(MaxRisk, risk + report) \in RiskScore
           /\ Smaller(MaxRisk, risk + report) >= risk
<1>1. risk \in Nat /\ risk <= 10000
  BY DEF RiskScore, MaxRisk
<1> DEFINE capped == Smaller(MaxRisk, risk + report)
<1>2. capped = IF 10000 <= risk + report THEN 10000 ELSE risk + report
  BY DEF Smaller, MaxRisk
<1> HIDE DEF capped
<1>3. capped \in Nat /\ risk <= capped /\ capped <= 10000
  BY <1>1, <1>2
<1>4. capped \in RiskScore /\ capped >= risk
  BY <1>1, <1>3 DEF RiskScore, MaxRisk
<1> QED
  BY <1>4 DEF capped

LEMMA NoReputationType == NoReputation \in ReputationRow
BY DEF NoReputation, ReputationRow, RiskScore, MaxRisk, Label

(* services/reputation.py:8: whatever MALICIOUS_THRESHOLD is set to, the   *)
(* cutoff stays between 50 and the larger of 50 and the threshold, and it  *)
(* never rises with the number of sightings.                               *)
THEOREM CutoffBounds ==
    ASSUME NEW f \in Nat, NEW g \in Nat, f <= g
    PROVE  /\ DynamicMalicious(f) \in 5000..Larger(5000, MaliciousThreshold)
           /\ DynamicMalicious(g) <= DynamicMalicious(f)
BY ThresholdAssumption DEF DynamicMalicious, Smaller, Larger

(* Seeing a file more often never takes a "malicious" back while its score *)
(* stands.                                                                 *)
THEOREM SightingsOnlyHarden ==
    ASSUME NEW risk \in RiskScore, NEW f \in Nat, NEW g \in Nat, f <= g,
           ClassifyRisk(risk, f) = "malicious"
    PROVE  ClassifyRisk(risk, g) = "malicious"
<1>1. risk >= DynamicMalicious(f)
  BY DEF ClassifyRisk
<1>2. DynamicMalicious(f) \in Int /\ DynamicMalicious(g) \in Int
  BY ThresholdAssumption DEF DynamicMalicious, Smaller, Larger
<1>3. risk >= DynamicMalicious(g)
  BY <1>1, <1>2, CutoffBounds DEF RiskScore, MaxRisk
<1> QED
  BY <1>3 DEF ClassifyRisk

LEMMA ClassifyRiskType ==
    ASSUME NEW risk \in RiskScore, NEW f \in Nat
    PROVE  ClassifyRisk(risk, f) \in Label
BY DEF ClassifyRisk, Label

LEMMA SightedType ==
    ASSUME NEW row \in ReputationRow, NEW risk \in RiskScore
    PROVE  /\ Sighted(row, risk) \in ReputationRow
           /\ Sighted(row, risk).freq = row.freq + 1
           /\ Sighted(row, risk).risk = risk
<1>1. row.freq + 1 \in Nat
  BY DEF ReputationRow
<1>2. ClassifyRisk(risk, row.freq + 1) \in Label
  BY <1>1, ClassifyRiskType
<1> QED
  BY <1>1, <1>2 DEF Sighted, ReputationRow

LEMMA CombinedType ==
    ASSUME NEW row \in ReputationRow, NEW report \in Nat
    PROVE  /\ Combined(row, report) \in ReputationRow
           /\ Combined(row, report).freq = row.freq
           /\ Combined(row, report).risk = Smaller(MaxRisk, row.risk + report)
<1>1. row.risk \in RiskScore /\ row.freq \in Nat /\ row.malicious \in BOOLEAN
      /\ row.label \in Label \cup {"unknown"}
  BY DEF ReputationRow
<1>2. Smaller(MaxRisk, row.risk + report) \in RiskScore
  BY <1>1, CappedSum
<1> DEFINE risk == Smaller(MaxRisk, row.risk + report)
           label == IF risk > 7500 THEN "malicious"
                    ELSE IF risk > 4000 THEN "suspicious" ELSE row.label
<1>3. label \in Label \cup {"unknown"}
  BY <1>1 DEF Label
<1>4. Combined(row, report) =
        [freq |-> row.freq, risk |-> risk, label |-> label,
         malicious |-> risk > 7500 \/ row.malicious = TRUE]
  BY DEF Combined
<1> HIDE DEF risk, label
<1>5. Combined(row, report) \in ReputationRow
  BY <1>1, <1>2, <1>3, <1>4 DEF ReputationRow, risk
<1> QED
  BY <1>4, <1>5 DEF risk

LEMMA FlushedType ==
    ASSUME NEW row \in ReputationRow, NEW old \in ReputationRow, NEW new \in ReputationRow
    PROVE  /\ Flushed(row, old, new) \in ReputationRow
           /\ Flushed(row, old, new).freq = IF new.freq # old.freq THEN new.freq ELSE row.freq
           /\ Flushed(row, old, new).risk = IF new.risk # old.risk THEN new.risk ELSE row.risk
BY DEF Flushed, ReputationRow

(* sandbox_worker.py:66-78: a report never lowers the score it is folded   *)
(* into, and a score above 75 is always labelled "malicious".              *)
THEOREM ReportsOnlyRaise ==
    ASSUME NEW row \in ReputationRow, NEW report \in Nat
    PROVE  LET new == Combined(row, report)
           IN  /\ new.risk >= row.risk
               /\ new.risk > 7500 => new.label = "malicious"
<1>1. row.risk \in RiskScore
  BY DEF ReputationRow
<1>2. Smaller(MaxRisk, row.risk + report) >= row.risk
  BY <1>1, CappedSum
<1>3. Combined(row, report).risk >= row.risk
  BY <1>2 DEF Combined
<1>4. Combined(row, report).risk > 7500 => Combined(row, report).label = "malicious"
  BY DEF Combined
<1> QED
  BY <1>3, <1>4
=============================================================================

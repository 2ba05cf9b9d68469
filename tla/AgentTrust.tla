------------------------------ MODULE AgentTrust ------------------------------
(***************************************************************************)
(* The adaptive trust of an agent (app/intelligence): the behaviour profile*)
(* its recent activity gives it, the anomaly score of the profile and the  *)
(* trust score that follows a decision.                                    *)
(***************************************************************************)
EXTENDS GovernanceEngine

CONSTANTS Inputs,   \* the requests that are sent
          Scores    \* the trust scores administrators set

ASSUME TrustAssumption == Inputs \subseteq Input /\ Scores \subseteq 0 .. 100

\* BehaviorProfile: the requests of the last hour, those of them that were
\* blocked or quarantined, the external ones, and whether the risk of the
\* recent activity averages 60 or more.
Profile == [requests : Nat, blocked : Nat, external : Nat, risky : BOOLEAN]

SuspiciousSequence(p) ==
  (IF p.blocked >= 3 THEN 25 ELSE 0) + (IF p.external >= 4 THEN 25 ELSE 0)
  + (IF p.requests >= 40 THEN 30 ELSE 0)

Drift(p, i) ==
  (IF p.risky THEN 25 ELSE 0) + (IF i.production /\ i.external THEN 20 ELSE 0)

AnomalyScore(p, i, risk) ==
  AtMost(100, (IF p.requests >= 40 THEN 20 ELSE 0) + (IF p.blocked >= 3 THEN 25 ELSE 0)
              + (IF p.external >= 4 THEN 20 ELSE 0)
              + AtMost(25, AtMost(100, SuspiciousSequence(p)) \div 2)
              + AtMost(20, AtMost(100, Drift(p, i)) \div 2)
              + (IF risk >= 75 THEN 15 ELSE 0))

IsAnomalous(p, i, risk) == AnomalyScore(p, i, risk) >= 35

\* Mutant: an allowed request is rewarded whatever its risk.
RewardAllowed(decision, risk) ==
  CASE decision \in {"BLOCK", "QUARANTINE"} -> -10 [] decision = "ALLOW" -> 4 [] OTHER -> 0

\* What the decision itself is worth.
DecisionDelta(decision, risk) ==
  CASE decision \in {"BLOCK", "QUARANTINE"} -> -10
    [] decision = "ALLOW" /\ risk < 35 -> 4
    [] OTHER -> 0

AnomalyPenalty(p, i, risk) ==
  LET tenth == AnomalyScore(p, i, risk) \div 10
  IN  IF ~IsAnomalous(p, i, risk) THEN 0 ELSE IF tenth < 4 THEN 4 ELSE tenth

RiskDelta(risk) == IF risk >= 80 THEN -8 ELSE IF risk <= 25 THEN 2 ELSE 0

Delta(p, i, v) ==
  DecisionDelta(v.decision, v.risk) - AnomalyPenalty(p, i, v.risk)
  - AtMost(12, 2 * Cardinality(Matches(i))) + RiskDelta(v.risk)

\* TrustEngine.update_trust.
UpdateTrust(trust, p, i, v) == Clamp(0, 100, trust + Delta(p, i, v))
=============================================================================

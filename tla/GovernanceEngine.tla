--------------------------- MODULE GovernanceEngine ---------------------------
(***************************************************************************)
(* The governance engine (app/engine): threat detection, policy matching,  *)
(* the risk score and the decision on one request.  A request is what the  *)
(* engine tells apart: the pattern classes found in its prompt, whether    *)
(* the prompt holds a URL, the policy conditions its context satisfies, its*)
(* environment and source, and the threat level Gemini reported, if any.   *)
(***************************************************************************)
EXTENDS Integers, FiniteSets

CONSTANTS Conditions,   \* the conditions policies are made of
          PolicyIds,
          PolicyOf      \* the policies in force

AgentStatus == {"OPERATIONAL", "WARNING", "QUARANTINED", "BLOCKED"}

Decision == {"ALLOW", "BLOCK", "REVIEW", "QUARANTINE", "RATE_LIMIT"}

ThreatLevel == {"LOW", "MEDIUM", "HIGH", "CRITICAL"}

Policy ==
  [enabled : BOOLEAN, match : {"all", "any"}, conditions : SUBSET Conditions,
   action : Decision]

ASSUME EngineAssumption ==
  /\ IsFiniteSet(PolicyIds)
  /\ PolicyOf \in [PolicyIds -> Policy]

PatternClass ==
  {"prompt_injection", "data_exfiltration", "credential_exposure", "suspicious_api_access"}

ThreatType == PatternClass \cup {"anomalous_behavior"}

Input ==
  [patterns : SUBSET PatternClass, url : BOOLEAN, holds : SUBSET Conditions,
   production : BOOLEAN, external : BOOLEAN,
   gemini : ThreatLevel \cup {"none", "other"}]

Clamp(lo, hi, x) == IF x < lo THEN lo ELSE IF x > hi THEN hi ELSE x

AtMost(hi, x) == IF x > hi THEN hi ELSE x

-----------------------------------------------------------------------------
(* Threats and policies.                                                   *)

Threats(i) == i.patterns \cup {t \in {"anomalous_behavior"} : i.url /\ i.production}

ThreatSeverity(t) ==
  CASE t \in {"data_exfiltration", "credential_exposure"} -> "CRITICAL"
    [] t \in {"prompt_injection", "anomalous_behavior"} -> "HIGH"
    [] OTHER -> "MEDIUM"

\* A policy without conditions never matches.
Applies(policy, i) ==
  /\ policy.enabled
  /\ policy.conditions # {}
  /\ \/ policy.match = "all" /\ policy.conditions \subseteq i.holds
     \/ policy.match = "any" /\ policy.conditions \cap i.holds # {}

Matches(i) == {p \in PolicyIds : Applies(PolicyOf[p], i)}

Actions(i) == {PolicyOf[p].action : p \in Matches(i)}

-----------------------------------------------------------------------------
(* Risk.                                                                   *)

\* The weight of the most severe finding.
ThreatScore(i) ==
  LET severities == {ThreatSeverity(t) : t \in Threats(i)}
  IN  IF "CRITICAL" \in severities THEN 90
      ELSE IF "HIGH" \in severities THEN 70
      ELSE IF "MEDIUM" \in severities THEN 45 ELSE 0

PolicyScore(i) == AtMost(35, 12 * Cardinality(Matches(i)))

\* Mutant: the penalty for distrust has no limit.
UncappedPenalty(trust) == IF trust < 80 THEN (80 - trust) \div 2 ELSE 0

TrustPenalty(trust) == IF trust < 80 THEN AtMost(30, (80 - trust) \div 2) ELSE 0

MetadataScore(i) ==
  (IF i.production THEN 8 ELSE 0) + (IF i.external THEN 6 ELSE 0)

GeminiScore(i) ==
  CASE i.gemini = "LOW" -> 4 [] i.gemini = "MEDIUM" -> 10 [] i.gemini = "HIGH" -> 18
    [] i.gemini = "CRITICAL" -> 25 [] OTHER -> 0

RiskScore(i, trust) ==
  Clamp(0, 100, ThreatScore(i) + PolicyScore(i) + TrustPenalty(trust)
                + MetadataScore(i) + GeminiScore(i))

Confidence(i) ==
  LET signals == Cardinality(Threats(i)) + Cardinality(Matches(i))
      base == 60 + AtMost(35, 7 * signals)
  IN  Clamp(50, 99, IF i.gemini = "none" THEN base ELSE AtMost(98, base + 5))

RiskSeverity(risk) ==
  CASE risk >= 85 -> "CRITICAL" [] risk \in 65 .. 84 -> "HIGH"
    [] risk \in 40 .. 64 -> "MEDIUM" [] OTHER -> "LOW"

-----------------------------------------------------------------------------
(* Decision.                                                               *)

Precedence == [BLOCK |-> 5, QUARANTINE |-> 4, RATE_LIMIT |-> 3, REVIEW |-> 2, ALLOW |-> 1]

\* The strongest action of the policies that match.
PolicyDecision(i) ==
  CHOOSE a \in Actions(i) : \A b \in Actions(i) : Precedence[b] <= Precedence[a]

RiskDecision(risk) ==
  CASE risk >= 85 -> "BLOCK" [] risk \in 65 .. 84 -> "REVIEW"
    [] risk \in 45 .. 64 -> "RATE_LIMIT" [] OTHER -> "ALLOW"

\* Mutant: the policies are asked before the agent's status.
PoliciesFirst(i, status, risk) ==
  IF Matches(i) # {} THEN PolicyDecision(i)
  ELSE IF status = "BLOCKED" THEN "BLOCK"
  ELSE IF status = "QUARANTINED" THEN "QUARANTINE" ELSE RiskDecision(risk)

\* The agent's status, then the policies that match, then the risk.
Decide(i, status, risk) ==
  IF status = "BLOCKED" THEN "BLOCK"
  ELSE IF status = "QUARANTINED" THEN "QUARANTINE"
  ELSE IF Matches(i) # {} THEN PolicyDecision(i) ELSE RiskDecision(risk)

\* GovernanceEngine.execute: what one request is judged to be.
Verdict ==
  [decision : Decision, risk : 0 .. 100, confidence : 50 .. 99, severity : ThreatLevel]

Execute(i, status, trust) ==
  LET risk == RiskScore(i, trust)
  IN  [decision |-> Decide(i, status, risk), risk |-> risk,
       confidence |-> Confidence(i), severity |-> RiskSeverity(risk)]
=============================================================================

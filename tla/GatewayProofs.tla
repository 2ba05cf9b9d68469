---------------------------- MODULE GatewayProofs ----------------------------
(***************************************************************************)
(* Proofs about the engines and about AgentRuntime, for any conditions,    *)
(* policies, requests, profiles and scores; and about GatewayPipeline, for *)
(* any number of requests and administrators of an agent besides.  The     *)
(* operators of GovernanceEngine and AgentTrust come first: the range of   *)
(* every score, that the strictest policy decides, and that the risk score *)
(* is monotone.                                                            *)
(***************************************************************************)
EXTENDS GatewayPipeline, AgentRuntime, FiniteSetTheorems, TLAPS

USE EngineAssumption, TrustAssumption, RuntimeAssumption

LEMMA MatchesFinite ==
  ASSUME NEW i
  PROVE  /\ IsFiniteSet(Matches(i)) /\ Cardinality(Matches(i)) \in Nat
         /\ Matches(i) # {} => Cardinality(Matches(i)) >= 1
<1>1. Matches(i) \subseteq PolicyIds
  BY DEF Matches
<1>2. IsFiniteSet(Matches(i)) /\ Cardinality(Matches(i)) \in Nat
  BY <1>1, FS_Subset, FS_CardinalityType
<1>3. Matches(i) # {} => Cardinality(Matches(i)) # 0
  BY <1>2, FS_EmptySet
<1>4. QED
  BY <1>2, <1>3

LEMMA ThreatsFinite ==
  ASSUME NEW i \in Input
  PROVE  Threats(i) \subseteq ThreatType /\ Cardinality(Threats(i)) \in Nat
<1>1. Threats(i) \subseteq ThreatType
  BY DEF Threats, ThreatType, Input
<1>2. IsFiniteSet(ThreatType)
  <2>1. IsFiniteSet({}) /\ IsFiniteSet({"prompt_injection"})
    BY FS_EmptySet, FS_Singleton
  <2>2. ThreatType = ((({"prompt_injection"} \cup {"data_exfiltration"})
                        \cup {"credential_exposure"}) \cup {"suspicious_api_access"})
                      \cup {"anomalous_behavior"}
    BY DEF ThreatType, PatternClass
  <2>3. QED
    BY <2>1, <2>2, FS_AddElement
<1>3. QED
  BY <1>1, <1>2, FS_Subset, FS_CardinalityType

\* The parts of the risk score are natural numbers, bounded as the code says.
LEMMA ScoreTypes ==
  ASSUME NEW i \in Input, NEW t \in 0 .. 100
  PROVE  /\ ThreatScore(i) \in 0 .. 90
         /\ PolicyScore(i) \in 0 .. 35
         /\ TrustPenalty(t) \in 0 .. 30
         /\ MetadataScore(i) \in 0 .. 14
         /\ GeminiScore(i) \in 0 .. 25
<1>1. ThreatScore(i) \in 0 .. 90
  BY DEF ThreatScore
<1>2. PolicyScore(i) \in 0 .. 35
  BY MatchesFinite DEF PolicyScore, AtMost
<1>3. TrustPenalty(t) \in 0 .. 30
  BY DEF TrustPenalty, AtMost
<1>4. MetadataScore(i) \in 0 .. 14
  BY DEF MetadataScore
<1>5. GeminiScore(i) \in 0 .. 25
  BY DEF GeminiScore, Input, ThreatLevel
<1>6. QED
  BY <1>1, <1>2, <1>3, <1>4, <1>5

LEMMA ClampMonotone ==
  ASSUME NEW x \in Int, NEW y \in Int, x <= y
  PROVE  /\ Clamp(0, 100, x) \in 0 .. 100
         /\ Clamp(0, 100, x) <= Clamp(0, 100, y)
  BY DEF Clamp

\* The score before it is clamped.
RawRisk(i, t) ==
  ThreatScore(i) + PolicyScore(i) + TrustPenalty(t) + MetadataScore(i) + GeminiScore(i)

LEMMA RawRiskType ==
  ASSUME NEW i \in Input, NEW t \in 0 .. 100
  PROVE  /\ RawRisk(i, t) \in Nat /\ RiskScore(i, t) = Clamp(0, 100, RawRisk(i, t))
         /\ RawRisk(i, t) >= TrustPenalty(t) + MetadataScore(i)
         /\ (ThreatScore(i) = 0 /\ PolicyScore(i) = 0)
              => RawRisk(i, t) = TrustPenalty(t) + MetadataScore(i) + GeminiScore(i)
<1> DEFINE a == ThreatScore(i)  b == PolicyScore(i)  c == TrustPenalty(t)
           d == MetadataScore(i)  e == GeminiScore(i)
<1>1. a \in Nat /\ b \in Nat /\ c \in Nat /\ d \in Nat /\ e \in Nat
  BY ScoreTypes
<1>2. RawRisk(i, t) = a + b + c + d + e
  BY DEF RawRisk
<1>3. RiskScore(i, t) = Clamp(0, 100, RawRisk(i, t))
  BY DEF RiskScore, RawRisk
<1> HIDE DEF a, b, c, d, e
<1>4. /\ RawRisk(i, t) \in Nat /\ RawRisk(i, t) >= c + d
      /\ (a = 0 /\ b = 0) => RawRisk(i, t) = c + d + e
  BY <1>1, <1>2
<1>5. QED
  BY <1>3, <1>4 DEF a, b, c, d, e

LEMMA RiskType ==
  ASSUME NEW i \in Input, NEW t \in 0 .. 100
  PROVE  RiskScore(i, t) \in 0 .. 100
  BY RawRiskType, ClampMonotone

LEMMA ConfidenceType ==
  ASSUME NEW i \in Input
  PROVE  Confidence(i) \in 50 .. 99
<1> DEFINE n == Cardinality(Threats(i))  k == Cardinality(Matches(i))
<1>1. n \in Nat /\ k \in Nat
  BY ThreatsFinite, MatchesFinite
<1>2. Confidence(i) \in {Clamp(50, 99, 60 + AtMost(35, 7 * (n + k))),
                       Clamp(50, 99, AtMost(98, 60 + AtMost(35, 7 * (n + k)) + 5))}
  BY DEF Confidence
<1> HIDE DEF n, k
<1>3. QED
  BY <1>1, <1>2 DEF Clamp, AtMost

\* The decision of the matching policies is the action of one of them, and none
\* of theirs is stronger.
LEMMA PolicyDecisionStrongest ==
  ASSUME NEW i, Matches(i) # {}
  PROVE  /\ PolicyDecision(i) \in Actions(i) /\ PolicyDecision(i) \in Decision
         /\ \A b \in Actions(i) : Precedence[b] <= Precedence[PolicyDecision(i)]
<1>1. Actions(i) \subseteq Decision /\ Actions(i) # {}
  BY DEF Actions, Matches, Policy
<1>2. \E a \in Actions(i) : \A b \in Actions(i) : Precedence[b] <= Precedence[a]
  BY <1>1 DEF Precedence, Decision
<1>3. QED
  BY <1>1, <1>2 DEF PolicyDecision

LEMMA DecideType ==
  ASSUME NEW i \in Input, NEW s, NEW r \in 0 .. 100
  PROVE  Decide(i, s, r) \in Decision
  BY PolicyDecisionStrongest DEF Decide, RiskDecision, Decision

LEMMA ExecuteType ==
  ASSUME NEW i \in Input, NEW s, NEW t \in 0 .. 100
  PROVE  Execute(i, s, t) \in Verdict
<1>1. RiskScore(i, t) \in 0 .. 100
  BY RiskType
<1>2. RiskSeverity(RiskScore(i, t)) \in ThreatLevel
  BY <1>1 DEF RiskSeverity, ThreatLevel
<1>3. QED
  BY <1>1, <1>2, ConfidenceType, DecideType DEF Execute, Verdict

LEMMA AnomalyScoreType ==
  ASSUME NEW p \in Profile, NEW i \in Input, NEW r \in 0 .. 100
  PROVE  AnomalyScore(p, i, r) \in 0 .. 100
<1>1. SuspiciousSequence(p) \in 0 .. 80
  BY DEF SuspiciousSequence, Profile
<1>2. Drift(p, i) \in 0 .. 45
  BY DEF Drift
<1>3. AtMost(25, AtMost(100, SuspiciousSequence(p)) \div 2) \in 0 .. 25
  BY <1>1 DEF AtMost
<1>4. AtMost(20, AtMost(100, Drift(p, i)) \div 2) \in 0 .. 20
  BY <1>2 DEF AtMost
<1>5. QED
  BY <1>3, <1>4 DEF AnomalyScore, AtMost, Profile

LEMMA DeltaParts ==
  ASSUME NEW p \in Profile, NEW i \in Input, NEW v \in Verdict
  PROVE  /\ DecisionDelta(v.decision, v.risk) \in -10 .. 4
         /\ AnomalyPenalty(p, i, v.risk) \in 0 .. 10
         /\ AtMost(12, 2 * Cardinality(Matches(i))) \in 0 .. 12
         /\ RiskDelta(v.risk) \in -8 .. 2
         /\ Delta(p, i, v) \in -40 .. 6
<1>1. v.decision \in Decision /\ v.risk \in 0 .. 100
  BY DEF Verdict
<1>2. DecisionDelta(v.decision, v.risk) \in -10 .. 4
  BY <1>1 DEF DecisionDelta, Decision
<1>3. AnomalyPenalty(p, i, v.risk) \in 0 .. 10
  <2> DEFINE score == AnomalyScore(p, i, v.risk)
  <2>1. score \in 0 .. 100
    BY <1>1, AnomalyScoreType
  <2>2. AnomalyPenalty(p, i, v.risk)
          \in {0, IF score \div 10 < 4 THEN 4 ELSE score \div 10}
    BY DEF AnomalyPenalty
  <2> HIDE DEF score
  <2>3. QED
    BY <2>1, <2>2
<1>4. AtMost(12, 2 * Cardinality(Matches(i))) \in 0 .. 12
  BY MatchesFinite DEF AtMost
<1>5. RiskDelta(v.risk) \in -8 .. 2
  BY <1>1 DEF RiskDelta
<1>6. QED
  BY <1>2, <1>3, <1>4, <1>5 DEF Delta

LEMMA UpdateTrustType ==
  ASSUME NEW t \in 0 .. 100, NEW p \in Profile, NEW i \in Input, NEW v \in Verdict
  PROVE  UpdateTrust(t, p, i, v) \in 0 .. 100
  BY DeltaParts DEF UpdateTrust, Clamp

-----------------------------------------------------------------------------
(* The risk score is monotone.                                             *)

\* Request j is at least as alarming as i.
Worse(i, j) ==
  /\ Threats(i) \subseteq Threats(j) /\ Matches(i) \subseteq Matches(j)
  /\ i.production => j.production
  /\ i.external => j.external
  /\ GeminiScore(i) <= GeminiScore(j)

\* A request with more findings, more matching policies, a more exposed context
\* or a higher Gemini level, or of an agent of lower trust, never has the lower
\* risk score (RiskEngine.assess).
THEOREM RiskMonotone ==
  ASSUME NEW i \in Input, NEW j \in Input, Worse(i, j),
         NEW t \in 0 .. 100, NEW u \in 0 .. 100, u <= t
  PROVE  RiskScore(i, t) <= RiskScore(j, u)
<1>1. ThreatScore(i) <= ThreatScore(j)
  BY DEF ThreatScore, Worse
<1>2. PolicyScore(i) <= PolicyScore(j)
  <2>1. Cardinality(Matches(i)) <= Cardinality(Matches(j))
    BY MatchesFinite, FS_Subset DEF Worse
  <2>2. QED
    BY <2>1, MatchesFinite DEF PolicyScore, AtMost
<1>3. TrustPenalty(t) <= TrustPenalty(u)
  BY DEF TrustPenalty, AtMost
<1>4. MetadataScore(i) <= MetadataScore(j)
  BY DEF MetadataScore, Worse, Input
<1>5. GeminiScore(i) <= GeminiScore(j)
  BY DEF Worse
<1>6. RawRisk(i, t) <= RawRisk(j, u)
  <2>1. \A x, y \in {i, j}, w \in {t, u} :
          /\ ThreatScore(x) \in Nat /\ PolicyScore(x) \in Nat /\ TrustPenalty(w) \in Nat
          /\ MetadataScore(x) \in Nat /\ GeminiScore(x) \in Nat
    BY ScoreTypes
  <2> DEFINE a == ThreatScore(i)    f == ThreatScore(j)
             b == PolicyScore(i)    g == PolicyScore(j)
             c == TrustPenalty(t)   h == TrustPenalty(u)
             d == MetadataScore(i)  k == MetadataScore(j)
             e == GeminiScore(i)    m == GeminiScore(j)
  <2>2. a \in Nat /\ b \in Nat /\ c \in Nat /\ d \in Nat /\ e \in Nat
    BY <2>1
  <2>3. f \in Nat /\ g \in Nat /\ h \in Nat /\ k \in Nat /\ m \in Nat
    BY <2>1
  <2>4. a <= f /\ b <= g /\ c <= h /\ d <= k /\ e <= m
    BY <1>1, <1>2, <1>3, <1>4, <1>5
  <2>5. RawRisk(i, t) = a + b + c + d + e /\ RawRisk(j, u) = f + g + h + k + m
    BY DEF RawRisk
  <2> HIDE DEF a, b, c, d, e, f, g, h, k, m
  <2>6. QED
    BY <2>2, <2>3, <2>4, <2>5
<1>7. QED
  <2>1. RawRisk(i, t) \in Int /\ RawRisk(j, u) \in Int
    BY RawRiskType
  <2>2. Clamp(0, 100, RawRisk(i, t)) <= Clamp(0, 100, RawRisk(j, u))
    BY <1>6, <2>1, ClampMonotone
  <2>3. QED
    BY <2>2, RawRiskType

-----------------------------------------------------------------------------
(* The invariant: every judged request was judged by the engine.           *)

Judgement(j) ==
  /\ j.verdict = Execute(j.input, j.status, j.trust)
  /\ j.stored = UpdateTrust(j.trust, j.profile, j.input, j.verdict)

Inv == RuntimeTypeOK /\ \A j \in last : Judgement(j)

LEMMA Invariance == RuntimeSpec => []Inv
<1>1. RuntimeInit => Inv
  BY DEF RuntimeInit, Inv, RuntimeTypeOK
<1>2. Inv /\ [RuntimeNext]_runtimeVars => Inv'
  <2> SUFFICES ASSUME Inv, [RuntimeNext]_runtimeVars PROVE Inv'
    OBVIOUS
  <2>1. CASE Administer
    BY <2>1 DEF Administer, Inv, RuntimeTypeOK
  <2>2. ASSUME NEW i \in Inputs, NEW p \in Profiles, Govern(i, p) PROVE Inv'
    <3> DEFINE v == Execute(i, status, trust)
               j == [status |-> status, trust |-> trust, input |-> i, profile |-> p,
                     verdict |-> v, stored |-> trust']
    <3>1. v \in Verdict
      BY ExecuteType DEF Inv, RuntimeTypeOK
    <3>2. trust' = UpdateTrust(trust, p, i, v) /\ last' = {j} /\ status' = status
      BY <2>2 DEF Govern
    <3>3. trust' \in 0 .. 100
      BY <3>1, <3>2, UpdateTrustType DEF Inv, RuntimeTypeOK
    <3>4. j \in Judged
      BY <3>1, <3>3 DEF Judged, Inv, RuntimeTypeOK
    <3>5. Judgement(j)
      BY <3>2 DEF Judgement
    <3> HIDE DEF j, v
    <3>6. QED
      BY <3>2, <3>3, <3>4, <3>5 DEF Inv, RuntimeTypeOK
  <2>3. CASE UNCHANGED runtimeVars
    BY <2>3 DEF runtimeVars, Inv, RuntimeTypeOK
  <2>4. QED
    BY <2>1, <2>2, <2>3 DEF RuntimeNext
<1>3. QED
  BY <1>1, <1>2, PTL DEF RuntimeSpec

\* The trust score stays in the range the database checks (models/ai_agent.py)
\* and every verdict is well formed, whatever is sent and administered.
THEOREM RuntimeTypeCorrect == RuntimeSpec => []RuntimeTypeOK
<1>1. Inv => RuntimeTypeOK
  BY DEF Inv
<1>2. QED
  BY <1>1, Invariance, PTL

\* What the properties say of one judged request.
LEMMA Judge ==
  ASSUME Inv, NEW j \in last
  PROVE  /\ j.status \in AgentStatus /\ j.trust \in 0 .. 100 /\ j.input \in Input
         /\ j.profile \in Profile /\ j.verdict \in Verdict
         /\ j.verdict.risk = RiskScore(j.input, j.trust)
         /\ j.verdict.decision = Decide(j.input, j.status, j.verdict.risk)
         /\ j.verdict.risk \in 0 .. 100
         /\ j.stored = Clamp(0, 100, j.trust + Delta(j.profile, j.input, j.verdict))
<1>1. j \in Judged /\ Judgement(j)
  BY DEF Inv, RuntimeTypeOK
<1>2. /\ j.status \in AgentStatus /\ j.trust \in 0 .. 100 /\ j.input \in Input
      /\ j.profile \in Profile /\ j.verdict \in Verdict
  BY <1>1 DEF Judged
<1>3. /\ j.verdict.risk = RiskScore(j.input, j.trust)
      /\ j.verdict.decision = Decide(j.input, j.status, j.verdict.risk)
  BY <1>1 DEF Judgement, Execute
<1>4. j.verdict.risk \in 0 .. 100
  BY <1>2 DEF Verdict
<1>5. j.stored = Clamp(0, 100, j.trust + Delta(j.profile, j.input, j.verdict))
  BY <1>1 DEF Judgement, UpdateTrust
<1>6. QED
  BY <1>2, <1>3, <1>4, <1>5

\* A bound on what a verdict is worth is a bound on the score it leaves.
LEMMA Stored ==
  ASSUME Inv, NEW j \in last
  PROVE  /\ Delta(j.profile, j.input, j.verdict) \in Int
         /\ \A k \in Int :
              /\ Delta(j.profile, j.input, j.verdict) <= k
                   => j.stored <= Clamp(0, 100, j.trust + k)
              /\ Delta(j.profile, j.input, j.verdict) >= k
                   => j.stored >= Clamp(0, 100, j.trust + k)
         /\ Clamp(0, 100, j.trust + 0) = j.trust
<1> DEFINE d == Delta(j.profile, j.input, j.verdict)  t == j.trust
<1>1. j.profile \in Profile /\ j.input \in Input /\ j.verdict \in Verdict
  BY Judge
<1>2. d \in Int
  BY <1>1, DeltaParts
<1>3. t \in 0 .. 100 /\ j.stored = Clamp(0, 100, t + d)
  BY Judge
<1> HIDE DEF d, t
<1>4. ASSUME NEW k \in Int
      PROVE  /\ d <= k => Clamp(0, 100, t + d) <= Clamp(0, 100, t + k)
             /\ d >= k => Clamp(0, 100, t + d) >= Clamp(0, 100, t + k)
  BY <1>2, <1>3 DEF Clamp
<1>5. Clamp(0, 100, t + 0) = t
  BY <1>3 DEF Clamp
<1>6. QED
  BY <1>2, <1>3, <1>4, <1>5 DEF d, t

\* The parts of that worth, for one judged request.
LEMMA Worth ==
  ASSUME Inv, NEW j \in last
  PROVE  \E a, b, c, e \in Int :
           /\ a = DecisionDelta(j.verdict.decision, j.verdict.risk)
           /\ b = AnomalyPenalty(j.profile, j.input, j.verdict.risk) /\ b >= 0
           /\ c = AtMost(12, 2 * Cardinality(Matches(j.input))) /\ c >= 0
           /\ e = RiskDelta(j.verdict.risk) /\ e <= 2
           /\ Delta(j.profile, j.input, j.verdict) = a - b - c + e
<1>1. j.profile \in Profile /\ j.input \in Input /\ j.verdict \in Verdict
  BY Judge
<1>2. /\ DecisionDelta(j.verdict.decision, j.verdict.risk) \in Int
      /\ AnomalyPenalty(j.profile, j.input, j.verdict.risk) \in Nat
      /\ AtMost(12, 2 * Cardinality(Matches(j.input))) \in Nat
      /\ RiskDelta(j.verdict.risk) \in Int /\ RiskDelta(j.verdict.risk) <= 2
  BY <1>1, DeltaParts
<1>3. QED
  BY <1>2 DEF Delta

\* Elevated risk is let through only by ALLOW policies alone: the strictest of
\* the matching policies decides (DecisionEngine.decide).
THEOREM AllowNeedsPolicyCorrect == RuntimeSpec => []AllowNeedsPolicy
<1>1. ASSUME Inv PROVE AllowNeedsPolicy
  <2> SUFFICES ASSUME NEW j \in last, j.verdict.decision = "ALLOW", j.verdict.risk >= 45
               PROVE  Actions(j.input) = {"ALLOW"}
    BY DEF AllowNeedsPolicy
  <2> DEFINE i == j.input
  <2>1. Matches(i) # {} /\ PolicyDecision(i) = "ALLOW"
    BY <1>1, Judge DEF Decide, RiskDecision
  <2>2. Actions(i) \subseteq Decision
    BY DEF Actions, Matches, Policy
  <2>3. \A b \in Actions(i) : Precedence[b] <= 1
    BY <2>1, PolicyDecisionStrongest DEF Precedence
  <2>4. QED
    BY <2>1, <2>2, <2>3, PolicyDecisionStrongest DEF Precedence, Decision
<1>2. QED
  BY <1>1, Invariance, PTL

\* A blocked or quarantined agent is refused, and no refusal leaves an agent
\* with more than its trust less eight (TrustEngine.update_trust).
THEOREM RefusalCostsCorrect == RuntimeSpec => []RefusalCosts
<1>1. ASSUME Inv PROVE RefusalCosts
  <2> SUFFICES ASSUME NEW j \in last
               PROVE  /\ j.status \in {"BLOCKED", "QUARANTINED"} => Refused(j)
                      /\ Refused(j) => j.stored <= Clamp(0, 100, j.trust - 8)
    BY DEF RefusalCosts
  <2>1. j.status \in {"BLOCKED", "QUARANTINED"} => Refused(j)
    BY <1>1, Judge DEF Refused, Decide
  <2>2. ASSUME Refused(j) PROVE j.stored <= Clamp(0, 100, j.trust - 8)
    <3>1. DecisionDelta(j.verdict.decision, j.verdict.risk) = -10
      BY <2>2 DEF Refused, DecisionDelta
    <3>2. Delta(j.profile, j.input, j.verdict) <= -8
      BY <1>1, <3>1, Worth
    <3>3. j.stored <= Clamp(0, 100, j.trust + (-8))
      BY <1>1, <3>2, Stored
    <3>4. j.trust + (-8) = j.trust - 8
      BY <1>1, Judge
    <3>5. QED
      BY <3>3, <3>4
  <2>3. QED
    BY <2>1, <2>2
<1>2. QED
  BY <1>1, Invariance, PTL

\* At a score of 26 or less no request in production raises the score: the
\* penalty for the score already makes the risk at least 35.
THEOREM NoWayBackCorrect == RuntimeSpec => []NoWayBackInProduction
<1>1. ASSUME Inv PROVE NoWayBackInProduction
  <2> SUFFICES ASSUME NEW j \in last, j.input.production, j.trust <= 26
               PROVE  j.stored <= j.trust
    BY DEF NoWayBackInProduction
  <2>1. TrustPenalty(j.trust) >= 27
    BY <1>1, Judge DEF TrustPenalty, AtMost
  <2>2. MetadataScore(j.input) >= 8
    BY DEF MetadataScore
  <2>3. j.verdict.risk >= 35
    <3>1. RawRisk(j.input, j.trust) >= 35
      <4> DEFINE c == TrustPenalty(j.trust)  d == MetadataScore(j.input)
                 raw == RawRisk(j.input, j.trust)
      <4>1. c \in Nat /\ d \in Nat /\ raw \in Nat /\ raw >= c + d
        <5>1. j.input \in Input /\ j.trust \in 0 .. 100
          BY <1>1, Judge
        <5>2. c \in 0 .. 30 /\ d \in 0 .. 14
          BY <5>1, ScoreTypes
        <5>3. raw \in Nat /\ raw >= c + d
          BY <5>1, RawRiskType
        <5>4. QED
          BY <5>2, <5>3
      <4> HIDE DEF c, d, raw
      <4>2. raw >= 35
        <5>1. c >= 27 /\ d >= 8
          BY <2>1, <2>2 DEF c, d
        <5>2. QED
          BY <4>1, <5>1
      <4>3. QED
        BY <4>2 DEF raw
    <3>2. /\ j.verdict.risk = Clamp(0, 100, RawRisk(j.input, j.trust))
          /\ RawRisk(j.input, j.trust) \in Nat
      BY <1>1, Judge, RawRiskType
    <3>3. QED
      BY <3>1, <3>2 DEF Clamp
  <2>4. /\ DecisionDelta(j.verdict.decision, j.verdict.risk) <= 0
        /\ RiskDelta(j.verdict.risk) <= 0
    BY <1>1, <2>3, Judge DEF DecisionDelta, RiskDelta, Verdict, Decision
  <2>5. Delta(j.profile, j.input, j.verdict) <= 0
    BY <1>1, <2>4, Worth
  <2>6. QED
    BY <1>1, <2>5, Stored
<1>2. QED
  BY <1>1, Invariance, PTL

\* The risk of a clean request is the penalty for the score and the surcharge of
\* its context, and what it earns depends on whether they stay below 35.
LEMMA CleanRisk ==
  ASSUME Inv, NEW j \in last, Clean(j)
  PROVE  /\ Surcharge(j.input) \in 0 .. 39
         /\ j.verdict.risk = TrustPenalty(j.trust) + Surcharge(j.input)
         /\ AnomalyPenalty(j.profile, j.input, j.verdict.risk) = 0
         /\ AtMost(12, 2 * Cardinality(Matches(j.input))) = 0
<1>1. j.input \in Input /\ j.trust \in 0 .. 100
  BY Judge
<1>2. Cardinality(Matches(j.input)) = 0
  BY FS_EmptySet DEF Clean
<1>3. ThreatScore(j.input) = 0 /\ PolicyScore(j.input) = 0
  BY <1>2 DEF ThreatScore, PolicyScore, AtMost, Clean
<1> DEFINE p == TrustPenalty(j.trust)  m == MetadataScore(j.input)  g == GeminiScore(j.input)
<1>4. p \in 0 .. 30 /\ m \in 0 .. 14 /\ g \in 0 .. 25
  BY <1>1, ScoreTypes
<1>5. RawRisk(j.input, j.trust) = p + m + g
  BY <1>1, <1>3, RawRiskType
<1>6. j.verdict.risk = Clamp(0, 100, RawRisk(j.input, j.trust)) /\ Surcharge(j.input) = m + g
  BY <1>1, Judge, RawRiskType DEF Surcharge
<1> HIDE DEF p, m, g
<1>7. Surcharge(j.input) \in 0 .. 39 /\ j.verdict.risk = p + Surcharge(j.input)
  BY <1>4, <1>5, <1>6 DEF Clamp
<1>8. AnomalyPenalty(j.profile, j.input, j.verdict.risk) = 0
  BY DEF AnomalyPenalty, Clean
<1>9. AtMost(12, 2 * Cardinality(Matches(j.input))) = 0
  BY <1>2 DEF AtMost
<1>10. QED
  BY <1>7, <1>8, <1>9 DEF p

\* A clean request earns four points or more exactly where the penalty for the
\* score and its surcharge sum up to less than 35, and never costs any.
THEOREM RecoveryThresholdCorrect == RuntimeSpec => []RecoveryThreshold
<1>1. ASSUME Inv PROVE RecoveryThreshold
  <2> DEFINE Earns(j) == \/ Surcharge(j.input) <= 4
                         \/ Surcharge(j.input) <= 34 /\ j.trust >= 11 + 2 * Surcharge(j.input)
  <2> SUFFICES ASSUME NEW j \in last, Clean(j)
               PROVE  IF Earns(j) THEN j.stored >= Clamp(0, 100, j.trust + 4)
                                  ELSE j.stored = j.trust
    BY DEF RecoveryThreshold
  <2>1. PICK a, b, c, e \in Int :
          /\ a = DecisionDelta(j.verdict.decision, j.verdict.risk)
          /\ b = AnomalyPenalty(j.profile, j.input, j.verdict.risk)
          /\ c = AtMost(12, 2 * Cardinality(Matches(j.input)))
          /\ e = RiskDelta(j.verdict.risk)
          /\ Delta(j.profile, j.input, j.verdict) = a - b - c + e
    BY <1>1, Worth
  <2>2. b = 0 /\ c = 0
    BY <1>1, <2>1, CleanRisk
  <2>3. /\ j.verdict.risk \in 0 .. 69
        /\ Earns(j) <=> j.verdict.risk < 35
    <3> DEFINE t == j.trust  s == Surcharge(j.input)  p == TrustPenalty(t)
    <3>1. t \in 0 .. 100 /\ s \in 0 .. 39 /\ j.verdict.risk = p + s
      BY <1>1, Judge, CleanRisk
    <3>2. p = IF t >= 80 THEN 0 ELSE IF t <= 18 THEN 30 ELSE (80 - t) \div 2
      BY <3>1 DEF TrustPenalty, AtMost
    <3>3. Earns(j) <=> \/ s <= 4
                       \/ s <= 34 /\ t >= 11 + 2 * s
      OBVIOUS
    <3> HIDE DEF t, s, p, Earns
    <3>4. QED
      BY <3>1, <3>2, <3>3
  <2>4. j.verdict.decision = RiskDecision(j.verdict.risk)
    BY <1>1, Judge DEF Decide, Clean
  <2> HIDE DEF Earns
  <2>5. CASE Earns(j)
    <3>1. a = 4 /\ e >= 0
      BY <2>1, <2>3, <2>4, <2>5 DEF DecisionDelta, RiskDelta, RiskDecision
    <3>2. Delta(j.profile, j.input, j.verdict) >= 4
      BY <2>1, <2>2, <3>1
    <3>3. QED
      BY <1>1, <2>5, <3>2, Stored
  <2>6. CASE ~Earns(j)
    <3>1. a = 0 /\ e = 0
      BY <2>1, <2>3, <2>4, <2>6 DEF DecisionDelta, RiskDelta, RiskDecision
    <3>2. Delta(j.profile, j.input, j.verdict) = 0
      BY <2>1, <2>2, <3>1
    <3>3. j.stored = Clamp(0, 100, j.trust + 0)
      BY <1>1, <3>2, Judge
    <3>4. QED
      BY <1>1, <2>6, <3>3, Stored
  <2>7. QED
    BY <2>5, <2>6
<1>2. QED
  BY <1>1, Invariance, PTL

-----------------------------------------------------------------------------
(* Requests and administrators as concurrent transactions.                 *)

HIDE RuntimeAssumption
USE PipelineAssumption


LEMMA MergeType ==
  ASSUME agent \in Row, NEW mine \in Row, NEW columns
  PROVE  Merge(mine, columns) \in Row
  BY DEF Merge, Row

LEMMA ProfileType ==
  ASSUME NEW r \in Requests, NEW i,
         NEW activity \in {Visible(r), {}}, NEW recent \in SUBSET activity
  PROVE  ProfileOf(i, activity, recent) \in Profile
<1> DEFINE blocked == {q \in recent : \E j \in judged[q] :
                          j.verdict.decision \in {"BLOCK", "QUARANTINE"}}
           external == {q \in recent : \E j \in judged[q] : j.input.external}
<1>1. IsFiniteSet(recent)
  BY FS_Subset DEF Visible
<1>2. IsFiniteSet(blocked) /\ IsFiniteSet(external)
  <2>1. blocked \subseteq recent /\ external \subseteq recent
    OBVIOUS
  <2>2. QED
    BY <1>1, <2>1, FS_Subset
<1>3. /\ Cardinality(recent) \in Nat /\ Cardinality(blocked) \in Nat
      /\ Cardinality(external) \in Nat
  BY <1>1, <1>2, FS_CardinalityType
<1>4. (activity # {} /\ Risks(activity) >= 60 * Cardinality(activity)) \in BOOLEAN
  OBVIOUS
<1>5. ProfileOf(i, activity, recent) =
        [requests |-> Cardinality(recent), blocked |-> Cardinality(blocked),
         external |-> Cardinality(external) + (IF i.external THEN 1 ELSE 0),
         risky |-> activity # {} /\ Risks(activity) >= 60 * Cardinality(activity)]
  BY DEF ProfileOf
<1> HIDE DEF blocked, external
<1>6. Cardinality(external) + (IF i.external THEN 1 ELSE 0) \in Nat
  BY <1>3
<1>7. QED
  BY <1>3, <1>4, <1>5, <1>6 DEF Profile

\* A row whose status or trust score is set is a row.
LEMMA RowType ==
  ASSUME NEW m \in Row, NEW s \in AgentStatus, NEW t \in 0 .. 100
  PROVE  /\ [m EXCEPT !.trust = t] \in Row
         /\ [m EXCEPT !.status = s, !.trust = t] \in Row
         /\ [m EXCEPT !.status = s, !.deleted = TRUE] \in Row
  BY DEF Row

\* The actions, one at a time: what any step is.
LEMMA Steps ==
  ASSUME [Next]_vars
  PROVE  \/ \E r \in Requests :
              \/ Receive(r) \/ Reject(r) \/ Evaluate(r) \/ Assess(r) \/ FlushTrust(r)
              \/ AnnounceTrust(r) \/ Answer(r) \/ Timeout(r)
         \/ \E a \in Admins : Read(a) \/ Update(a) \/ Delete(a) \/ AnnounceStatus(a)
         \/ \E x \in Actors : Commit(x) \/ Fail(x)
         \/ UNCHANGED vars
  BY DEF Next, RequestStep, AdminStep, Actors

-----------------------------------------------------------------------------
(* Types.                                                                  *)

LEMMA TypeInit == Init => TypeOK
<1> SUFFICES ASSUME Init PROVE TypeOK
  OBVIOUS
<1>1. agent \in Row
  BY DEF Init, Row, AgentStatus
<1>2. /\ lock \in Actors \cup {NoOne}
      /\ pc \in [Actors -> RequestAt \cup {"read"}]
      /\ row \in [Actors -> Row]
  BY <1>1 DEF Init, RequestAt
<1>3. /\ dirty \in [Actors -> SUBSET Column]
      /\ judged \in [Requests -> SUBSET [input : Inputs, verdict : Verdict]]
      /\ answer \in [Requests -> {"none", "decision", "error", "timeout"}]
  BY DEF Init
<1>4. /\ streamed \in [Actors -> SUBSET Event]
      /\ earlier \in [Actors -> SUBSET Actors]
      /\ older \in [Actors -> SUBSET Actors]
      /\ since \subseteq Requests
  BY DEF Init
<1>5. QED
  BY <1>1, <1>2, <1>3, <1>4 DEF TypeOK

LEMMA TypeNext == TypeOK /\ [Next]_vars => TypeOK'
<1> SUFFICES ASSUME TypeOK, [Next]_vars PROVE TypeOK'
  OBVIOUS
<1> USE DEF Goto, Stream, RequestAt, Event
<1>1. ASSUME NEW r \in Requests, Receive(r) PROVE TypeOK'
  BY <1>1 DEF TypeOK, Receive, Actors
<1>2. ASSUME NEW r \in Requests, Reject(r) PROVE TypeOK'
  BY <1>2 DEF TypeOK, Reject, Actors
<1>3. ASSUME NEW r \in Requests, Evaluate(r) PROVE TypeOK'
  <2>1. PICK i \in Inputs :
          judged' = [judged EXCEPT ![r] =
                       {[input |-> i, verdict |-> Execute(i, row[r].status, row[r].trust)]}]
    BY <1>3 DEF Evaluate
  <2>2. row[r] \in Row
    BY DEF TypeOK, Actors
  <2>3. Execute(i, row[r].status, row[r].trust) \in Verdict
    BY <2>2, ExecuteType DEF Row
  <2>4. judged' \in [Requests -> SUBSET [input : Inputs, verdict : Verdict]]
    BY <2>1, <2>3 DEF TypeOK
  <2>5. QED
    BY <1>3, <2>4 DEF TypeOK, Evaluate, Actors
<1>4. ASSUME NEW r \in Requests, Assess(r) PROVE TypeOK'
  <2>1. PICK j \in judged[r], activity \in {Visible(r), {}} : \E recent \in SUBSET activity :
          row' = [row EXCEPT ![r].trust =
                    UpdateTrust(@, ProfileOf(j.input, activity, recent), j.input, j.verdict)]
    BY <1>4 DEF Assess
  <2>2. PICK recent \in SUBSET activity :
          row' = [row EXCEPT ![r].trust =
                    UpdateTrust(@, ProfileOf(j.input, activity, recent), j.input, j.verdict)]
    BY <2>1
  <2> DEFINE t == UpdateTrust(row[r].trust, ProfileOf(j.input, activity, recent),
                              j.input, j.verdict)
  <2>3. row[r] \in Row /\ j.input \in Input /\ j.verdict \in Verdict
    BY DEF TypeOK, Actors
  <2>4. t \in 0 .. 100
    BY <2>3, ProfileType, UpdateTrustType DEF Row
  <2>5. row' = [row EXCEPT ![r] = [row[r] EXCEPT !.trust = t]]
    BY <2>2
  <2> HIDE DEF t
  <2>6. [row[r] EXCEPT !.trust = t] \in Row
    BY <2>3, <2>4 DEF Row
  <2>7. row' \in [Actors -> Row]
    BY <2>5, <2>6 DEF TypeOK
  <2>8. QED
    BY <1>4, <2>7 DEF TypeOK, Assess, Actors, Column
<1>5. ASSUME NEW r \in Requests, FlushTrust(r) \/ AnnounceTrust(r) PROVE TypeOK'
  BY <1>5 DEF TypeOK, FlushTrust, AnnounceTrust, Lock, Announced, Actors
<1>6. ASSUME NEW r \in Requests, Answer(r) PROVE TypeOK'
  BY <1>6 DEF TypeOK, Answer
<1>7. ASSUME NEW r \in Requests, Timeout(r) PROVE TypeOK'
  BY <1>7 DEF TypeOK, Timeout
<1>8. ASSUME NEW a \in Admins, Read(a) PROVE TypeOK'
  BY <1>8 DEF TypeOK, Read, Actors
<1>9. ASSUME NEW a \in Admins, Update(a) PROVE TypeOK'
  <2>1. PICK given \in SUBSET {"status", "trust"}, s \in AgentStatus, t \in Scores :
          LET new == [row[a] EXCEPT !.status = s, !.trust = t]
              columns == {c \in given : new[c] # row[a][c]}
          IN  /\ Lock(a, columns)
              /\ row' = [row EXCEPT ![a] = Merge(new, columns)]
              /\ Goto(a, IF "status" \in given /\ row'[a].status # row[a].status
                          THEN "flushed" ELSE "published")
    BY <1>9 DEF Update
  <2> DEFINE new == [row[a] EXCEPT !.status = s, !.trust = t]
             columns == {c \in given : new[c] # row[a][c]}
  <2>2. new \in Row /\ columns \in SUBSET Column
    <3>1. row[a] \in Row /\ t \in 0 .. 100
      BY DEF TypeOK, Actors
    <3>2. QED
      BY <3>1, RowType DEF Column
  <2>3. /\ Lock(a, columns)
        /\ row' = [row EXCEPT ![a] = Merge(new, columns)]
        /\ Goto(a, "flushed") \/ Goto(a, "published")
    BY <2>1
  <2> HIDE DEF new, columns
  <2>4. row' \in [Actors -> Row]
    BY <2>2, <2>3, MergeType DEF TypeOK
  <2>5. lock' \in Actors \cup {NoOne} /\ dirty' \in [Actors -> SUBSET Column]
    BY <2>2, <2>3 DEF TypeOK, Lock, Actors
  <2>6. pc' \in [Actors -> RequestAt \cup {"read"}]
    BY <2>3 DEF TypeOK, Actors
  <2>7. QED
    BY <1>9, <2>4, <2>5, <2>6 DEF TypeOK, Update, Actors
<1>10. ASSUME NEW a \in Admins, Delete(a) PROVE TypeOK'
  <2>1. row' \in [Actors -> Row]
    <3>1. row[a] \in Row /\ "BLOCKED" \in AgentStatus /\ 0 \in 0 .. 100
      BY DEF TypeOK, Actors, AgentStatus
    <3>2. row' = [row EXCEPT ![a] = [row[a] EXCEPT !.status = "BLOCKED", !.deleted = TRUE]]
      BY <1>10 DEF Delete
    <3>3. [row[a] EXCEPT !.status = "BLOCKED", !.deleted = TRUE] \in Row
      BY <3>1, RowType
    <3>4. QED
      BY <3>2, <3>3 DEF TypeOK
  <2>2. lock' \in Actors \cup {NoOne} /\ dirty' \in [Actors -> SUBSET Column]
    BY <1>10 DEF TypeOK, Delete, Lock, Actors, Column
  <2>3. QED
    BY <1>10, <2>1, <2>2 DEF TypeOK, Delete, Actors
<1>11. ASSUME NEW x \in Actors, Commit(x) PROVE TypeOK'
  <2>1. agent' \in Row
    BY <1>11, MergeType DEF Commit, TypeOK
  <2>2. QED
    BY <1>11, <2>1 DEF TypeOK, Commit, Unlock, Committed
<1>12. ASSUME NEW x \in Actors, Fail(x) PROVE TypeOK'
  BY <1>12 DEF TypeOK, Fail, Unlock
<1>13. CASE UNCHANGED vars
  BY <1>13 DEF TypeOK, vars
<1>14. ASSUME NEW a \in Admins, AnnounceStatus(a) PROVE TypeOK'
  BY <1>14 DEF TypeOK, AnnounceStatus, Announced, Actors
<1>15. QED
  BY <1>1, <1>2, <1>3, <1>4, <1>5, <1>6, <1>7, <1>8, <1>9, <1>10, <1>11, <1>12, <1>13, <1>14, Steps

\* The trust score and every column keep the ranges the database checks, however
\* the transactions interleave (models/ai_agent.py).
THEOREM TypeCorrect == Spec => []TypeOK
  BY TypeInit, TypeNext, PTL DEF Spec
-----------------------------------------------------------------------------
(* What clients are told.                                                  *)

LEMMA AnswersNext == TypeOK /\ AnswersAreTrue /\ [Next]_vars => AnswersAreTrue'
<1> SUFFICES ASSUME TypeOK, AnswersAreTrue, [Next]_vars PROVE AnswersAreTrue'
  OBVIOUS
<1> USE DEF AnswersAreTrue, TypeOK, Actors, Goto
<1>1. ASSUME NEW r \in Requests,
             \/ Receive(r) \/ Reject(r) \/ Evaluate(r) \/ Assess(r)
             \/ FlushTrust(r) \/ AnnounceTrust(r)
      PROVE  AnswersAreTrue'
  BY <1>1 DEF Receive, Reject, Evaluate, Assess, FlushTrust, AnnounceTrust
<1>2. ASSUME NEW r \in Requests, Answer(r) \/ Timeout(r) PROVE AnswersAreTrue'
  BY <1>2 DEF Answer, Timeout
<1>3. ASSUME NEW a \in Admins, Read(a) \/ Update(a) \/ Delete(a) \/ AnnounceStatus(a)
      PROVE  AnswersAreTrue'
  BY <1>3 DEF Read, Update, Delete, AnnounceStatus
<1>4. ASSUME NEW x \in Actors, Commit(x) PROVE AnswersAreTrue'
  BY <1>4 DEF Commit
<1>5. ASSUME NEW x \in Actors, Fail(x) PROVE AnswersAreTrue'
  BY <1>5 DEF Fail, InFlight
<1>6. CASE UNCHANGED vars
  BY <1>6 DEF vars
<1>7. QED
  BY <1>1, <1>2, <1>3, <1>4, <1>5, <1>6, Steps

\* What a client is told of its request is so, whether its answer, an error or
\* the timeout reaches it first (api/routes/gateway.py).
THEOREM AnswersAreTrueCorrect == Spec => []AnswersAreTrue
<1>1. Init => AnswersAreTrue
  BY DEF Init, AnswersAreTrue
<1>2. QED
  BY <1>1, TypeInit, TypeNext, AnswersNext, PTL DEF Spec

-----------------------------------------------------------------------------
(* Who changes the status.                                                 *)

\* A request changes no column but the trust score.
OnlyTrust == \A r \in Requests : dirty[r] \subseteq {"trust"}

LEMMA OnlyTrustNext == TypeOK /\ OnlyTrust /\ [Next]_vars => OnlyTrust'
<1> SUFFICES ASSUME TypeOK, OnlyTrust, [Next]_vars PROVE OnlyTrust'
  OBVIOUS
<1> USE DEF OnlyTrust, TypeOK, Actors
<1>1. ASSUME NEW r \in Requests, Receive(r) \/ Reject(r) \/ Evaluate(r) \/ Answer(r) \/ Timeout(r)
      PROVE  OnlyTrust'
  BY <1>1 DEF Receive, Reject, Evaluate, Answer, Timeout
<1>2. ASSUME NEW r \in Requests, Assess(r) PROVE OnlyTrust'
  BY <1>2 DEF Assess
<1>3. ASSUME NEW r \in Requests, FlushTrust(r) \/ AnnounceTrust(r) PROVE OnlyTrust'
  BY <1>3 DEF FlushTrust, AnnounceTrust, Lock
<1>4. ASSUME NEW a \in Admins, Read(a) \/ AnnounceStatus(a) PROVE OnlyTrust'
  BY <1>4 DEF Read, AnnounceStatus
<1>5. ASSUME NEW a \in Admins, Update(a) \/ Delete(a) PROVE OnlyTrust'
  <2>1. a \notin Requests
    BY PipelineAssumption
  <2>2. PICK columns : Lock(a, columns)
    BY <1>5 DEF Update, Delete
  <2>3. \A r \in Requests : dirty'[r] = dirty[r]
    BY <2>1, <2>2 DEF Lock
  <2>4. QED
    BY <2>3
<1>6. ASSUME NEW x \in Actors, Commit(x) \/ Fail(x) PROVE OnlyTrust'
  BY <1>6 DEF Commit, Fail
<1>7. CASE UNCHANGED vars
  BY <1>7 DEF vars
<1>8. QED
  BY <1>1, <1>2, <1>3, <1>4, <1>5, <1>6, <1>7, Steps

LEMMA OnlyAdmins ==
  ASSUME TypeOK, OnlyTrust, [Next]_vars,
         agent'.status # agent.status \/ agent'.deleted # agent.deleted
  PROVE  \E a \in Admins : pc[a] = "published" /\ pc'[a] = "committed"
<1>1. PICK x \in Actors : Commit(x)
  <2>1. ~\E r \in Requests :
           \/ Receive(r) \/ Reject(r) \/ Evaluate(r) \/ Assess(r) \/ FlushTrust(r)
           \/ AnnounceTrust(r) \/ Answer(r) \/ Timeout(r)
    BY DEF Receive, Reject, Evaluate, Assess, FlushTrust, AnnounceTrust, Answer, Timeout
  <2>2. ~\E a \in Admins : Read(a) \/ Update(a) \/ Delete(a) \/ AnnounceStatus(a)
    BY DEF Read, Update, Delete, AnnounceStatus
  <2>3. ~(\E x \in Actors : Fail(x)) /\ ~UNCHANGED vars
    BY DEF Fail, vars
  <2>4. QED
    BY <2>1, <2>2, <2>3, Steps
<1>2. x \notin Requests
  <2>1. ASSUME x \in Requests PROVE FALSE
    <3>1. "status" \notin dirty[x] /\ "deleted" \notin dirty[x]
      BY <2>1 DEF OnlyTrust
    <3>2. agent'.status = agent.status /\ agent'.deleted = agent.deleted
      BY <1>1, <3>1 DEF Commit, Merge
    <3>3. QED
      BY <3>2
  <2>2. QED
    BY <2>1
<1>3. pc[x] = "published" /\ pc'[x] = "committed"
  BY <1>1 DEF Commit, Goto, TypeOK
<1>4. QED
  BY <1>2, <1>3 DEF Actors

\* No request writes the agent's status back, however old the row it works on:
\* the UPDATE names the changed columns only (intelligence_orchestrator.py:110).
THEOREM StatusOnlyByAdminCorrect == Spec => StatusOnlyByAdmin
<1>1. Init => OnlyTrust
  BY DEF Init, OnlyTrust, Actors
<1>2. TypeOK /\ OnlyTrust /\ [Next]_vars
        => [(agent'.status # agent.status \/ agent'.deleted # agent.deleted)
             => \E a \in Admins : pc[a] = "published" /\ pc'[a] = "committed"]_vars
  BY OnlyAdmins
<1>3. QED
  BY <1>1, <1>2, TypeInit, TypeNext, OnlyTrustNext, PTL DEF Spec, StatusOnlyByAdmin

-----------------------------------------------------------------------------
(* Blocking takes hold.                                                    *)

Refusing == {"BLOCKED", "QUARANTINED"}

\* A request is judged by the status it loaded, which is the committed one as
\* long as no administrator has changed that since.
JudgedByStatus ==
  \A r \in Requests :
    /\ pc[r] = "new" => judged[r] = {}
    /\ row[r].status \in Refusing
         => \A j \in judged[r] : j.verdict.decision \in {"BLOCK", "QUARANTINE"}
    /\ r \in since => row[r].status = agent.status

LEMMA StatusRefuses ==
  ASSUME NEW i, NEW s \in Refusing, NEW t
  PROVE  Execute(i, s, t).decision \in {"BLOCK", "QUARANTINE"}
  BY DEF Execute, Decide, Refusing

LEMMA JudgedNext == TypeOK /\ JudgedByStatus /\ [Next]_vars => JudgedByStatus'
<1> SUFFICES ASSUME TypeOK, JudgedByStatus, [Next]_vars PROVE JudgedByStatus'
  OBVIOUS
<1> USE DEF JudgedByStatus, TypeOK, Actors, Goto
<1>1. ASSUME NEW r \in Requests, Receive(r) PROVE JudgedByStatus'
  BY <1>1 DEF Receive
<1>2. ASSUME NEW r \in Requests,
             Reject(r) \/ FlushTrust(r) \/ AnnounceTrust(r) \/ Answer(r) \/ Timeout(r)
      PROVE  JudgedByStatus'
  BY <1>2 DEF Reject, FlushTrust, AnnounceTrust, Answer, Timeout
<1>3. ASSUME NEW r \in Requests, Evaluate(r) PROVE JudgedByStatus'
  <2>1. PICK i \in Inputs :
          judged' = [judged EXCEPT ![r] =
                       {[input |-> i, verdict |-> Execute(i, row[r].status, row[r].trust)]}]
    BY <1>3 DEF Evaluate
  <2>2. row[r].status \in Refusing
          => \A j \in judged'[r] : j.verdict.decision \in {"BLOCK", "QUARANTINE"}
    BY <2>1, StatusRefuses
  <2>3. \A q \in Requests : q # r => judged'[q] = judged[q] /\ pc'[q] = pc[q]
    BY <1>3, <2>1 DEF Evaluate
  <2>4. row' = row /\ agent' = agent /\ since' = since /\ pc'[r] = "decided"
    BY <1>3 DEF Evaluate
  <2>5. QED
    BY <2>2, <2>3, <2>4
<1>4. ASSUME NEW r \in Requests, Assess(r) PROVE JudgedByStatus'
  <2>1. PICK t : row' = [row EXCEPT ![r] = [row[r] EXCEPT !.trust = t]]
    BY <1>4 DEF Assess
  <2>2. row[r] \in Row
    OBVIOUS
  <2>3. \A q \in Requests : row'[q].status = row[q].status
    BY <2>1, <2>2 DEF Row
  <2>4. QED
    BY <1>4, <2>3 DEF Assess
<1>5. ASSUME NEW a \in Admins, Read(a) \/ Update(a) \/ Delete(a) \/ AnnounceStatus(a)
      PROVE  JudgedByStatus'
  <2>1. a \notin Requests
    BY PipelineAssumption
  <2>2. \A r \in Requests : row'[r] = row[r] /\ pc'[r] = pc[r]
    <3>1. \A r \in Requests : row'[r] = row[r]
      BY <1>5, <2>1 DEF Read, Update, Delete, AnnounceStatus
    <3>2. \A r \in Requests : pc'[r] = pc[r]
      BY <1>5, <2>1 DEF Read, Update, Delete, AnnounceStatus
    <3>3. QED
      BY <3>1, <3>2
  <2>3. judged' = judged /\ since' = since /\ agent' = agent
    BY <1>5 DEF Read, Update, Delete, AnnounceStatus
  <2>4. QED
    BY <2>2, <2>3
<1>6. ASSUME NEW x \in Actors, Commit(x) PROVE JudgedByStatus'
  BY <1>6 DEF Commit
<1>7. ASSUME NEW x \in Actors, Fail(x) PROVE JudgedByStatus'
  BY <1>7 DEF Fail
<1>8. CASE UNCHANGED vars
  BY <1>8 DEF vars
<1>9. QED
  BY <1>1, <1>2, <1>3, <1>4, <1>5, <1>6, <1>7, <1>8, Steps

\* A committed BLOCKED or QUARANTINED refuses every request received after it,
\* whatever the requests and administrators in between commit
\* (orchestration.py:88, governance_engine.py).
THEOREM BlockTakesHoldCorrect == Spec => []BlockTakesHold
<1>1. Init => JudgedByStatus
  BY DEF Init, JudgedByStatus
<1>2. JudgedByStatus /\ TypeOK => BlockTakesHold
  BY DEF JudgedByStatus, BlockTakesHold, Refusing, TypeOK
<1>3. QED
  BY <1>1, <1>2, TypeInit, TypeNext, JudgedNext, PTL DEF Spec

-----------------------------------------------------------------------------
(* What is published last is what is kept.                                 *)

Columns == {"trust", "status"}

\* x has written a change of the column and published it.
Announces(x, column) == column \in dirty[x] /\ column \in streamed[x]

\* A transaction that has written and not ended holds the row lock.
WriterHoldsLock ==
  \A x \in Actors : pc[x] \in {"flushed", "published"} /\ dirty[x] # {} => lock = x

\* Requests announce trust scores, administrators statuses.
Kinds ==
  /\ \A r \in Requests : "status" \notin streamed[r]
  /\ \A a \in Admins : "trust" \notin streamed[a]

\* Nothing is announced before it is flushed.
AnnouncedLate ==
  \A x \in Actors :
    (\/ \E column \in Columns : column \in streamed[x]
     \/ \E y \in Actors : x \in earlier[y])
      => pc[x] \in {"published", "committed", "failed"}

\* Who announced a column before y did has ended by the time y has published its
\* change of it, and has committed before y did.
EarlierEnded ==
  \A x, y \in Actors : \A column \in Columns :
    (Announces(x, column) /\ Announces(y, column) /\ x \in earlier[y])
      => /\ pc[y] \in {"published", "committed"} => pc[x] \in {"committed", "failed"}
         /\ pc[x] = "committed" /\ pc[y] = "committed" => x \in older[y]

\* Of two that announced a column one did so first.
OneIsEarlier ==
  \A x, y \in Actors : \A column \in Columns :
    (x # y /\ column \in streamed[x] /\ column \in streamed[y])
      => x \in earlier[y] \/ y \in earlier[x]

\* The order of the commits is one.
OlderOrder ==
  \A y \in Actors : older[y] \subseteq Committed /\ \A x \in older[y] : y \notin older[x]

\* The row has what the last to commit a change of a column has written.
LastWriter ==
  \A x \in Committed : \A column \in Columns \cap dirty[x] :
    (\A y \in Committed : x \in older[y] => column \notin dirty[y])
      => agent[column] = row[x][column]

OrderInv ==
  /\ WriterHoldsLock /\ Kinds /\ AnnouncedLate /\ EarlierEnded
  /\ OneIsEarlier /\ OlderOrder /\ LastWriter

\* Steps before the flush, and those that move nobody.
LEMMA QuietStep ==
  ASSUME TypeOK, OrderInv, NEW x \in Actors,
         \A y \in Actors \ {x} : /\ pc'[y] = pc[y] /\ dirty'[y] = dirty[y]
                                 /\ streamed'[y] = streamed[y] /\ row'[y] = row[y],
         \/ pc'[x] = pc[x] /\ dirty'[x] = dirty[x] /\ row'[x] = row[x]
         \/ /\ pc[x] \notin {"flushed", "published", "committed", "failed"}
            /\ pc'[x] \notin {"flushed", "published", "committed"},
         streamed'[x] \cap Columns = streamed[x] \cap Columns,
         lock' = lock, earlier' = earlier, older' = older, agent' = agent
  PROVE  OrderInv'
<1> USE DEF OrderInv, Columns
<1>1. \A y \in Actors : \A column \in Columns : column \in streamed'[y] <=> column \in streamed[y]
  OBVIOUS
<1>2. WriterHoldsLock'
  BY DEF WriterHoldsLock
<1>3. Kinds'
  BY <1>1 DEF Kinds, Actors
<1>4. AnnouncedLate'
  <2>1. ASSUME NEW y \in Actors,
               \/ \E column \in Columns : column \in streamed'[y]
               \/ \E z \in Actors : y \in earlier'[z]
        PROVE  pc'[y] \in {"published", "committed", "failed"}
    <3>1. pc[y] \in {"published", "committed", "failed"}
      BY <1>1, <2>1 DEF AnnouncedLate
    <3>2. QED
      BY <3>1
  <2>2. QED
    BY <2>1 DEF AnnouncedLate
<1>5. EarlierEnded'
  <2>1. ASSUME NEW y \in Actors, NEW z \in Actors, NEW column \in Columns,
               Announces(y, column)', Announces(z, column)', y \in earlier'[z]
        PROVE  /\ pc'[z] \in {"published", "committed"} => pc'[y] \in {"committed", "failed"}
               /\ pc'[y] = "committed" /\ pc'[z] = "committed" => y \in older'[z]
    <3>1. column \in streamed[y] /\ column \in streamed[z] /\ y \in earlier[z]
      BY <1>1, <2>1 DEF Announces
    <3>2. /\ pc[y] \in {"published", "committed", "failed"}
          /\ pc[z] \in {"published", "committed", "failed"}
      BY <3>1 DEF AnnouncedLate
    <3>3. /\ pc'[y] = pc[y] /\ dirty'[y] = dirty[y]
          /\ pc'[z] = pc[z] /\ dirty'[z] = dirty[z]
      BY <3>2
    <3>4. Announces(y, column) /\ Announces(z, column)
      BY <2>1, <3>1, <3>3 DEF Announces
    <3>5. QED
      BY <3>1, <3>3, <3>4 DEF EarlierEnded
  <2>2. QED
    BY <2>1 DEF EarlierEnded
<1>6. OneIsEarlier'
  BY <1>1 DEF OneIsEarlier
<1>7. /\ Committed' = Committed
      /\ \A y \in Committed : dirty'[y] = dirty[y] /\ row'[y] = row[y]
  BY DEF Committed
<1>8. OlderOrder' /\ LastWriter'
  BY <1>7 DEF OlderOrder, LastWriter
<1>9. QED
  BY <1>2, <1>3, <1>4, <1>5, <1>6, <1>8

\* The flush of a request or an administrator.
LEMMA FlushStep ==
  ASSUME TypeOK, OrderInv, NEW x \in Actors, NEW columns, NEW at \in {"flushed", "published"},
         pc[x] \in {"read", "assessed"}, Goto(x, at), Lock(x, columns),
         \A y \in Actors \ {x} : row'[y] = row[y],
         streamed' = streamed, earlier' = earlier, older' = older, agent' = agent
  PROVE  OrderInv'
<1> USE DEF OrderInv, Columns, TypeOK
<1>1. /\ pc'[x] = at /\ dirty'[x] = columns
      /\ \A y \in Actors \ {x} : pc'[y] = pc[y] /\ dirty'[y] = dirty[y]
  BY DEF Goto, Lock
<1>2. /\ \A k \in Columns : k \notin streamed[x]
      /\ \A y \in Actors : x \notin earlier[y]
  BY DEF AnnouncedLate
<1>3. columns # {} => /\ lock' = x
                      /\ \A y \in Actors \ {x} :
                           pc[y] \in {"flushed", "published"} => dirty[y] = {}
  BY PipelineAssumption DEF Lock, WriterHoldsLock, Actors
<1>4. WriterHoldsLock'
  BY <1>1, <1>3 DEF WriterHoldsLock, Lock
<1>5. Kinds' /\ AnnouncedLate' /\ OneIsEarlier'
  BY <1>1, <1>2 DEF Kinds, AnnouncedLate, OneIsEarlier
<1>6. EarlierEnded'
  BY <1>1, <1>2 DEF EarlierEnded, Announces
<1>7. /\ Committed' = Committed
      /\ \A y \in Committed : dirty'[y] = dirty[y] /\ row'[y] = row[y]
  BY <1>1 DEF Committed
<1>8. OlderOrder' /\ LastWriter'
  BY <1>7 DEF OlderOrder, LastWriter
<1>9. QED
  BY <1>4, <1>5, <1>6, <1>8

\* The event of a change, or of none.
LEMMA PublishStep ==
  ASSUME TypeOK, OrderInv, NEW x \in Actors, NEW column \in Columns,
         pc[x] = "flushed", Goto(x, "published"), Stream(x, {column}),
         earlier' = [earlier EXCEPT ![x] = Announced(column)],
         x \in Requests => column = "trust", x \in Admins => column = "status",
         lock' = lock, dirty' = dirty, row' = row, older' = older, agent' = agent
  PROVE  OrderInv'
<1> USE DEF OrderInv, Columns, TypeOK
<1>1. /\ pc'[x] = "published"
      /\ \A y \in Actors \ {x} : /\ pc'[y] = pc[y] /\ streamed'[y] = streamed[y]
                                 /\ earlier'[y] = earlier[y]
      /\ streamed'[x] = streamed[x] \cup {column} /\ earlier'[x] = Announced(column)
  BY DEF Goto, Stream
<1>2. /\ \A k \in Columns : k \notin streamed[x]
      /\ \A y \in Actors : x \notin earlier[y]
  BY DEF AnnouncedLate
<1>3. WriterHoldsLock'
  BY <1>1 DEF WriterHoldsLock
<1>4. Kinds'
  <2>1. x \in Requests => "status" \notin streamed'[x]
    BY <1>1 DEF Kinds
  <2>2. x \in Admins => "trust" \notin streamed'[x]
    BY <1>1 DEF Kinds
  <2>3. QED
    BY <1>1, <2>1, <2>2 DEF Kinds, Actors
<1>5. \A y \in Announced(column) : y \in Actors \ {x} /\ pc[y] \in {"published", "committed", "failed"}
  BY <1>2 DEF AnnouncedLate, Announced
<1>6. AnnouncedLate'
  BY <1>1, <1>5 DEF AnnouncedLate
<1>7. EarlierEnded'
  <2>1. ASSUME NEW y \in Actors, NEW z \in Actors, NEW k \in Columns,
               Announces(y, k)', Announces(z, k)', y \in earlier'[z]
        PROVE  /\ pc'[z] \in {"published", "committed"} => pc'[y] \in {"committed", "failed"}
               /\ pc'[y] = "committed" /\ pc'[z] = "committed" => y \in older'[z]
    <3>1. CASE z = x
      <4>1. lock = x
        BY <2>1, <3>1 DEF Announces, WriterHoldsLock
      <4>2. y # x /\ pc[y] \in {"published", "committed", "failed"} /\ dirty[y] # {}
        BY <1>1, <1>5, <2>1, <3>1 DEF Announces
      <4>3. pc'[y] \in {"committed", "failed"}
        BY <1>1, <4>1, <4>2 DEF WriterHoldsLock
      <4>4. QED
        BY <1>1, <3>1, <4>3
    <3>2. CASE z # x
      <4>1. y # x
        BY <1>1, <1>2, <2>1, <3>2
      <4>2. QED
        BY <1>1, <2>1, <3>2, <4>1 DEF EarlierEnded, Announces
    <3>3. QED
      BY <3>1, <3>2
  <2>2. QED
    BY <2>1 DEF EarlierEnded
<1>8. OneIsEarlier'
  <2>1. ASSUME NEW y \in Actors, NEW z \in Actors, NEW k \in Columns,
               y # z, k \in streamed'[y], k \in streamed'[z]
        PROVE  y \in earlier'[z] \/ z \in earlier'[y]
    <3>1. CASE y # x /\ z # x
      BY <1>1, <2>1, <3>1 DEF OneIsEarlier
    <3>2. ASSUME NEW w \in Actors, w # x, k \in streamed'[w], k \in streamed'[x]
          PROVE  w \in earlier'[x]
      <4>1. k = column
        BY <1>1, <1>2, <3>2
      <4>2. QED
        BY <1>1, <3>2, <4>1 DEF Announced
    <3>3. QED
      BY <2>1, <3>1, <3>2
  <2>2. QED
    BY <2>1 DEF OneIsEarlier
<1>9. Committed' = Committed
  BY <1>1 DEF Committed
<1>10. OlderOrder' /\ LastWriter'
  BY <1>9 DEF OlderOrder, LastWriter
<1>11. QED
  BY <1>3, <1>4, <1>6, <1>7, <1>8, <1>10

\* The end of a transaction lets go of the lock, and a commit is the last.
LEMMA EndStep ==
  ASSUME TypeOK, OrderInv, NEW x \in Actors, Commit(x) \/ Fail(x)
  PROVE  OrderInv'
<1> USE DEF OrderInv, TypeOK
<1>1. /\ dirty' = dirty /\ streamed' = streamed /\ earlier' = earlier /\ row' = row /\ Unlock(x)
      /\ \A y \in Actors \ {x} : pc'[y] = pc[y] /\ older'[y] = older[y]
      /\ pc'[x] \in {"committed", "failed"}
      /\ pc'[x] = "committed" => /\ pc[x] = "published" /\ older'[x] = Committed
                                 /\ agent' = Merge(row[x], dirty[x])
      /\ pc'[x] = "failed" => older' = older /\ agent' = agent
      /\ pc[x] # "committed"
  <2>1. CASE Commit(x)
    BY <2>1 DEF Commit, Goto
  <2>2. CASE Fail(x)
    BY <2>2 DEF Fail, Goto, InFlight
  <2>3. QED
    BY <2>1, <2>2
<1>2. WriterHoldsLock'
  BY <1>1 DEF WriterHoldsLock, Unlock
<1>3. Kinds' /\ AnnouncedLate' /\ OneIsEarlier'
  BY <1>1 DEF Kinds, AnnouncedLate, OneIsEarlier
<1>4. EarlierEnded'
  <2>1. ASSUME NEW y \in Actors, NEW z \in Actors, NEW k \in Columns,
               Announces(y, k)', Announces(z, k)', y \in earlier'[z]
        PROVE  /\ pc'[z] \in {"published", "committed"} => pc'[y] \in {"committed", "failed"}
               /\ pc'[y] = "committed" /\ pc'[z] = "committed" => y \in older'[z]
    <3>1. /\ pc[z] \in {"published", "committed"} => pc[y] \in {"committed", "failed"}
          /\ pc[y] = "committed" /\ pc[z] = "committed" => y \in older[z]
      BY <1>1, <2>1 DEF EarlierEnded, Announces
    <3>2. CASE z = x
      BY <1>1, <3>1, <3>2 DEF Committed
    <3>3. CASE z # x
      BY <1>1, <3>1, <3>3
    <3>4. QED
      BY <3>2, <3>3
  <2>2. QED
    BY <2>1 DEF EarlierEnded
<1>5. x \notin Committed /\ \A y \in Actors : x \notin older[y]
  BY <1>1 DEF Committed, OlderOrder
<1>6. CASE pc'[x] = "failed"
  <2>1. Committed' = Committed
    BY <1>1, <1>6 DEF Committed
  <2>2. OlderOrder' /\ LastWriter'
    BY <1>1, <1>6, <2>1 DEF OlderOrder, LastWriter
  <2>3. QED
    BY <1>2, <1>3, <1>4, <2>2
<1>7. CASE pc'[x] = "committed"
  <2>1. Committed' = Committed \cup {x} /\ Committed \subseteq Actors
    BY <1>1, <1>7 DEF Committed
  <2>2. OlderOrder'
    BY <1>1, <1>5, <1>7, <2>1 DEF OlderOrder
  <2>3. ASSUME NEW y \in Committed', NEW column \in Columns \cap dirty[y],
               \A z \in Committed' : y \in older'[z] => column \notin dirty[z]
        PROVE  agent'[column] = row[y][column]
    <3>1. \A k \in Columns : agent'[k] = IF k \in dirty[x] THEN row[x][k] ELSE agent[k]
      BY <1>1, <1>7 DEF Merge, Columns
    <3>2. CASE y = x
      BY <3>1, <3>2
    <3>3. CASE y # x
      <4>1. y \in Committed /\ column \notin dirty[x]
        BY <1>1, <1>7, <2>1, <2>3, <3>3
      <4>2. \A z \in Committed : y \in older[z] => column \notin dirty[z]
        BY <1>1, <1>5, <2>1, <2>3
      <4>3. agent[column] = row[y][column]
        BY <4>1, <4>2 DEF LastWriter
      <4>4. QED
        BY <3>1, <4>1, <4>3
    <3>4. QED
      BY <3>2, <3>3
  <2>4. LastWriter'
    BY <1>1, <2>3 DEF LastWriter
  <2>5. QED
    BY <1>2, <1>3, <1>4, <2>2, <2>4
<1>8. QED
  BY <1>1, <1>6, <1>7

LEMMA OrderNext == TypeOK /\ OrderInv /\ [Next]_vars => OrderInv'
<1> SUFFICES ASSUME TypeOK, OrderInv, [Next]_vars PROVE OrderInv'
  OBVIOUS
<1>1. ASSUME NEW r \in Requests,
             Receive(r) \/ Reject(r) \/ Evaluate(r) \/ Assess(r) \/ Answer(r) \/ Timeout(r)
      PROVE  OrderInv'
  <2>1. r \in Actors
    BY DEF Actors
  <2>2. /\ lock' = lock /\ earlier' = earlier /\ older' = older /\ agent' = agent
        /\ \A y \in Actors \ {r} : /\ pc'[y] = pc[y] /\ dirty'[y] = dirty[y]
                                   /\ streamed'[y] = streamed[y]
    BY <1>1, <2>1 DEF TypeOK, Receive, Reject, Evaluate, Assess, Answer, Timeout, Goto, Stream
  <2>3. \A y \in Actors \ {r} : row'[y] = row[y]
    BY <1>1, <2>1 DEF TypeOK, Receive, Reject, Evaluate, Assess, Answer, Timeout
  <2>4. \/ pc'[r] = pc[r] /\ dirty'[r] = dirty[r] /\ row'[r] = row[r]
        \/ /\ pc[r] \notin {"flushed", "published", "committed", "failed"}
           /\ pc'[r] \notin {"flushed", "published", "committed"}
    BY <1>1, <2>1 DEF TypeOK, Receive, Reject, Evaluate, Assess, Answer, Timeout, Goto
  <2>5. streamed'[r] \cap Columns = streamed[r] \cap Columns
    BY <1>1, <2>1
    DEF TypeOK, Receive, Reject, Evaluate, Assess, Answer, Timeout, Stream, Columns
  <2>6. QED
    BY <2>1, <2>2, <2>3, <2>4, <2>5, QuietStep
<1>2. ASSUME NEW r \in Requests, FlushTrust(r) PROVE OrderInv'
  <2>1. r \in Actors /\ "flushed" \in {"flushed", "published"}
    BY DEF Actors
  <2>2. PICK columns : Lock(r, columns)
    BY <1>2 DEF FlushTrust
  <2>3. /\ pc[r] \in {"read", "assessed"} /\ Goto(r, "flushed") /\ row' = row
        /\ streamed' = streamed /\ earlier' = earlier /\ older' = older /\ agent' = agent
    BY <1>2 DEF FlushTrust
  <2>4. QED
    BY <2>1, <2>2, <2>3, FlushStep
<1>3. ASSUME NEW a \in Admins, Update(a) \/ Delete(a) PROVE OrderInv'
  <2>1. a \in Actors
    BY DEF Actors
  <2>2. PICK columns : Lock(a, columns)
    BY <1>3 DEF Update, Delete
  <2>3. PICK at \in {"flushed", "published"} : Goto(a, at)
    BY <1>3 DEF Update, Delete
  <2>4. /\ pc[a] \in {"read", "assessed"}
        /\ streamed' = streamed /\ earlier' = earlier /\ older' = older /\ agent' = agent
    BY <1>3 DEF Update, Delete
  <2>5. \A y \in Actors \ {a} : row'[y] = row[y]
    BY <1>3, <2>1 DEF Update, Delete, TypeOK
  <2>6. QED
    BY <2>1, <2>2, <2>3, <2>4, <2>5, FlushStep
<1>4. ASSUME NEW r \in Requests, AnnounceTrust(r) PROVE OrderInv'
  <2>1. r \in Actors /\ r \notin Admins
    BY PipelineAssumption DEF Actors
  <2>2. PICK column \in Columns : column = "trust"
    BY DEF Columns
  <2>3. /\ pc[r] = "flushed" /\ Goto(r, "published") /\ Stream(r, {column})
        /\ earlier' = [earlier EXCEPT ![r] = Announced(column)]
        /\ lock' = lock /\ dirty' = dirty /\ row' = row /\ older' = older /\ agent' = agent
    BY <1>4, <2>2 DEF AnnounceTrust
  <2>4. QED
    BY <2>1, <2>2, <2>3, PublishStep
<1>5. ASSUME NEW a \in Admins, AnnounceStatus(a) PROVE OrderInv'
  <2>1. a \in Actors /\ a \notin Requests
    BY PipelineAssumption DEF Actors
  <2>2. PICK column \in Columns : column = "status"
    BY DEF Columns
  <2>3. /\ pc[a] = "flushed" /\ Goto(a, "published") /\ Stream(a, {column})
        /\ earlier' = [earlier EXCEPT ![a] = Announced(column)]
        /\ lock' = lock /\ dirty' = dirty /\ row' = row /\ older' = older /\ agent' = agent
    BY <1>5, <2>2 DEF AnnounceStatus
  <2>4. QED
    BY <2>1, <2>2, <2>3, PublishStep
<1>6. ASSUME NEW a \in Admins, Read(a) PROVE OrderInv'
  <2>1. a \in Actors
    BY DEF Actors
  <2>2. QED
    BY <1>6, <2>1, QuietStep DEF TypeOK, Read, Goto
<1>7. ASSUME NEW x \in Actors, Commit(x) \/ Fail(x) PROVE OrderInv'
  BY <1>7, EndStep
<1>8. CASE UNCHANGED vars
  BY <1>8 DEF vars, OrderInv, WriterHoldsLock, Kinds, AnnouncedLate, EarlierEnded, Announces,
              OneIsEarlier, OlderOrder, LastWriter, Committed
<1>9. QED
  BY <1>1, <1>2, <1>3, <1>4, <1>5, <1>6, <1>7, <1>8, Steps

LEMMA OrderKeeps == OrderInv => LastToldIsKept
<1> SUFFICES ASSUME OrderInv, NEW column \in Columns, NEW x \in Told(column),
                    \A y \in Told(column) : x \notin earlier[y],
                    \A y \in Committed : (x \in older[y] /\ column \in dirty[y])
                                           => y \in Told(column)
             PROVE  agent[column] = row[x][column]
  BY DEF LastToldIsKept, Columns
<1> USE DEF OrderInv
<1>1. \A y \in Told(column) : /\ y \in Committed /\ y \in Actors /\ pc[y] = "committed"
                              /\ Announces(y, column) /\ column \in streamed[y]
  BY DEF Told, Committed, Announces
<1>2. ASSUME NEW y \in Committed, x \in older[y], column \in dirty[y] PROVE FALSE
  <2>1. y \in Told(column) /\ x \notin earlier[y]
    BY <1>2
  <2>2. x # y /\ y \notin older[x]
    BY <1>1, <1>2, <2>1 DEF OlderOrder
  <2>3. y \in earlier[x]
    BY <1>1, <2>1, <2>2 DEF OneIsEarlier
  <2>4. y \in older[x]
    BY <1>1, <2>1, <2>3 DEF EarlierEnded
  <2>5. QED
    BY <2>2, <2>4
<1>3. column \in Columns \cap dirty[x]
  BY DEF Told
<1>4. QED
  BY <1>1, <1>2, <1>3 DEF LastWriter

\* Of the changes that were written, published and committed the one published
\* last is the one kept, because it is published under the row lock, unless an
\* administrator's change of the score, which is never published, came after it
\* (intelligence_orchestrator.py:110-189, ai_agent_service.py:110-127).
THEOREM LastToldIsKeptCorrect == Spec => []LastToldIsKept
<1>1. Init => OrderInv
  BY DEF Init, OrderInv, WriterHoldsLock, Kinds, AnnouncedLate, EarlierEnded, Announces,
         OneIsEarlier, OlderOrder, LastWriter, Committed, Columns, Actors
<1>2. QED
  BY <1>1, TypeInit, TypeNext, OrderNext, OrderKeeps, PTL DEF Spec
=============================================================================

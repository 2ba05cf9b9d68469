----------------------------- MODULE AgentRuntime -----------------------------
(***************************************************************************)
(* What the gateway promises of one agent when requests do not overlap:    *)
(* each request is judged by the engine on the stored status and trust     *)
(* score, and the trust score that follows is stored; administrators change*)
(* the stored row.  The behaviour profile is any profile, so the promises  *)
(* hold for every history.                                                 *)
(***************************************************************************)
EXTENDS AgentTrust

CONSTANT Profiles   \* the behaviour profiles an agent may have

ASSUME RuntimeAssumption == Profiles \subseteq Profile

VARIABLES status, trust,
          last   \* the last request as it was judged, or nothing

runtimeVars == <<status, trust, last>>

\* One request: what the row was, what was asked, what was decided, and the
\* trust score stored.
Judged ==
  [status : AgentStatus, trust : 0 .. 100, input : Inputs, profile : Profiles,
   verdict : Verdict, stored : 0 .. 100]

RuntimeTypeOK ==
  /\ status \in AgentStatus
  /\ trust \in 0 .. 100
  /\ last \subseteq Judged

RuntimeInit ==
  /\ status \in AgentStatus
  /\ trust \in Scores
  /\ last = {}

Govern(i, p) ==
  LET v == Execute(i, status, trust)
  IN  /\ trust' = UpdateTrust(trust, p, i, v)
      /\ last' = {[status |-> status, trust |-> trust, input |-> i, profile |-> p,
                   verdict |-> v, stored |-> trust']}
      /\ UNCHANGED status

\* update_agent and the status delete_agent leaves.
Administer ==
  /\ status' \in AgentStatus
  /\ trust' \in Scores \cup {trust}
  /\ last' = {}

RuntimeNext == Administer \/ \E i \in Inputs, p \in Profiles : Govern(i, p)

RuntimeSpec == RuntimeInit /\ [][RuntimeNext]_runtimeVars

-----------------------------------------------------------------------------
(* Properties.                                                             *)

Refused(j) == j.verdict.decision \in {"BLOCK", "QUARANTINE"}

\* A request of elevated risk is let through only by policies that all say
\* ALLOW: one stronger policy among those that match, or none at all, and the
\* engine throttles, holds or refuses it.
AllowNeedsPolicy ==
  \A j \in last :
    (j.verdict.decision = "ALLOW" /\ j.verdict.risk >= 45)
      => Actions(j.input) = {"ALLOW"}

\* An administrator's BLOCKED or QUARANTINED is stronger than every policy: the
\* request is refused.  And no refusal, whatever the risk, policies and history,
\* leaves the agent with more trust: it costs at least eight points.
RefusalCosts ==
  \A j \in last :
    /\ j.status \in {"BLOCKED", "QUARANTINED"} => Refused(j)
    /\ Refused(j) => j.stored <= Clamp(0, 100, j.trust - 8)

\* Distrust feeds itself in production: at a score of 26 the penalty for the
\* score alone keeps the risk of any request above the thresholds for a reward,
\* so requests cannot earn the agent trust again and only an administrator can.
NoWayBackInProduction ==
  \A j \in last : (j.input.production /\ j.trust <= 26) => j.stored <= j.trust

\* A request without findings or policies, of an agent in service whose profile
\* is not anomalous.
Clean(j) ==
  /\ j.status \in {"OPERATIONAL", "WARNING"}
  /\ Threats(j.input) = {} /\ Matches(j.input) = {}
  /\ ~IsAnomalous(j.profile, j.input, j.verdict.risk)

\* What production, an external source and Gemini's level add to the risk.
Surcharge(i) == MetadataScore(i) + GeminiScore(i)

\* Whether trust comes back by clean requests is decided by one threshold: with
\* a surcharge s of at most 4 they earn four points or more from any score; with
\* one up to 34 they do from a score of 11 + 2s on (23 for an external source,
\* 27 in production, 39 for both) and leave a lower score as it is; above 34 they
\* earn nothing.
RecoveryThreshold ==
  \A j \in last : Clean(j) =>
    IF \/ Surcharge(j.input) <= 4
       \/ Surcharge(j.input) <= 34 /\ j.trust >= 11 + 2 * Surcharge(j.input)
      THEN j.stored >= Clamp(0, 100, j.trust + 4)
      ELSE j.stored = j.trust
=============================================================================

---------------------------- MODULE EventChannels ----------------------------
(***************************************************************************)
(* Which channels an event is broadcast on (app/ws/channels.py and the     *)
(* channel each function of app/events/publishers.py gives its event), and *)
(* which channels an endpoint of app/api/routes/ws.py lets a principal     *)
(* have.  A channel is a pair <<topic, scope>>, its scope an organization  *)
(* or "global"; an event kind is an event type with the organization it is *)
(* about, NoOrg for the events about the server itself.                    *)
(***************************************************************************)
CONSTANTS Orgs, NoOrg, Global

ASSUME ChannelsAssumption == {NoOrg, Global} \cap Orgs = {}

Topic == {"platform", "threats", "governance", "health", "intelligence"}

Channel == Topic \X (Orgs \cup {Global})

ThreatTypes == {"threat.detected", "policy.violation"}

GovernanceTypes ==
  {"governance.decision.created", "risk.score.updated", "gateway.request.received",
   "policy.violation"}

IntelligenceTypes ==
  {"intelligence.anomaly.detected", "intelligence.trust.score_changed",
   "intelligence.threat.correlation_detected",
   "intelligence.governance.recommendation_generated"}

PlatformTypes == {"gateway.request.received", "agent.status.changed", "audit.event.created"}

EventKind ==
  [type : ThreatTypes \cup GovernanceTypes \cup IntelligenceTypes \cup PlatformTypes,
   org : Orgs]
  \cup {[type |-> "system.health.event", org |-> NoOrg]}

\* The channel the publisher of an event gives it.
Home(k) ==
  CASE k.type = "system.health.event" -> <<"health", Global>>
    [] k.type = "threat.detected" -> <<"threats", k.org>>
    [] k.type \in IntelligenceTypes -> <<"intelligence", k.org>>
    [] k.type \in PlatformTypes -> <<"platform", k.org>>
    [] OTHER -> <<"governance", k.org>>

\* The topics an event belongs to besides that of its own channel.
TopicsOf(k) ==
  {"platform"}
  \cup (IF k.type \in ThreatTypes THEN {"threats"} ELSE {})
  \cup (IF k.type \in GovernanceTypes THEN {"governance"} ELSE {})
  \cup (IF k.type \in IntelligenceTypes THEN {"intelligence"} ELSE {})

\* channels_for_event: each topic globally and, for an event about an
\* organization, in that organization.
ChannelsOf(k) ==
  {Home(k)} \cup {<<t, Global>> : t \in TopicsOf(k)}
            \cup (IF k.org = NoOrg THEN {} ELSE {<<t, k.org>> : t \in TopicsOf(k)})

\* A principal's request for an endpoint: its organization, whether it is a
\* super administrator, the path and, for "organizations", the one it names.
Request ==
  [org : Orgs, super : BOOLEAN, path : Topic \ {"health"}, about : Orgs]
  \cup [org : Orgs, super : BOOLEAN, path : {"organizations"}, about : Orgs]

\* The endpoint /ws/organizations/{id} is closed to the other tenants.
Admitted(r) == r.path = "organizations" => r.super \/ r.org = r.about

\* Mutant: every endpoint gives the platform-wide channels.
AnyTenant(r) ==
  IF r.path = "organizations"
    THEN {<<t, Global>> : t \in {"platform", "threats", "governance"}}
    ELSE {<<r.path, Global>>}

EndpointChannels(r) ==
  IF r.path = "organizations"
    THEN {<<t, r.about>> : t \in {"platform", "threats", "governance"}}
    ELSE {<<r.path, IF r.super THEN Global ELSE r.org>>}
=============================================================================

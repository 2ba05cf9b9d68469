--------------------------- MODULE MCEventStreaming ---------------------------
(* The instance of EventStreaming that TLC checks.                         *)
EXTENDS EventStreaming

CONSTANTS s1, o1, o2, global, noOrg, any, retention, broadcast

From(org, path) == [org |-> org, super |-> FALSE, path |-> path, about |-> org]

\* The dashboard of one organization.
MCOrganization == [s \in Sockets |-> From(o1, "organizations")]

Audit(org) == [type |-> "audit.event.created", org |-> org]

MCBothTenants == {Audit(o1), Audit(o2)}
=============================================================================

------------------------------ MODULE MCAccounts ------------------------------
(* Two requests at a time among three accounts, of two organizations, and an *)
(* address that nobody has yet.                                              *)
EXTENDS Accounts, TLC

CONSTANTS ann, bob, sue, new, ours, theirs, n1, n2, r1, r2

MCUsers == {ann, bob, sue, new}
MCOrgs == {ours, theirs}
MCNames == {n1, n2}
MCRequests == {r1, r2}

Row(org, role) == [org |-> org, role |-> role, active |-> TRUE, deleted |-> FALSE, name |-> n1]
Org == [name |-> n1, integration |-> FALSE]

\* Bob is an administrator of his organization, as Ann is, or a developer.
Tables(role) ==
  (ann :> Row(ours, "ORG_ADMIN")) @@ (bob :> Row(ours, role)) @@ (sue :> Row(theirs, "SUPER_ADMIN"))
  @@ (new :> Absent) @@ (ours :> Org) @@ (theirs :> Org)
MCBegun == {Tables("ORG_ADMIN"), Tables("DEVELOPER")}

MCAsks ==
  {[active |-> on] : on \in BOOLEAN} \cup {[role |-> role] : role \in Role} \cup {[name |-> n2]}

Symmetric == Permutations(MCRequests)
=============================================================================

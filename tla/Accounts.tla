------------------------------- MODULE Accounts -------------------------------
(***************************************************************************)
(* Requests that change accounts and organizations: logins, profiles, what *)
(* administrators do with the accounts of others, the organization and its *)
(* integrations (app/services/user_service.py, settings_service.py,        *)
(* organization_service.py, auth_service.py, audit_service.py).            *)
(*                                                                         *)
(* A request is one database transaction at the READ COMMITTED level.  Its *)
(* session keeps the rows that it has loaded: the actor's and, through the *)
(* actor's, the organization's are the ones the request was admitted by.   *)
(* The columns given a value that differs from the loaded one are written  *)
(* by the flush before the audit row, under the row lock; the audit event  *)
(* is published then, and only then does the transaction commit.           *)
(*                                                                         *)
(* An account is known by its address, which is unique.  Tokens have not   *)
(* expired (ConsoleSession has those), and no organization is deleted.     *)
(***************************************************************************)
EXTENDS Naturals, Sequences, FiniteSets

CONSTANTS Users, Orgs,
          Nobody,      \* the row of a request that has not begun
          Requests,
          Begun,       \* what the tables may hold at the start
          Asks,        \* what administrators ask for of an account: UserUpdate
          Names        \* what accounts and organizations are named

\* For what is done here an analyst is like a developer.
Role == {"SUPER_ADMIN", "ORG_ADMIN", "DEVELOPER"}
User == [org : Orgs, role : Role, active : BOOLEAN, deleted : BOOLEAN, name : Names]
Organization == [name : Names, integration : BOOLEAN]
Absent == [absent |-> TRUE]

Keys == Users \cup Orgs

ASSUME AccountsAssumption ==
  /\ Users \cap Orgs = {} /\ Nobody \notin Keys
  /\ Begun \subseteq [Keys -> User \cup Organization \cup {Absent}]
  /\ \A t \in Begun : /\ \A u \in Users : t[u] \in User \cup {Absent}
                      /\ \A o \in Orgs : t[o] \in Organization
  /\ \A ask \in Asks : /\ DOMAIN ask \subseteq {"role", "active", "name"}
                       /\ "role" \in DOMAIN ask => ask.role \in Role
                       /\ "active" \in DOMAIN ask => ask.active \in BOOLEAN
                       /\ "name" \in DOMAIN ask => ask.name \in Names

VARIABLES
  table,    \* the committed rows
  pc,       \* how far each request is
  op,       \* what it does
  actor,    \* whose request it is
  me,       \* the actor's row as the request was admitted by it
  key,      \* the row it changes
  row,      \* its copy of that row, with the changes
  asked,    \* the columns it was asked to change, with their values
  dirty,    \* those of them that differ from what it had loaded
  answer,   \* the row its client was told of
  trail,    \* the requests in the order their audit events were published
  order,    \* the requests in the order they committed (history)
  others    \* (history) the columns of its row that others have committed since
            \* it loaded it

vars == <<table, pc, op, actor, me, key, row, asked, dirty, answer, trail, order, others>>

Nothing == [c \in {} |-> {}]
Gone == [active |-> FALSE, deleted |-> TRUE]

\* What a request may be asked to change.
Change ==
  Asks \cup {Nothing, Gone} \cup {[name |-> n] : n \in Names} \cup {[integration |-> on] : on \in BOOLEAN}

Column == {"org", "role", "active", "deleted", "name", "integration", "last_login_at"}

TypeOK ==
  /\ table \in [Keys -> User \cup Organization \cup {Absent}]
  /\ \A u \in Users : table[u] \in User \cup {Absent}
  /\ \A o \in Orgs : table[o] \in Organization
  /\ pc \in [Requests -> {"new", "admitted", "ready", "flushed", "committed", "answered", "failed"}]
  /\ op \in [Requests -> {"none", "login", "profile", "organization", "integration",
                          "update", "delete", "create"}]
  /\ actor \in [Requests -> Users \cup {Nobody}]
  /\ me \in [Requests -> User \cup {Absent}]
  /\ key \in [Requests -> Keys \cup {Nobody}]
  /\ row \in [Requests -> User \cup Organization \cup {Absent}]
  /\ answer \in [Requests -> User \cup Organization \cup {Absent}]
  /\ asked \in [Requests -> Change]
  /\ dirty \in [Requests -> SUBSET Column]
  /\ others \in [Requests -> SUBSET Column]
  /\ trail \in Seq(Requests) /\ order \in Seq(Requests)

Init ==
  /\ table \in Begun
  /\ pc = [x \in Requests |-> "new"]
  /\ op = [x \in Requests |-> "none"]
  /\ actor = [x \in Requests |-> Nobody]
  /\ me = [x \in Requests |-> Absent]
  /\ key = [x \in Requests |-> Nobody]
  /\ row = [x \in Requests |-> Absent]
  /\ asked = [x \in Requests |-> Nothing]
  /\ dirty = [x \in Requests |-> {}]
  /\ answer = [x \in Requests |-> Absent]
  /\ trail = <<>> /\ order = <<>>
  /\ others = [x \in Requests |-> {}]

-----------------------------------------------------------------------------
(* Rows and sessions.                                                      *)

Exists(u) == table[u] # Absent
Manages(user) == user.role \in {"SUPER_ADMIN", "ORG_ADMIN"}

\* enforce_tenant_access
SameTenant(user, org) == user.role = "SUPER_ADMIN" \/ user.org = org

\* Only an administrator of the platform makes one.
MayGive(user, ask) ==
  ("role" \in DOMAIN ask /\ ask.role = "SUPER_ADMIN") => user.role = "SUPER_ADMIN"

\* Mutant: a value is taken over "if payload.x" instead of "is not None".
GivenTruthy(copy, ask) ==
  [c \in DOMAIN copy |->
     IF c \in DOMAIN ask /\ (c = "active" => ask[c]) THEN ask[c] ELSE copy[c]]

\* The copy with the values that were given.
Given(copy, ask) == [c \in DOMAIN copy |-> IF c \in DOMAIN ask THEN ask[c] ELSE copy[c]]

Differing(copy, ask) == {c \in DOMAIN copy : Given(copy, ask)[c] # copy[c]}

Goto(x, at) == pc' = [pc EXCEPT ![x] = at]

\* Request x has the row k in its session and is asked to change it.
Holds(x, what, k, copy, ask, columns) ==
  /\ op' = [op EXCEPT ![x] = what]
  /\ key' = [key EXCEPT ![x] = k]
  /\ row' = [row EXCEPT ![x] = Given(copy, ask)]
  /\ asked' = [asked EXCEPT ![x] = ask]
  /\ dirty' = [dirty EXCEPT ![x] = columns]
  /\ others' = [others EXCEPT ![x] = {}]

Changes(x, what, k, copy, ask) == Holds(x, what, k, copy, ask, Differing(copy, ask))

-----------------------------------------------------------------------------
(* The beginning of a request.                                             *)

\* authenticate_user: the time of the login, which is not kept here, is written
\* in any case.
Login(x) ==
  /\ pc[x] = "new"
  /\ \E u \in Users :
       /\ Exists(u) /\ ~table[u].deleted /\ table[u].active
       /\ actor' = [actor EXCEPT ![x] = u]
       /\ me' = [me EXCEPT ![x] = table[u]]
       /\ Holds(x, "login", u, table[u], Nothing, {"last_login_at"})
  /\ Goto(x, "ready")
  /\ UNCHANGED <<table, answer, trail, order>>

\* get_current_active_user
Admits(x, u) ==
  /\ pc[x] = "new"
  /\ Exists(u) /\ ~table[u].deleted /\ table[u].active
  /\ actor' = [actor EXCEPT ![x] = u]
  /\ me' = [me EXCEPT ![x] = table[u]]
  /\ UNCHANGED <<table, answer, trail, order>>

\* update_current_user: the row is the one the actor was admitted by.
UpdateProfile(x, u) ==
  /\ Admits(x, u)
  /\ \E n \in Names : Changes(x, "profile", u, table[u], [name |-> n])
  /\ Goto(x, "ready")

\* update_current_organization, by require_org_admin.
UpdateOrganization(x, u) ==
  /\ Admits(x, u) /\ Manages(table[u])
  /\ \E n \in Names : Changes(x, "organization", table[u].org, table[table[u].org], [name |-> n])
  /\ Goto(x, "ready")

\* update_integration: the loaded JSON is changed in place and assigned to its
\* own column, which is no change to the session: nothing is written.
UpdateIntegration(x, u) ==
  /\ Admits(x, u) /\ Manages(table[u])
  /\ \E on \in BOOLEAN :
       Holds(x, "integration", table[u].org, table[table[u].org], [integration |-> on], {})
  /\ Goto(x, "ready")

\* An administrator is admitted to update or delete an account; it is loaded next.
Administer(x, u) ==
  /\ Admits(x, u) /\ Manages(table[u])
  /\ \E t \in Users, what \in {"update", "delete"} :
       /\ op' = [op EXCEPT ![x] = what]
       /\ key' = [key EXCEPT ![x] = t]
       /\ row' = [row EXCEPT ![x] = IF t = u THEN table[u] ELSE Absent]
  /\ others' = [others EXCEPT ![x] = {}]
  /\ Goto(x, "admitted")
  /\ UNCHANGED <<asked, dirty>>

\* Mutant: the actor's own row is read anew.
LoadedAnew(x) == table[key[x]]

\* The row in the session: the actor's own is there since the admission, and the
\* SELECT does not overwrite it.
Loaded(x) == IF row[x] # Absent THEN row[x] ELSE table[key[x]]

\* update_user and delete_user load the account and change it, or refuse.
Load(x) ==
  /\ pc[x] = "admitted"
  /\ LET t == key[x] IN
     IF Exists(t) /\ ~table[t].deleted /\ SameTenant(me[x], Loaded(x).org)
       THEN /\ \/ /\ op[x] = "update"
                  /\ \E ask \in Asks :
                       /\ MayGive(me[x], ask)
                       /\ row' = [row EXCEPT ![x] = Given(Loaded(x), ask)]
                       /\ asked' = [asked EXCEPT ![x] = ask]
                       /\ dirty' = [dirty EXCEPT ![x] = Differing(Loaded(x), ask)]
               \/ /\ op[x] = "delete" /\ key[x] # actor[x]
                  /\ row' = [row EXCEPT ![x] = Given(Loaded(x), Gone)]
                  /\ asked' = [asked EXCEPT ![x] = Gone]
                  /\ dirty' = [dirty EXCEPT ![x] = Differing(Loaded(x), Gone)]
            /\ others' = IF row[x] = Absent THEN [others EXCEPT ![x] = {}] ELSE others
            /\ Goto(x, "ready")
       ELSE Goto(x, "failed") /\ UNCHANGED <<row, asked, dirty, others>>
  /\ UNCHANGED <<table, op, actor, me, key, answer, trail, order>>

\* create_user: an address that has been taken, if by a deleted account, is refused.
CreateUser(x, u) ==
  /\ Admits(x, u) /\ Manages(table[u])
  /\ \E t \in Users, o \in Orgs, role \in Role, on \in BOOLEAN, n \in Names :
       /\ ~Exists(t) /\ SameTenant(table[u], o) /\ MayGive(table[u], [role |-> role])
       /\ Holds(x, "create", t,
                [org |-> o, role |-> role, active |-> on, deleted |-> FALSE, name |-> n], Nothing, {})
  /\ Goto(x, "ready")

-----------------------------------------------------------------------------
(* The end of a request.                                                   *)

Inserts(x) == op[x] = "create"

\* Mutant: the row is not locked before the commit.
NeverLocked(x) == FALSE

\* Another request has written the row, or inserted one of the same address, and
\* has yet to commit.
Locked(x) ==
  \E y \in Requests \ {x} : pc[y] = "flushed" /\ key[y] = key[x] /\ (dirty[y] # {} \/ Inserts(y))

\* The flush writes the columns that differ and the audit row, and the audit
\* event is published.  An address that was taken meanwhile fails the request.
\* A login is not audited.
Flush(x) ==
  /\ pc[x] = "ready"
  /\ dirty[x] # {} \/ Inserts(x) => ~Locked(x)
  /\ IF Inserts(x) /\ Exists(key[x])
       THEN Goto(x, "failed") /\ UNCHANGED trail
       ELSE /\ Goto(x, "flushed")
            /\ trail' = IF op[x] = "login" THEN trail ELSE Append(trail, x)
  /\ UNCHANGED <<table, op, actor, me, key, row, asked, dirty, answer, order, others>>

\* Mutant: the UPDATE writes the whole row as it was loaded.
MergeWhole(x) == row[x]

Merge(x) ==
  IF Inserts(x) THEN row[x]
  ELSE [c \in DOMAIN row[x] |-> IF c \in dirty[x] THEN row[x][c] ELSE table[key[x]][c]]

Commit(x) ==
  /\ pc[x] = "flushed"
  /\ Goto(x, "committed")
  /\ table' = [table EXCEPT ![key[x]] = Merge(x)]
  /\ order' = Append(order, x)
  /\ others' = [y \in Requests |->
                  IF y # x /\ key[y] = key[x] THEN others[y] \cup dirty[x] ELSE others[y]]
  /\ UNCHANGED <<op, actor, me, key, row, asked, dirty, answer, trail>>

\* The client is told of the row as it is read again; an integration is told as
\* it was asked for, and of a deletion nothing.
Answer(x) ==
  /\ pc[x] = "committed"
  /\ Goto(x, "answered")
  /\ answer' = [answer EXCEPT ![x] = IF op[x] = "integration" THEN row[x] ELSE table[key[x]]]
  /\ UNCHANGED <<table, op, actor, me, key, row, asked, dirty, trail, order, others>>

\* An exception or a crash: nothing is written, what is published stays published.
Fail(x) ==
  /\ pc[x] \in {"admitted", "ready", "flushed"}
  /\ Goto(x, "failed")
  /\ UNCHANGED <<table, op, actor, me, key, row, asked, dirty, answer, trail, order, others>>

Step(x) ==
  \/ Login(x)
  \/ \E u \in Users : \/ UpdateProfile(x, u) \/ UpdateOrganization(x, u) \/ UpdateIntegration(x, u)
                      \/ Administer(x, u) \/ CreateUser(x, u)
  \/ Load(x) \/ Flush(x) \/ Commit(x) \/ Answer(x) \/ Fail(x)

Next == \E x \in Requests : Step(x)

Spec == Init /\ [][Next]_vars

-----------------------------------------------------------------------------
(* Properties.                                                             *)

Commits(x) == pc[x] = "flushed" /\ pc'[x] = "committed"

Rights(user) == [role |-> user.role, active |-> user.active, deleted |-> user.deleted]

\* What an account may do changes only by the request of an administrator of its
\* organization or of the platform, and only the latter makes one of the latter;
\* the stale rows of logins and profiles never bring old rights back.  A deleted
\* account stays deleted.
RightsByAdministrators ==
  \A u \in Users : Exists(u) /\ Rights(table'[u]) # Rights(table[u]) =>
    /\ ~table[u].deleted \/ table'[u].deleted
    /\ \E x \in Requests :
         /\ Commits(x) /\ Manages(me[x]) /\ SameTenant(me[x], table[u].org)
         /\ table'[u].role = table[u].role \/ MayGive(me[x], table'[u])
RightsOnlyByAdministrators == [][RightsByAdministrators]_vars

\* Who has lost rights while a request of theirs is on its way does not get them
\* back by it: no request ends the deactivation of its own actor, or gives them a
\* higher role than it was admitted with.
Rank == [role \in Role |-> IF role = "SUPER_ADMIN" THEN 2 ELSE IF role = "ORG_ADMIN" THEN 1 ELSE 0]
RevivesNobody ==
  \A u \in Users, x \in Requests : Commits(x) /\ actor[x] = u /\ key[x] = u =>
    /\ table'[u].active => table[u].active
    /\ table'[u].role = table[u].role \/ Rank[table'[u].role] <= Rank[me[x].role]
NoSelfRevival == [][RevivesNobody]_vars

\* A client that is told of a change finds in the answer what it asked for, or
\* someone else has changed that column since the request loaded it.  (Not so
\* with integrations: see UpdateIntegration.)
AskedIsAnswered ==
  \A x \in Requests : pc[x] = "answered" /\ op[x] # "integration" =>
    \A c \in DOMAIN asked[x] : answer[x][c] = asked[x][c] \/ c \in others[x]

\* Of two requests that changed the same row, the audit events were published in
\* the order of their commits: who reads the trail ends up with what is stored.
Position(seq, x) == CHOOSE i \in DOMAIN seq : seq[i] = x
Changed(x) == pc[x] \in {"committed", "answered"} /\ dirty[x] # {} /\ op[x] # "login"
AuditedInOrder ==
  \A x, y \in {z \in Requests : Changed(z)} :
    key[x] = key[y] /\ Position(trail, x) < Position(trail, y) => Position(order, x) < Position(order, y)

\* What makes these inductive.  A request is one of an account that exists and
\* was active when it was admitted; only administrators' requests are about the
\* accounts of others.
Admission(x) ==
  pc[x] # "new" =>
    /\ actor[x] \in Users /\ Exists(actor[x]) /\ me[x] \in User /\ me[x].active
    /\ key[x] \in (IF op[x] \in {"organization", "integration"} THEN Orgs ELSE Users)
    /\ op[x] \in {"update", "delete", "create"} => Manages(me[x])
    /\ op[x] # "none" /\ (op[x] = "create" => key[x] # actor[x])

\* The request holds a row of the kind it changes, with what it was asked for.
Working(x) == pc[x] \in {"ready", "flushed", "committed", "answered"}
Copy(x) ==
  /\ pc[x] \in {"new", "admitted"} => dirty[x] = {}
  /\ pc[x] = "admitted" =>
       op[x] \in {"update", "delete"} /\ row[x] = (IF key[x] = actor[x] THEN me[x] ELSE Absent)
  /\ Working(x) =>
       /\ row[x] \in (IF key[x] \in Users THEN User ELSE Organization)
       /\ \A c \in DOMAIN asked[x] : c \in DOMAIN row[x] /\ row[x][c] = asked[x][c]

\* What it writes: nothing moves an account to another organization, and rights
\* are written by administrators, within their own.
Writing(x) ==
  Working(x) =>
    /\ dirty[x] \subseteq (IF op[x] = "login" THEN {"last_login_at"}
                           ELSE IF op[x] \in {"profile", "organization"} THEN {"name"}
                           ELSE IF op[x] \in {"update", "delete"}
                             THEN {"role", "active", "deleted", "name"} ELSE {})
    /\ op[x] \in {"update", "delete"} => SameTenant(me[x], row[x].org)
    /\ "deleted" \in dirty[x] => row[x].deleted
    /\ "role" \in dirty[x] => MayGive(me[x], row[x])
    /\ "active" \in dirty[x] /\ key[x] = actor[x] => ~row[x].active

\* The row is there, unless the request inserts it.
Present(x) ==
  /\ pc[x] \in {"ready", "flushed"} /\ ~Inserts(x) => Exists(key[x])
  /\ pc[x] \in {"committed", "answered"} => Exists(key[x])
  /\ pc[x] = "flushed" /\ Inserts(x) => ~Exists(key[x])

\* Where the copy differs from what is stored, or was answered, the request has
\* yet to write the column or someone else has.
Fresh(x) ==
  /\ "org" \notin others[x]
  /\ op[x] # "integration" /\ row[x] # Absent =>
       /\ pc[x] = "admitted" \/ (pc[x] \in {"ready", "flushed"} /\ ~Inserts(x)) =>
            \A c \in DOMAIN row[x] \ dirty[x] : table[key[x]][c] = row[x][c] \/ c \in others[x]
       /\ pc[x] = "committed" =>
            \A c \in DOMAIN row[x] : table[key[x]][c] = row[x][c] \/ c \in others[x]
       /\ pc[x] = "answered" =>
            \A c \in DOMAIN row[x] : answer[x][c] = row[x][c] \/ c \in others[x]

\* One request at a time has written a row and not committed.
Writes(x) == dirty[x] # {} \/ Inserts(x)
Exclusive ==
  \A x, y \in Requests :
    pc[x] = "flushed" /\ pc[y] = "flushed" /\ key[x] = key[y] /\ Writes(x) /\ Writes(y) => x = y

RequestInv == \A x \in Requests : Admission(x) /\ Copy(x) /\ Writing(x) /\ Present(x) /\ Fresh(x)

\* A request is published and committed once; one that has written a row and not
\* committed was published after those that have.
Once(seq) == \A i, j \in 1 .. Len(seq) : seq[i] = seq[j] => i = j
Audited(x) == dirty[x] # {} /\ op[x] # "login"
TrailInv ==
  /\ Once(trail) /\ Once(order)
  /\ \A i \in 1 .. Len(trail) : pc[trail[i]] \in {"flushed", "committed", "answered", "failed"}
  /\ \A i \in 1 .. Len(order) : pc[order[i]] \in {"committed", "answered"}
  /\ \A x \in Requests :
       /\ pc[x] \in {"flushed", "committed", "answered"} /\ Audited(x)
            => \E i \in 1 .. Len(trail) : trail[i] = x
       /\ pc[x] \in {"committed", "answered"} => \E i \in 1 .. Len(order) : order[i] = x
  /\ \A x, y \in Requests :
       Changed(x) /\ pc[y] = "flushed" /\ Audited(y) /\ key[x] = key[y]
         => Position(trail, x) < Position(trail, y)

AccountsInv == TypeOK /\ RequestInv /\ Exclusive /\ TrailInv /\ AuditedInOrder
=============================================================================

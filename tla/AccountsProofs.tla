---------------------------- MODULE AccountsProofs ----------------------------
(***************************************************************************)
(* Proofs about Accounts, for any accounts, organizations, requests and    *)
(* any number of requests at a time.                                       *)
(***************************************************************************)
EXTENDS Accounts, TLAPS

-----------------------------------------------------------------------------
(* Rows.                                                                   *)

\* What a request may be asked to change, by column.
LEMMA ChangeType ==
  ASSUME NEW ask \in Change
  PROVE  /\ "org" \notin DOMAIN ask /\ "last_login_at" \notin DOMAIN ask
         /\ "role" \in DOMAIN ask => ask.role \in Role
         /\ "active" \in DOMAIN ask => ask.active \in BOOLEAN
         /\ "deleted" \in DOMAIN ask => ask.deleted = TRUE
         /\ "name" \in DOMAIN ask => ask.name \in Names
         /\ "integration" \in DOMAIN ask => ask.integration \in BOOLEAN
<1>1. CASE ask \in Asks
  BY <1>1, AccountsAssumption
<1>2. CASE ask = Nothing
  BY <1>2 DEF Nothing
<1>3. CASE ask = Gone
  <2>1. DOMAIN Gone = {"active", "deleted"} /\ Gone.active = FALSE /\ Gone.deleted = TRUE
    BY DEF Gone
  <2>2. QED
    BY <1>3, <2>1
<1>4. ASSUME NEW n \in Names, ask = [name |-> n] PROVE DOMAIN ask = {"name"} /\ ask.name \in Names
  BY <1>4
<1>5. ASSUME NEW on \in BOOLEAN, ask = [integration |-> on]
      PROVE  DOMAIN ask = {"integration"} /\ ask.integration \in BOOLEAN
  BY <1>5
<1>6. \/ ask \in Asks \/ ask = Nothing \/ ask = Gone
      \/ DOMAIN ask = {"name"} /\ ask.name \in Names
      \/ DOMAIN ask = {"integration"} /\ ask.integration \in BOOLEAN
  BY <1>4, <1>5 DEF Change
<1>7. QED
  BY <1>1, <1>2, <1>3, <1>6

\* A copy with the values given is a row of the same kind, of the same
\* organization, and keeps the columns that do not differ.
LEMMA GivenUser ==
  ASSUME NEW ask \in Change, NEW copy \in User
  PROVE  /\ Given(copy, ask) \in User /\ Given(copy, ask).org = copy.org
         /\ DOMAIN copy = {"org", "role", "active", "deleted", "name"}
         /\ DOMAIN Given(copy, ask) = DOMAIN copy
         /\ Differing(copy, ask) \subseteq DOMAIN ask \cap DOMAIN copy
         /\ \A c \in DOMAIN copy \ Differing(copy, ask) : Given(copy, ask)[c] = copy[c]
         /\ \A c \in DOMAIN copy : c \in DOMAIN ask => Given(copy, ask)[c] = ask[c]
<1>1. DOMAIN copy = {"org", "role", "active", "deleted", "name"}
  BY DEF User
<1>2. /\ DOMAIN Given(copy, ask) = DOMAIN copy
      /\ \A c \in DOMAIN copy : Given(copy, ask)[c] = IF c \in DOMAIN ask THEN ask[c] ELSE copy[c]
  BY DEF Given
<1>3. Given(copy, ask) \in User
  BY <1>1, ChangeType DEF User, Given
<1>4. QED
  BY <1>1, <1>2, <1>3, ChangeType DEF Differing

LEMMA GivenOrganization ==
  ASSUME NEW ask \in Change, NEW copy \in Organization
  PROVE  /\ Given(copy, ask) \in Organization
         /\ DOMAIN copy = {"name", "integration"}
         /\ DOMAIN Given(copy, ask) = DOMAIN copy
         /\ Differing(copy, ask) \subseteq DOMAIN ask \cap DOMAIN copy
         /\ \A c \in DOMAIN copy \ Differing(copy, ask) : Given(copy, ask)[c] = copy[c]
         /\ \A c \in DOMAIN copy : c \in DOMAIN ask => Given(copy, ask)[c] = ask[c]
<1>1. DOMAIN copy = {"name", "integration"}
  BY DEF Organization
<1>2. /\ DOMAIN Given(copy, ask) = DOMAIN copy
      /\ \A c \in DOMAIN copy : Given(copy, ask)[c] = IF c \in DOMAIN ask THEN ask[c] ELSE copy[c]
  BY DEF Given
<1>3. Given(copy, ask) \in Organization
  BY <1>1, ChangeType DEF Organization, Given
<1>4. QED
  BY <1>1, <1>2, <1>3, ChangeType DEF Differing

\* The kinds of rows are told apart by their columns.
LEMMA Kinds ==
  /\ \A r \in User : r # Absent /\ r \notin Organization
  /\ \A r \in Organization : r # Absent
<1>1. \A r \in User : DOMAIN r = {"org", "role", "active", "deleted", "name"}
  BY DEF User
<1>2. \A r \in Organization : DOMAIN r = {"name", "integration"}
  BY DEF Organization
<1>3. DOMAIN Absent = {"absent"}
  BY DEF Absent
<1>4. QED
  BY <1>1, <1>2, <1>3

\* What a commit makes of the row: an update keeps the columns it does not write.
LEMMA MergeEffect ==
  ASSUME TypeOK, RequestInv, NEW x \in Requests, pc[x] = "flushed"
  PROVE  /\ key[x] \in Keys
         /\ Merge(x) \in (IF key[x] \in Users THEN User ELSE Organization)
         /\ DOMAIN Merge(x) = DOMAIN row[x]
         /\ Inserts(x) => Merge(x) = row[x] /\ ~Exists(key[x])
         /\ ~Inserts(x) =>
              /\ Exists(key[x]) /\ DOMAIN Merge(x) = DOMAIN table[key[x]]
              /\ \A c \in DOMAIN row[x] :
                   Merge(x)[c] = IF c \in dirty[x] THEN row[x][c] ELSE table[key[x]][c]
<1>1. Admission(x) /\ Copy(x) /\ Writing(x) /\ Present(x)
  BY DEF RequestInv
<1>2. key[x] \in Keys /\ (key[x] \in Users \/ key[x] \in Orgs)
  BY <1>1 DEF Admission, Keys
<1>3. row[x] \in (IF key[x] \in Users THEN User ELSE Organization)
  BY <1>1 DEF Copy, Working
<1>4. Inserts(x) => Merge(x) = row[x] /\ ~Exists(key[x])
  BY <1>1 DEF Merge, Present
<1>5. ASSUME ~Inserts(x)
      PROVE  /\ Exists(key[x]) /\ DOMAIN Merge(x) = DOMAIN row[x]
             /\ \A c \in DOMAIN row[x] :
                  Merge(x)[c] = IF c \in dirty[x] THEN row[x][c] ELSE table[key[x]][c]
  BY <1>1, <1>5 DEF Merge, Present
<1>6. CASE key[x] \in Users
  <2>1. row[x] \in User /\ (~Inserts(x) => table[key[x]] \in User)
    BY <1>3, <1>5, <1>6 DEF TypeOK, Exists
  <2>2. ~Inserts(x) => Merge(x) \in User
    BY <2>1 DEF Merge, User
  <2>3. ~Inserts(x) => DOMAIN row[x] = DOMAIN table[key[x]]
    BY <2>1 DEF User
  <2>4. QED
    BY <1>2, <1>4, <1>5, <1>6, <2>1, <2>2, <2>3
<1>7. CASE key[x] \in Orgs /\ key[x] \notin Users
  <2>1. row[x] \in Organization /\ table[key[x]] \in Organization
    BY <1>3, <1>7 DEF TypeOK
  <2>2. ~Inserts(x) => Merge(x) \in Organization
    BY <2>1 DEF Merge, Organization
  <2>3. DOMAIN row[x] = DOMAIN table[key[x]]
    BY <2>1 DEF Organization
  <2>4. QED
    BY <1>2, <1>4, <1>5, <1>7, <2>1, <2>2, <2>3
<1>8. QED
  BY <1>2, <1>6, <1>7

-----------------------------------------------------------------------------
(* Types, and what each step leaves alone.                                 *)

\* A request begins by loading its row, or by being admitted.
Begins(x) ==
  \/ Login(x)
  \/ \E u \in Users : \/ UpdateProfile(x, u) \/ UpdateOrganization(x, u)
                      \/ UpdateIntegration(x, u) \/ CreateUser(x, u)

\* What a request of u, who is active, holds once it has begun.
Ready(x, u, what, k, copy, ask, columns) ==
  /\ Exists(u) /\ table[u].active
  /\ pc[x] = "new" /\ Goto(x, "ready")
  /\ actor' = [actor EXCEPT ![x] = u]
  /\ me' = [me EXCEPT ![x] = table[u]]
  /\ Holds(x, what, k, copy, ask, columns)
  /\ UNCHANGED <<table, answer, trail, order>>

\* What it is about: its own account, its organization, or a new account.
Fits(u, what, k, copy, ask, columns) ==
  \/ /\ what = "login" /\ k = u /\ copy = table[u] /\ ask = Nothing
     /\ columns = {"last_login_at"}
  \/ /\ what = "profile" /\ k = u /\ copy = table[u] /\ columns = Differing(copy, ask)
     /\ \E n \in Names : ask = [name |-> n]
  \/ /\ what = "organization" /\ k = table[u].org /\ copy = table[k]
     /\ columns = Differing(copy, ask) /\ \E n \in Names : ask = [name |-> n]
  \/ /\ what = "integration" /\ k = table[u].org /\ copy = table[k] /\ columns = {}
     /\ \E on \in BOOLEAN : ask = [integration |-> on]
  \/ /\ what = "create" /\ k \in Users /\ ~Exists(k) /\ Manages(table[u])
     /\ copy \in User /\ ask = Nothing /\ columns = {}

LEMMA BeginsReady ==
  ASSUME NEW x \in Requests, Begins(x)
  PROVE  \E u \in Users : \E what, k, copy, ask, columns :
           Ready(x, u, what, k, copy, ask, columns) /\ Fits(u, what, k, copy, ask, columns)
<1>1. CASE Login(x)
  <2>1. PICK u \in Users :
          /\ Exists(u) /\ ~table[u].deleted /\ table[u].active
          /\ actor' = [actor EXCEPT ![x] = u]
          /\ me' = [me EXCEPT ![x] = table[u]]
          /\ Holds(x, "login", u, table[u], Nothing, {"last_login_at"})
    BY <1>1 DEF Login
  <2>2. Ready(x, u, "login", u, table[u], Nothing, {"last_login_at"})
    BY <1>1, <2>1 DEF Login, Ready
  <2>3. Fits(u, "login", u, table[u], Nothing, {"last_login_at"})
    BY DEF Fits
  <2>4. QED
    BY <2>2, <2>3
<1> DEFINE Found == \E u \in Users : \E what, k, copy, ask, columns :
              Ready(x, u, what, k, copy, ask, columns) /\ Fits(u, what, k, copy, ask, columns)
<1>2. ASSUME NEW u \in Users, UpdateProfile(x, u) PROVE Found
  <2>1. PICK n \in Names : Changes(x, "profile", u, table[u], [name |-> n])
    BY <1>2 DEF UpdateProfile
  <2> DEFINE ask == [name |-> n]
  <2>2. Ready(x, u, "profile", u, table[u], ask, Differing(table[u], ask))
    BY <1>2, <2>1 DEF UpdateProfile, Ready, Changes, Admits
  <2>3. Fits(u, "profile", u, table[u], ask, Differing(table[u], ask))
    BY DEF Fits
  <2>4. QED
    BY <2>2, <2>3
<1>3. ASSUME NEW u \in Users, UpdateOrganization(x, u) PROVE Found
  <2> DEFINE o == table[u].org
  <2>1. PICK n \in Names : Changes(x, "organization", o, table[o], [name |-> n])
    BY <1>3 DEF UpdateOrganization
  <2> DEFINE ask == [name |-> n]
  <2>2. Ready(x, u, "organization", o, table[o], ask, Differing(table[o], ask))
    BY <1>3, <2>1 DEF UpdateOrganization, Ready, Changes, Admits
  <2>3. Fits(u, "organization", o, table[o], ask, Differing(table[o], ask))
    BY DEF Fits
  <2>4. QED
    BY <2>2, <2>3
<1>4. ASSUME NEW u \in Users, UpdateIntegration(x, u) PROVE Found
  <2> DEFINE o == table[u].org
  <2>1. PICK on \in BOOLEAN : Holds(x, "integration", o, table[o], [integration |-> on], {})
    BY <1>4 DEF UpdateIntegration
  <2> DEFINE ask == [integration |-> on]
  <2>2. Ready(x, u, "integration", o, table[o], ask, {})
    BY <1>4, <2>1 DEF UpdateIntegration, Ready, Admits
  <2>3. Fits(u, "integration", o, table[o], ask, {})
    BY DEF Fits
  <2>4. QED
    BY <2>2, <2>3
<1>5. ASSUME NEW u \in Users, CreateUser(x, u) PROVE Found
  <2>1. PICK t \in Users, o \in Orgs, role \in Role, on \in BOOLEAN, n \in Names :
          /\ ~Exists(t)
          /\ Holds(x, "create", t,
                   [org |-> o, role |-> role, active |-> on, deleted |-> FALSE, name |-> n],
                   Nothing, {})
    BY <1>5 DEF CreateUser
  <2> DEFINE copy == [org |-> o, role |-> role, active |-> on, deleted |-> FALSE, name |-> n]
  <2>2. Ready(x, u, "create", t, copy, Nothing, {})
    BY <1>5, <2>1 DEF CreateUser, Ready, Admits
  <2>3. copy \in User /\ Manages(table[u])
    BY <1>5 DEF User, CreateUser
  <2>4. Fits(u, "create", t, copy, Nothing, {})
    BY <2>1, <2>3 DEF Fits
  <2>5. QED
    BY <2>2, <2>4
<1>6. QED
  BY <1>1, <1>2, <1>3, <1>4, <1>5 DEF Begins

LEMMA FitsEffect ==
  ASSUME TypeOK, NEW u \in Users, Exists(u),
         NEW what, NEW k, NEW copy, NEW ask, NEW columns, Fits(u, what, k, copy, ask, columns)
  PROVE  /\ what \in {"login", "profile", "organization", "integration", "create"}
         /\ k \in (IF what \in {"organization", "integration"} THEN Orgs ELSE Users)
         /\ ask \in Change
         /\ Given(copy, ask) \in (IF k \in Users THEN User ELSE Organization)
         /\ \A c \in DOMAIN ask : c \in DOMAIN Given(copy, ask) /\ Given(copy, ask)[c] = ask[c]
         /\ columns \subseteq (IF what = "login" THEN {"last_login_at"}
                               ELSE IF what \in {"profile", "organization"} THEN {"name"} ELSE {})
         /\ what = "create" => ~Exists(k) /\ k # u /\ Manages(table[u])
         /\ what # "create" => Exists(k)
         /\ what \notin {"create", "integration"} =>
              \A c \in DOMAIN Given(copy, ask) \ columns : table[k][c] = Given(copy, ask)[c]
<1>1. table[u] \in User /\ table[u].org \in Orgs
  BY DEF TypeOK, Exists, User
<1>2. /\ Nothing \in Change /\ DOMAIN Nothing = {}
      /\ \A n \in Names : [name |-> n] \in Change /\ DOMAIN [name |-> n] = {"name"}
      /\ \A on \in BOOLEAN : [integration |-> on] \in Change
                             /\ DOMAIN [integration |-> on] = {"integration"}
  BY DEF Change, Nothing
<1>3. \A o \in Orgs : table[o] \in Organization /\ Exists(o) /\ o \notin Users
  BY Kinds, AccountsAssumption DEF TypeOK, Exists
<1>4. CASE what \in {"login", "profile", "create"}
  <2>1. k \in Users /\ copy \in User /\ ask \in Change /\ DOMAIN ask \subseteq {"name"}
        /\ columns \subseteq (IF what = "login" THEN {"last_login_at"}
                              ELSE IF what = "profile" THEN {"name"} ELSE {})
    <3>1. CASE what = "profile"
      <4>1. PICK n \in Names : ask = [name |-> n] /\ k = u /\ copy = table[u]
                               /\ columns = Differing(copy, ask)
        BY <3>1 DEF Fits
      <4>2. Differing(copy, ask) \subseteq DOMAIN ask
        BY <1>1, <1>2, <4>1, GivenUser
      <4>3. QED
        BY <1>1, <1>2, <3>1, <4>1, <4>2
    <3>2. CASE what # "profile"
      BY <1>1, <1>2, <1>4, <3>2 DEF Fits
    <3>3. QED
      BY <3>1, <3>2
  <2>2. /\ Given(copy, ask) \in User
        /\ DOMAIN copy = {"org", "role", "active", "deleted", "name"}
        /\ DOMAIN Given(copy, ask) = DOMAIN copy
        /\ \A c \in DOMAIN copy \ Differing(copy, ask) : Given(copy, ask)[c] = copy[c]
        /\ \A c \in DOMAIN copy : c \in DOMAIN ask => Given(copy, ask)[c] = ask[c]
    BY <2>1, GivenUser
  <2>3. what # "create" => copy = table[k] /\ Exists(k)
    BY <1>4 DEF Fits
  <2>4. what = "create" => ~Exists(k) /\ k # u /\ Manages(table[u])
    BY <1>4 DEF Fits
  <2>5. what # "create" => Differing(copy, ask) \subseteq columns
    <3>1. what = "login" => Differing(copy, ask) = {}
      BY <1>2, <2>1, GivenUser DEF Fits
    <3>2. QED
      BY <1>4, <3>1 DEF Fits
  <2>6. QED
    BY <1>4, <2>1, <2>2, <2>3, <2>4, <2>5
<1>5. CASE what \in {"organization", "integration"}
  <2>1. k \in Orgs /\ copy = table[k] /\ copy \in Organization /\ ask \in Change
        /\ DOMAIN ask \subseteq {"name", "integration"}
    <3>1. k = table[u].org /\ copy = table[k]
      BY <1>5 DEF Fits
    <3>2. (\E n \in Names : ask = [name |-> n]) \/ (\E on \in BOOLEAN : ask = [integration |-> on])
      BY <1>5 DEF Fits
    <3>3. ask \in Change /\ DOMAIN ask \subseteq {"name", "integration"}
      <4>1. ASSUME NEW n \in Names, ask = [name |-> n]
            PROVE  ask \in Change /\ DOMAIN ask = {"name"}
        BY <1>2, <4>1, Zenon
      <4>2. ASSUME NEW on \in BOOLEAN, ask = [integration |-> on]
            PROVE  ask \in Change /\ DOMAIN ask = {"integration"}
        BY <1>2, <4>2, Zenon
      <4>3. QED
        BY <3>2, <4>1, <4>2
    <3>4. QED
      BY <1>1, <1>3, <3>1, <3>3
  <2>2. /\ Given(copy, ask) \in Organization
        /\ DOMAIN copy = {"name", "integration"}
        /\ DOMAIN Given(copy, ask) = DOMAIN copy
        /\ Differing(copy, ask) \subseteq DOMAIN ask \cap DOMAIN copy
        /\ \A c \in DOMAIN copy \ Differing(copy, ask) : Given(copy, ask)[c] = copy[c]
        /\ \A c \in DOMAIN copy : c \in DOMAIN ask => Given(copy, ask)[c] = ask[c]
    BY <2>1, GivenOrganization
  <2>3. what = "organization" => columns = Differing(copy, ask) /\ DOMAIN ask = {"name"}
    BY <1>2, <1>5 DEF Fits
  <2>4. what = "integration" => columns = {}
    BY <1>5 DEF Fits
  <2>5. QED
    BY <1>3, <1>5, <2>1, <2>2, <2>3, <2>4
<1>6. QED
  BY <1>4, <1>5 DEF Fits

\* A step of a request leaves the others alone, but for what its commit writes.
Same(y) ==
  /\ pc'[y] = pc[y] /\ op'[y] = op[y] /\ actor'[y] = actor[y] /\ me'[y] = me[y]
  /\ key'[y] = key[y] /\ row'[y] = row[y] /\ asked'[y] = asked[y] /\ dirty'[y] = dirty[y]
  /\ answer'[y] = answer[y]

LEMMA StepKinds ==
  ASSUME NEW x \in Requests, Step(x)
  PROVE  \/ Begins(x) \/ (\E u \in Users : Administer(x, u))
         \/ Load(x) \/ Flush(x) \/ Commit(x) \/ Answer(x) \/ Fail(x)
  BY DEF Step, Begins

LEMMA OthersSame ==
  ASSUME TypeOK, NEW x \in Requests, Step(x), NEW y \in Requests \ {x}
  PROVE  Same(y) /\ (~Commit(x) => UNCHANGED table /\ others'[y] = others[y])
<1> USE DEF TypeOK, Same, Goto
<1>1. CASE Begins(x)
  <2>1. PICK u, what, k, copy, ask, columns : Ready(x, u, what, k, copy, ask, columns)
    BY <1>1, BeginsReady
  <2>2. QED
    BY <2>1 DEF Ready, Holds
<1>2. CASE \E u \in Users : Administer(x, u)
  BY <1>2 DEF Administer, Admits
<1>3. CASE Load(x)
  BY <1>3 DEF Load
<1>4. CASE Flush(x)
  BY <1>4 DEF Flush
<1>5. CASE Commit(x)
  BY <1>5 DEF Commit
<1>6. CASE Answer(x)
  BY <1>6 DEF Answer
<1>7. CASE Fail(x)
  BY <1>7 DEF Fail
<1>8. QED
  BY <1>1, <1>2, <1>3, <1>4, <1>5, <1>6, <1>7, StepKinds

\* A request that has begun holds what it needs.
LEMMA BeginsEffect ==
  ASSUME TypeOK, NEW x \in Requests, Begins(x)
  PROVE  /\ TypeOK'
         /\ Admission(x)' /\ Copy(x)' /\ Writing(x)' /\ Present(x)' /\ Fresh(x)'
         /\ pc[x] = "new" /\ pc'[x] = "ready" /\ UNCHANGED <<table, trail, order>>
<1>0. PICK u \in Users : \E what, k, copy, ask, columns :
        Ready(x, u, what, k, copy, ask, columns) /\ Fits(u, what, k, copy, ask, columns)
  BY BeginsReady
<1>1. PICK what, k, copy, ask, columns :
        Ready(x, u, what, k, copy, ask, columns) /\ Fits(u, what, k, copy, ask, columns)
  BY <1>0
<1> DEFINE mine == Given(copy, ask)
<1>2. /\ Exists(u) /\ table[u].active /\ pc[x] = "new"
      /\ pc' = [pc EXCEPT ![x] = "ready"]
      /\ actor' = [actor EXCEPT ![x] = u]
      /\ me' = [me EXCEPT ![x] = table[u]]
      /\ op' = [op EXCEPT ![x] = what]
      /\ key' = [key EXCEPT ![x] = k]
      /\ row' = [row EXCEPT ![x] = mine]
      /\ asked' = [asked EXCEPT ![x] = ask]
      /\ dirty' = [dirty EXCEPT ![x] = columns]
      /\ others' = [others EXCEPT ![x] = {}]
      /\ UNCHANGED <<table, answer, trail, order>>
  BY <1>1 DEF Ready, Holds, Goto
<1>3. /\ what \in {"login", "profile", "organization", "integration", "create"}
      /\ k \in (IF what \in {"organization", "integration"} THEN Orgs ELSE Users)
      /\ ask \in Change
      /\ mine \in (IF k \in Users THEN User ELSE Organization)
      /\ \A c \in DOMAIN ask : c \in DOMAIN mine /\ mine[c] = ask[c]
      /\ columns \subseteq (IF what = "login" THEN {"last_login_at"}
                            ELSE IF what \in {"profile", "organization"} THEN {"name"} ELSE {})
      /\ what = "create" => ~Exists(k) /\ k # u /\ Manages(table[u])
      /\ what # "create" => Exists(k)
      /\ what \notin {"create", "integration"} =>
           \A c \in DOMAIN mine \ columns : table[k][c] = mine[c]
  BY <1>1, <1>2, FitsEffect
<1> HIDE DEF mine
<1>4. table[u] \in User
  BY <1>2 DEF TypeOK, Exists
<1>5. /\ pc'[x] = "ready" /\ actor'[x] = u /\ me'[x] = table[u] /\ op'[x] = what /\ key'[x] = k
      /\ row'[x] = mine /\ asked'[x] = ask /\ dirty'[x] = columns /\ others'[x] = {}
      /\ table' = table
  BY <1>2 DEF TypeOK
<1>6. TypeOK'
  <2>1. k \in Keys /\ columns \subseteq Column /\ mine \in User \cup Organization
    BY <1>3 DEF Keys, Column
  <2>2. QED
    BY <1>2, <1>3, <1>4, <2>1 DEF TypeOK
<1>7. Admission(x)'
  BY <1>2, <1>3, <1>4, <1>5 DEF Admission, Exists
<1>8. Copy(x)'
  BY <1>3, <1>5 DEF Copy
<1>9. Writing(x)'
  BY <1>3, <1>5 DEF Writing
<1>10. Present(x)'
  BY <1>3, <1>5 DEF Present, Inserts, Exists
<1>11. Fresh(x)'
  BY <1>3, <1>5 DEF Fresh, Inserts
<1>12. QED
  BY <1>2, <1>5, <1>6, <1>7, <1>8, <1>9, <1>10, <1>11

LEMMA AdministerEffect ==
  ASSUME TypeOK, NEW x \in Requests, Copy(x), NEW u \in Users, Administer(x, u)
  PROVE  /\ TypeOK'
         /\ Admission(x)' /\ Copy(x)' /\ Writing(x)' /\ Present(x)' /\ Fresh(x)'
         /\ pc[x] = "new" /\ pc'[x] = "admitted" /\ UNCHANGED <<table, trail, order>>
<1>1. PICK t \in Users, what \in {"update", "delete"} :
        /\ op' = [op EXCEPT ![x] = what]
        /\ key' = [key EXCEPT ![x] = t]
        /\ row' = [row EXCEPT ![x] = IF t = u THEN table[u] ELSE Absent]
  BY DEF Administer
<1>2. /\ Exists(u) /\ table[u].active /\ Manages(table[u]) /\ pc[x] = "new"
      /\ pc' = [pc EXCEPT ![x] = "admitted"]
      /\ actor' = [actor EXCEPT ![x] = u]
      /\ me' = [me EXCEPT ![x] = table[u]]
      /\ others' = [others EXCEPT ![x] = {}]
      /\ UNCHANGED <<table, answer, trail, order, asked, dirty>>
  BY DEF Administer, Admits, Goto
<1>3. table[u] \in User /\ dirty[x] = {}
  BY <1>2 DEF TypeOK, Exists, Copy
<1>4. /\ pc'[x] = "admitted" /\ actor'[x] = u /\ me'[x] = table[u] /\ op'[x] = what /\ key'[x] = t
      /\ row'[x] = (IF t = u THEN table[u] ELSE Absent) /\ others'[x] = {} /\ table' = table
      /\ dirty'[x] = {}
  BY <1>1, <1>2, <1>3 DEF TypeOK
<1>5. TypeOK'
  BY <1>1, <1>2, <1>3 DEF TypeOK, Keys
<1>6. Admission(x)'
  BY <1>1, <1>2, <1>3, <1>4 DEF Admission, Exists
<1>7. Copy(x)' /\ Writing(x)' /\ Present(x)'
  BY <1>1, <1>4 DEF Copy, Working, Writing, Present
<1>8. Fresh(x)'
  BY <1>4 DEF Fresh
<1>9. QED
  BY <1>2, <1>4, <1>5, <1>6, <1>7, <1>8

\* The row a request loads, and what it makes of it.
LEMMA LoadEffect ==
  ASSUME TypeOK, NEW x \in Requests, Admission(x), Copy(x), Fresh(x), Load(x)
  PROVE  /\ TypeOK'
         /\ Admission(x)' /\ Copy(x)' /\ Writing(x)' /\ Present(x)' /\ Fresh(x)'
         /\ pc[x] = "admitted" /\ pc'[x] \in {"ready", "failed"} /\ UNCHANGED <<table, trail, order>>
<1> DEFINE t == key[x]
           copy == Loaded(x)
<1>1. /\ pc[x] = "admitted" /\ op[x] \in {"update", "delete"} /\ t \in Users
      /\ me[x] \in User /\ me[x].active /\ Manages(me[x]) /\ actor[x] \in Users
      /\ row[x] = (IF t = actor[x] THEN me[x] ELSE Absent) /\ dirty[x] = {}
  BY DEF Load, Admission, Copy
<1>2. UNCHANGED <<table, op, actor, me, key, answer, trail, order>>
  BY DEF Load
<1>3. CASE pc' = [pc EXCEPT ![x] = "failed"] /\ UNCHANGED <<row, asked, dirty, others>>
  <2>1. pc'[x] = "failed"
    BY <1>3 DEF TypeOK
  <2>2. TypeOK'
    BY <1>2, <1>3 DEF TypeOK
  <2>3. QED
    BY <1>1, <1>2, <1>3, <2>1, <2>2
       DEF Admission, Copy, Working, Writing, Present, Fresh, Exists
<1>4. CASE ~(pc' = [pc EXCEPT ![x] = "failed"] /\ UNCHANGED <<row, asked, dirty, others>>)
  <2>1. /\ Exists(t) /\ SameTenant(me[x], copy.org)
        /\ pc' = [pc EXCEPT ![x] = "ready"]
        /\ others' = IF row[x] = Absent THEN [others EXCEPT ![x] = {}] ELSE others
    BY <1>4 DEF Load, Goto
  <2>2. PICK ask \in Change :
          /\ row' = [row EXCEPT ![x] = Given(copy, ask)]
          /\ asked' = [asked EXCEPT ![x] = ask]
          /\ dirty' = [dirty EXCEPT ![x] = Differing(copy, ask)]
          /\ MayGive(me[x], ask)
          /\ DOMAIN ask \subseteq {"role", "active", "deleted", "name"}
          /\ t = actor[x] => "deleted" \notin DOMAIN ask
    <3>1. CASE op[x] = "update"
      <4>1. PICK ask \in Asks :
              /\ MayGive(me[x], ask)
              /\ row' = [row EXCEPT ![x] = Given(copy, ask)]
              /\ asked' = [asked EXCEPT ![x] = ask]
              /\ dirty' = [dirty EXCEPT ![x] = Differing(copy, ask)]
        BY <1>4, <3>1 DEF Load, Goto
      <4>2. ask \in Change /\ DOMAIN ask \subseteq {"role", "active", "name"}
        BY AccountsAssumption DEF Change
      <4>3. QED
        BY <4>1, <4>2
    <3>2. CASE op[x] = "delete"
      <4>1. /\ row' = [row EXCEPT ![x] = Given(copy, Gone)]
            /\ asked' = [asked EXCEPT ![x] = Gone]
            /\ dirty' = [dirty EXCEPT ![x] = Differing(copy, Gone)]
            /\ key[x] # actor[x]
        BY <1>4, <3>2 DEF Load, Goto
      <4>2. Gone \in Change /\ DOMAIN Gone = {"active", "deleted"} /\ MayGive(me[x], Gone)
        BY DEF Change, Gone, MayGive
      <4>3. QED
        BY <4>1, <4>2
    <3>3. QED
      BY <1>1, <3>1, <3>2
  <2>3. copy \in User /\ (copy # table[t] => t = actor[x])
        /\ (t = actor[x] => copy = me[x]) /\ copy.org \in Orgs
    BY <1>1, <2>1, Kinds DEF Loaded, TypeOK, Exists, User
  <2>4. /\ Given(copy, ask) \in User /\ Given(copy, ask).org = copy.org
        /\ DOMAIN copy = {"org", "role", "active", "deleted", "name"}
        /\ DOMAIN Given(copy, ask) = DOMAIN copy
        /\ Differing(copy, ask) \subseteq DOMAIN ask \cap DOMAIN copy
        /\ \A c \in DOMAIN copy \ Differing(copy, ask) : Given(copy, ask)[c] = copy[c]
        /\ \A c \in DOMAIN copy : c \in DOMAIN ask => Given(copy, ask)[c] = ask[c]
    BY <2>3, GivenUser
  <2> DEFINE mine == Given(copy, ask)
             columns == Differing(copy, ask)
  <2>5. \A c \in columns : mine[c] # copy[c]
    BY DEF Differing
  <2>6. /\ "deleted" \in columns => mine.deleted
        /\ "role" \in columns => MayGive(me[x], mine)
        /\ "active" \in columns /\ t = actor[x] => ~mine.active
    <3>1. "deleted" \in columns => mine.deleted
      BY <2>4, ChangeType
    <3>2. "role" \in columns => MayGive(me[x], mine)
      BY <2>2, <2>4 DEF MayGive
    <3>3. "active" \in columns /\ t = actor[x] => ~mine.active
      BY <1>1, <2>3, <2>4, <2>5 DEF User
    <3>4. QED
      BY <3>1, <3>2, <3>3
  <2> HIDE DEF mine, columns
  <2>7. /\ pc'[x] = "ready" /\ row'[x] = mine /\ asked'[x] = ask /\ dirty'[x] = columns
        /\ others'[x] = (IF row[x] = Absent THEN {} ELSE others[x])
    BY <2>1, <2>2 DEF TypeOK, mine, columns
  <2>8. TypeOK'
    <3>1. columns \subseteq Column /\ mine \in User
      BY <2>4 DEF columns, mine, Column
    <3>2. QED
      BY <1>2, <2>1, <2>2, <3>1 DEF TypeOK, mine, columns
  <2>9. Admission(x)' /\ Present(x)'
    BY <1>1, <1>2, <2>1, <2>7 DEF Admission, Present, Exists
  <2>10. Copy(x)'
    BY <1>1, <1>2, <2>2, <2>4, <2>7 DEF Copy, mine
  <2>11. Writing(x)'
    <3>1. columns \subseteq {"role", "active", "deleted", "name"}
      BY <2>2, <2>4 DEF columns
    <3>2. mine.org = copy.org
      BY <2>4 DEF mine
    <3>3. QED
      BY <1>1, <1>2, <2>1, <2>6, <2>7, <3>1, <3>2 DEF Writing, Working, SameTenant
  <2>12. Fresh(x)'
    <3>1. "org" \notin others'[x]
      BY <2>7 DEF Fresh
    <3>2. ASSUME NEW c \in DOMAIN mine \ columns PROVE table[t][c] = mine[c] \/ c \in others'[x]
      <4>1. c \in DOMAIN copy /\ mine[c] = copy[c]
        BY <2>4, <3>2 DEF mine, columns
      <4>2. CASE row[x] = Absent
        BY <4>1, <4>2 DEF Loaded
      <4>3. CASE row[x] # Absent
        <5>1. copy = row[x]
          BY <4>3 DEF Loaded
        <5>2. table[key[x]][c] = row[x][c] \/ c \in others[x]
          BY <1>1, <4>1, <4>3, <5>1 DEF Fresh
        <5>3. QED
          BY <2>7, <4>1, <4>3, <5>1, <5>2
      <4>4. QED
        BY <4>2, <4>3
    <3>3. QED
      BY <1>1, <1>2, <2>7, <3>1, <3>2 DEF Fresh
  <2>13. QED
    BY <1>1, <1>2, <2>7, <2>8, <2>9, <2>10, <2>11, <2>12
<1>5. QED
  BY <1>3, <1>4

\* The steps at the end of a request.
LEMMA EndEffect ==
  ASSUME TypeOK, RequestInv, NEW x \in Requests, Flush(x) \/ Answer(x) \/ Fail(x)
  PROVE  /\ TypeOK'
         /\ Admission(x)' /\ Copy(x)' /\ Writing(x)' /\ Present(x)' /\ Fresh(x)'
<1>1. Admission(x) /\ Copy(x) /\ Writing(x) /\ Present(x) /\ Fresh(x)
  BY DEF RequestInv
<1>2. UNCHANGED <<table, op, actor, me, key, row, asked, dirty, order, others>>
  BY DEF Flush, Answer, Fail
<1>3. CASE Goto(x, "failed") /\ UNCHANGED <<trail, answer>>
  <2>1. pc'[x] = "failed" /\ pc[x] # "new"
    BY <1>3 DEF Goto, TypeOK, Flush, Answer, Fail
  <2>2. TypeOK'
    BY <1>2, <1>3 DEF TypeOK, Goto
  <2>3. QED
    BY <1>1, <1>2, <2>1, <2>2 DEF Admission, Copy, Working, Writing, Present, Fresh, Exists
<1>4. CASE Flush(x) /\ ~(Goto(x, "failed") /\ UNCHANGED <<trail, answer>>)
  <2>1. /\ pc[x] = "ready" /\ pc' = [pc EXCEPT ![x] = "flushed"]
        /\ trail' = (IF op[x] = "login" THEN trail ELSE Append(trail, x))
        /\ ~(Inserts(x) /\ Exists(key[x])) /\ answer' = answer
    BY <1>4 DEF Flush, Goto
  <2>2. pc'[x] = "flushed"
    BY <2>1 DEF TypeOK
  <2>3. TypeOK'
    BY <1>2, <2>1 DEF TypeOK
  <2>4. QED
    BY <1>1, <1>2, <2>1, <2>2, <2>3
       DEF Admission, Copy, Working, Writing, Present, Fresh, Exists, Inserts
<1>5. CASE Answer(x)
  <2>1. /\ pc[x] = "committed" /\ pc' = [pc EXCEPT ![x] = "answered"] /\ trail' = trail
        /\ answer' = [answer EXCEPT ![x] = IF op[x] = "integration" THEN row[x] ELSE table[key[x]]]
    BY <1>5 DEF Answer, Goto
  <2>2. pc'[x] = "answered" /\ (op[x] # "integration" => answer'[x] = table[key[x]])
    BY <2>1 DEF TypeOK
  <2>3. key[x] \in Keys
    BY <1>1, <2>1 DEF Admission, Keys
  <2>4. TypeOK'
    BY <1>2, <2>1, <2>3 DEF TypeOK
  <2>5. QED
    BY <1>1, <1>2, <2>1, <2>2, <2>4
       DEF Admission, Copy, Working, Writing, Present, Fresh, Exists
<1>6. QED
  BY <1>3, <1>4, <1>5 DEF Fail

\* What a commit does to the tables.
LEMMA CommitTable ==
  ASSUME TypeOK, RequestInv, NEW x \in Requests, Commit(x)
  PROVE  /\ table' \in [Keys -> User \cup Organization \cup {Absent}]
         /\ \A k \in Keys \ {key[x]} : table'[k] = table[k]
         /\ table'[key[x]] = Merge(x) /\ key[x] \in Keys
         /\ \A k \in Keys : Exists(k) => Exists(k)'
         /\ "org" \notin dirty[x]
         /\ ~Inserts(x) =>
              /\ DOMAIN table'[key[x]] = DOMAIN table[key[x]]
              /\ \A c \in DOMAIN table[key[x]] \ dirty[x] : table'[key[x]][c] = table[key[x]][c]
<1>1. /\ pc[x] = "flushed" /\ table' = [table EXCEPT ![key[x]] = Merge(x)]
  BY DEF Commit
<1>2. /\ key[x] \in Keys
      /\ Merge(x) \in (IF key[x] \in Users THEN User ELSE Organization)
      /\ DOMAIN Merge(x) = DOMAIN row[x]
      /\ ~Inserts(x) =>
           /\ DOMAIN Merge(x) = DOMAIN table[key[x]]
           /\ \A c \in DOMAIN row[x] :
                Merge(x)[c] = IF c \in dirty[x] THEN row[x][c] ELSE table[key[x]][c]
  BY <1>1, MergeEffect
<1>3. Merge(x) # Absent
  BY <1>2, Kinds
<1>4. "org" \notin dirty[x]
  BY <1>1 DEF RequestInv, Writing, Working
<1>5. /\ table' \in [Keys -> User \cup Organization \cup {Absent}]
      /\ \A k \in Keys \ {key[x]} : table'[k] = table[k]
      /\ table'[key[x]] = Merge(x)
  BY <1>1, <1>2 DEF TypeOK
<1>6. \A k \in Keys : Exists(k) => Exists(k)'
  BY <1>2, <1>3, <1>5 DEF Exists
<1>7. QED
  BY <1>2, <1>4, <1>5, <1>6

LEMMA CommitEffect ==
  ASSUME TypeOK, RequestInv, NEW x \in Requests, Commit(x)
  PROVE  /\ TypeOK'
         /\ Admission(x)' /\ Copy(x)' /\ Writing(x)' /\ Present(x)' /\ Fresh(x)'
<1>1. Admission(x) /\ Copy(x) /\ Writing(x) /\ Present(x) /\ Fresh(x)
  BY DEF RequestInv
<1>2. /\ pc[x] = "flushed" /\ pc' = [pc EXCEPT ![x] = "committed"]
      /\ order' = Append(order, x)
      /\ others' = [y \in Requests |->
                      IF y # x /\ key[y] = key[x] THEN others[y] \cup dirty[x] ELSE others[y]]
      /\ UNCHANGED <<op, actor, me, key, row, asked, dirty, answer, trail>>
  BY DEF Commit, Goto
<1>3. pc'[x] = "committed" /\ others'[x] = others[x]
  BY <1>2 DEF TypeOK
<1>4. /\ table' \in [Keys -> User \cup Organization \cup {Absent}]
      /\ \A k \in Keys \ {key[x]} : table'[k] = table[k]
      /\ table'[key[x]] = Merge(x) /\ key[x] \in Keys
      /\ \A k \in Keys : Exists(k) => Exists(k)'
  BY CommitTable
<1>5. /\ Merge(x) \in (IF key[x] \in Users THEN User ELSE Organization)
      /\ DOMAIN Merge(x) = DOMAIN row[x]
      /\ Inserts(x) => Merge(x) = row[x]
      /\ ~Inserts(x) => \A c \in DOMAIN row[x] :
           Merge(x)[c] = IF c \in dirty[x] THEN row[x][c] ELSE table[key[x]][c]
  BY <1>2, MergeEffect
<1>6. TypeOK'
  <2>1. \A u \in Users : table'[u] \in User \cup {Absent}
    BY <1>4, <1>5 DEF TypeOK, Keys
  <2>2. \A o \in Orgs : table'[o] \in Organization
    BY <1>4, <1>5, AccountsAssumption DEF TypeOK, Keys
  <2>3. others' \in [Requests -> SUBSET Column] /\ order' \in Seq(Requests)
    BY <1>2 DEF TypeOK
  <2>4. pc' \in [Requests -> {"new", "admitted", "ready", "flushed", "committed", "answered", "failed"}]
    BY <1>2 DEF TypeOK
  <2>5. QED
    BY <1>2, <1>4, <2>1, <2>2, <2>3, <2>4 DEF TypeOK
<1>7. Admission(x)' /\ Copy(x)' /\ Writing(x)'
  BY <1>1, <1>2, <1>3, <1>4 DEF Admission, Copy, Working, Writing, Keys
<1>8. Present(x)'
  BY <1>2, <1>3, <1>4, <1>5, Kinds DEF Present, Exists
<1>9. Fresh(x)'
  <2>1. op[x] # "integration" =>
          \A c \in DOMAIN row[x] : Merge(x)[c] = row[x][c] \/ c \in others[x]
    <3>1. SUFFICES ASSUME op[x] # "integration", ~Inserts(x), NEW c \in DOMAIN row[x] \ dirty[x]
                   PROVE  table[key[x]][c] = row[x][c] \/ c \in others[x]
      BY <1>5
    <3>2. row[x] # Absent
      BY <1>1, <1>2, Kinds DEF Copy, Working
    <3>3. QED
      BY <1>1, <1>2, <3>1, <3>2 DEF Fresh
  <2>2. QED
    BY <1>1, <1>2, <1>3, <1>4, <2>1 DEF Fresh
<1>10. QED
  BY <1>6, <1>7, <1>8, <1>9

\* The other requests.
LEMMA OthersKeep ==
  ASSUME TypeOK, RequestInv, Exclusive, NEW x \in Requests, Step(x), NEW y \in Requests \ {x}
  PROVE  Admission(y)' /\ Copy(y)' /\ Writing(y)' /\ Present(y)' /\ Fresh(y)'
<1>1. Admission(y) /\ Copy(y) /\ Writing(y) /\ Present(y) /\ Fresh(y)
  BY DEF RequestInv
<1>2. Same(y) /\ (~Commit(x) => UNCHANGED table /\ others'[y] = others[y])
  BY OthersSame
<1>3. Copy(y)' /\ Writing(y)'
  BY <1>1, <1>2 DEF Same, Copy, Working, Writing
<1>4. CASE ~Commit(x)
  BY <1>1, <1>2, <1>3, <1>4 DEF Same, Admission, Exists, Present, Inserts, Fresh
<1>5. CASE Commit(x)
  <2>1. /\ \A k \in Keys \ {key[x]} : table'[k] = table[k]
        /\ \A k \in Keys : Exists(k) => Exists(k)'
        /\ "org" \notin dirty[x]
        /\ ~Inserts(x) =>
             /\ DOMAIN table'[key[x]] = DOMAIN table[key[x]]
             /\ \A c \in DOMAIN table[key[x]] \ dirty[x] : table'[key[x]][c] = table[key[x]][c]
    BY <1>5, CommitTable
  <2>2. others'[y] = (IF key[y] = key[x] THEN others[y] \cup dirty[x] ELSE others[y])
        /\ pc[x] = "flushed"
    BY <1>5 DEF Commit
  <2>3. /\ Inserts(x) => ~Exists(key[x])
        /\ ~Inserts(x) => Exists(key[x])
    BY <2>2 DEF RequestInv, Present
  <2>4. pc[y] # "new" => key[y] \in Keys
    BY <1>1 DEF Admission, Keys
  <2>5. Admission(y)'
    BY <1>1, <1>2, <2>1 DEF Same, Admission, Keys
  <2>6. Present(y)'
    <3>1. ASSUME pc[y] = "flushed", Inserts(y) PROVE ~Exists(key[y])'
      <4>1. ~Exists(key[y]) /\ key[y] \in Keys
        BY <1>1, <2>4, <3>1 DEF Present
      <4>2. key[x] # key[y]
        BY <2>2, <2>3, <3>1, <4>1 DEF Exclusive, Writes
      <4>3. QED
        BY <1>2, <2>1, <4>1, <4>2 DEF Exists, Same
    <3>2. pc[y] # "new" /\ Exists(key[y]) => Exists(key[y])'
      BY <1>2, <2>1, <2>4 DEF Same, Exists
    <3>3. QED
      BY <1>1, <1>2, <3>1, <3>2 DEF Present, Same, Inserts
  <2>7. Fresh(y)'
    <3>1. "org" \notin others'[y]
      BY <1>1, <2>1, <2>2 DEF Fresh
    <3>2. ASSUME op[y] # "integration", row[y] # Absent, pc[y] # "new", Exists(key[y]),
                 NEW c \in DOMAIN row[y], DOMAIN row[y] = DOMAIN table[key[y]],
                 table[key[y]][c] = row[y][c] \/ c \in others[y]
          PROVE  table'[key[y]][c] = row[y][c] \/ c \in others'[y]
      <4>1. CASE key[x] = key[y]
        BY <2>1, <2>2, <2>3, <3>2, <4>1
      <4>2. CASE key[x] # key[y]
        BY <2>1, <2>2, <2>4, <3>2, <4>2
      <4>3. QED
        BY <4>1, <4>2
    <3>3. ASSUME \/ pc[y] = "admitted" /\ row[y] # Absent
                 \/ pc[y] \in {"ready", "flushed"} /\ ~Inserts(y)
                 \/ pc[y] = "committed"
          PROVE  Exists(key[y]) /\ DOMAIN row[y] = DOMAIN table[key[y]]
      <4>1. Exists(key[y])
        BY <1>1, <3>3 DEF Present, Copy, Admission
      <4>2. row[y] \in (IF key[y] \in Users THEN User ELSE Organization)
        BY <1>1, <3>3 DEF Copy, Working, Admission
      <4>3. table[key[y]] \in (IF key[y] \in Users THEN User ELSE Organization)
        BY <1>1, <3>3, <4>1 DEF TypeOK, Exists, Admission
      <4>4. QED
        BY <4>1, <4>2, <4>3 DEF User, Organization
    <3>4. QED
      BY <1>1, <1>2, <2>2, <3>1, <3>2, <3>3 DEF Fresh, Same, Inserts
  <2>8. QED
    BY <1>3, <2>5, <2>6, <2>7
<1>6. QED
  BY <1>4, <1>5

-----------------------------------------------------------------------------
(* The locks and the trail.                                                *)

\* How far a request comes in a step, and what becomes of the two orders.
LEMMA Progress ==
  ASSUME TypeOK, RequestInv, NEW x \in Requests, Step(x)
  PROVE  \/ /\ Flush(x) /\ pc[x] = "ready" /\ pc'[x] = "flushed"
            /\ trail' = (IF op[x] = "login" THEN trail ELSE Append(trail, x)) /\ order' = order
            /\ (Writes(x) => ~Locked(x))
            /\ UNCHANGED <<op, key, dirty>>
         \/ /\ Commit(x) /\ pc[x] = "flushed" /\ pc'[x] = "committed"
            /\ trail' = trail /\ order' = Append(order, x)
            /\ UNCHANGED <<op, key, dirty>>
         \/ /\ pc[x] = "committed" /\ pc'[x] = "answered"
            /\ UNCHANGED <<trail, order, op, key, dirty>>
         \/ /\ pc[x] \in {"new", "admitted", "ready"} /\ pc'[x] \in {"admitted", "ready", "failed"}
            /\ UNCHANGED <<trail, order>>
         \/ /\ pc[x] = "flushed" /\ pc'[x] = "failed"
            /\ UNCHANGED <<trail, order>>
<1>1. Admission(x) /\ Copy(x) /\ Fresh(x)
  BY DEF RequestInv
<1>2. CASE Begins(x) \/ (\E u \in Users : Administer(x, u)) \/ Load(x)
  BY <1>1, <1>2, BeginsEffect, AdministerEffect, LoadEffect
<1>3. CASE Fail(x)
  BY <1>3 DEF Fail, Goto, TypeOK
<1>4. CASE Flush(x)
  BY <1>4 DEF Flush, Goto, TypeOK, Writes
<1>5. CASE Commit(x)
  BY <1>5 DEF Commit, Goto, TypeOK
<1>6. CASE Answer(x)
  BY <1>6 DEF Answer, Goto, TypeOK
<1>7. QED
  BY <1>2, <1>3, <1>4, <1>5, <1>6, StepKinds

LEMMA ExclusiveNext ==
  ASSUME TypeOK, RequestInv, Exclusive, NEW x \in Requests, Step(x)
  PROVE  Exclusive'
<1> SUFFICES ASSUME NEW y \in Requests, NEW z \in Requests,
                    pc'[y] = "flushed", pc'[z] = "flushed", key'[y] = key'[z],
                    Writes(y)', Writes(z)', y # z
             PROVE  FALSE
  BY DEF Exclusive
<1>1. \A w \in Requests \ {x} : Same(w)
  BY OthersSame
<1>2. CASE y # x /\ z # x
  BY <1>1, <1>2 DEF Exclusive, Same, Writes, Inserts
<1>3. ASSUME NEW w \in Requests \ {x},
             pc'[x] = "flushed", pc'[w] = "flushed", key'[x] = key'[w], Writes(x)', Writes(w)'
      PROVE  FALSE
  <2>1. Writes(x) /\ ~Locked(x) /\ key'[x] = key[x]
    BY <1>3, Progress DEF Writes, Inserts
  <2>2. pc[w] = "flushed" /\ key[w] = key[x] /\ Writes(w)
    BY <1>1, <1>3, <2>1 DEF Same, Writes, Inserts
  <2>3. QED
    BY <2>1, <2>2 DEF Locked, Writes
<1>4. QED
  BY <1>2, <1>3

\* Where a request is in an order that has it once, also after another is added.
LEMMA PositionEffect ==
  ASSUME NEW seq \in Seq(Requests), Once(seq)
  PROVE  /\ \A i \in 1 .. Len(seq) : Position(seq, seq[i]) = i
         /\ \A x \in Requests : (\A i \in 1 .. Len(seq) : seq[i] # x) =>
              /\ Once(Append(seq, x)) /\ Position(Append(seq, x), x) = Len(seq) + 1
              /\ \A i \in 1 .. Len(seq) : Position(Append(seq, x), seq[i]) = i
<1>1. \A s \in Seq(Requests) : Once(s) => \A i \in 1 .. Len(s) : Position(s, s[i]) = i
  <2> SUFFICES ASSUME NEW s \in Seq(Requests), Once(s), NEW i \in 1 .. Len(s)
               PROVE  Position(s, s[i]) = i
    OBVIOUS
  <2>1. DOMAIN s = 1 .. Len(s)
    OBVIOUS
  <2>2. \A j \in DOMAIN s : s[j] = s[i] <=> j = i
    BY <2>1 DEF Once
  <2>3. QED
    BY <2>1, <2>2 DEF Position
<1>2. ASSUME NEW x \in Requests, \A i \in 1 .. Len(seq) : seq[i] # x
      PROVE  /\ Once(Append(seq, x)) /\ Position(Append(seq, x), x) = Len(seq) + 1
             /\ \A i \in 1 .. Len(seq) : Position(Append(seq, x), seq[i]) = i
  <2> DEFINE longer == Append(seq, x)
  <2>1. /\ longer \in Seq(Requests) /\ Len(longer) = Len(seq) + 1 /\ Len(seq) \in Nat
        /\ longer[Len(seq) + 1] = x /\ \A i \in 1 .. Len(seq) : longer[i] = seq[i]
    OBVIOUS
  <2> HIDE DEF longer
  <2>2. Once(longer)
    <3> SUFFICES ASSUME NEW i \in 1 .. Len(longer), NEW j \in 1 .. Len(longer),
                        longer[i] = longer[j]
                 PROVE  i = j
      BY DEF Once
    <3>1. (i \in 1 .. Len(seq) \/ i = Len(seq) + 1) /\ (j \in 1 .. Len(seq) \/ j = Len(seq) + 1)
      BY <2>1
    <3>2. QED
      BY <1>2, <2>1, <3>1 DEF Once
  <2>3. \A i \in 1 .. Len(longer) : Position(longer, longer[i]) = i
    BY <1>1, <2>1, <2>2
  <2>4. Len(seq) + 1 \in 1 .. Len(longer) /\ 1 .. Len(seq) \subseteq 1 .. Len(longer)
    BY <2>1
  <2>5. Position(longer, x) = Len(seq) + 1
    BY <2>1, <2>3, <2>4
  <2>6. \A i \in 1 .. Len(seq) : Position(longer, seq[i]) = i
    BY <2>1, <2>3, <2>4
  <2>7. QED
    BY <2>2, <2>5, <2>6 DEF longer
<1>3. QED
  BY <1>1, <1>2

LEMMA TrailNext ==
  ASSUME TypeOK, TypeOK', RequestInv, Exclusive, TrailInv, AuditedInOrder,
         NEW x \in Requests, Step(x)
  PROVE  TrailInv' /\ AuditedInOrder'
<1>1. \A y \in Requests \ {x} : Same(y)
  BY OthersSame
<1>2. \A y \in Requests \ {x} : (Changed(y)' <=> Changed(y)) /\ (Audited(y)' <=> Audited(y))
  BY <1>1 DEF Same, Changed, Audited
<1>3. trail \in Seq(Requests) /\ order \in Seq(Requests) /\ Once(trail) /\ Once(order)
  BY DEF TypeOK, TrailInv
<1>4. \A i \in 1 .. Len(trail) : trail[i] \in Requests
  BY <1>3
<1>5. \A i \in 1 .. Len(order) : order[i] \in Requests
  BY <1>3
<1>6. \A y, z \in Requests :
        Changed(y) /\ pc[z] = "flushed" /\ Audited(z) /\ key[y] = key[z]
          => Position(trail, y) < Position(trail, z)
  BY DEF TrailInv
<1>7. ASSUME UNCHANGED <<trail, order>>,
             \/ pc[x] = "committed" /\ pc'[x] = "answered" /\ UNCHANGED <<op, key, dirty>>
             \/ /\ pc[x] \in {"new", "admitted", "ready"}
                /\ pc'[x] \in {"admitted", "ready", "failed"}
             \/ pc[x] = "flushed" /\ pc'[x] = "failed"
      PROVE  TrailInv' /\ AuditedInOrder'
  <2>1. \A y \in Requests :
          /\ Changed(y)' => Changed(y) /\ key'[y] = key[y]
          /\ pc'[y] = "flushed" => pc[y] = "flushed" /\ key'[y] = key[y] /\ (Audited(y)' <=> Audited(y))
          /\ pc'[y] \in {"committed", "answered"} <=> pc[y] \in {"committed", "answered"}
          /\ pc'[y] \in {"flushed", "committed", "answered"} /\ Audited(y)' =>
               pc[y] \in {"flushed", "committed", "answered"} /\ Audited(y)
          /\ pc[y] \in {"flushed", "committed", "answered", "failed"} =>
               pc'[y] \in {"flushed", "committed", "answered", "failed"}
    BY <1>1, <1>2, <1>7 DEF Same, Changed, Audited
  <2>2. TrailInv'
    BY <1>4, <1>5, <1>7, <2>1 DEF TrailInv, Position, Once
  <2>3. AuditedInOrder'
    BY <1>7, <2>1 DEF AuditedInOrder, Position
  <2>4. QED
    BY <2>2, <2>3
<1>8. ASSUME pc[x] = "ready", pc'[x] = "flushed", order' = order, UNCHANGED <<op, key, dirty>>,
             trail' = (IF op[x] = "login" THEN trail ELSE Append(trail, x)),
             Writes(x) => ~Locked(x)
      PROVE  TrailInv' /\ AuditedInOrder'
  <2>1. /\ \A i \in 1 .. Len(trail) : trail[i] # x /\ Position(trail, trail[i]) = i
        /\ Once(Append(trail, x)) /\ Position(Append(trail, x), x) = Len(trail) + 1
        /\ \A i \in 1 .. Len(trail) : Position(Append(trail, x), trail[i]) = i
    <3>1. \A i \in 1 .. Len(trail) : trail[i] # x
      BY <1>8 DEF TrailInv
    <3>2. QED
      BY <1>3, <3>1, PositionEffect
  <2>2. /\ Len(trail) \in Nat /\ 1 .. Len(trail) \subseteq 1 .. Len(trail')
        /\ \A i \in 1 .. Len(trail) : trail'[i] = trail[i]
        /\ \A i \in 1 .. Len(trail') : i \in 1 .. Len(trail) \/ trail'[i] = x
        /\ op[x] # "login" => \E i \in 1 .. Len(trail') : trail'[i] = x
    <3>1. CASE op[x] = "login"
      BY <1>3, <1>8, <3>1
    <3>2. CASE op[x] # "login"
      <4>1. /\ Len(trail') = Len(trail) + 1 /\ Len(trail) \in Nat /\ trail'[Len(trail) + 1] = x
            /\ \A i \in 1 .. Len(trail) : trail'[i] = trail[i]
        BY <1>3, <1>8, <3>2
      <4>2. Len(trail) + 1 \in 1 .. Len(trail')
        BY <4>1
      <4>3. QED
        BY <4>1, <4>2
    <3>3. QED
      BY <3>1, <3>2
  <2>3. \A y \in Requests :
          /\ Changed(y)' <=> Changed(y)
          /\ Audited(y)' <=> Audited(y)
          /\ pc'[y] = "flushed" => y = x \/ pc[y] = "flushed"
          /\ pc'[y] \in {"committed", "answered"} <=> pc[y] \in {"committed", "answered"}
          /\ pc'[y] \in {"flushed", "committed", "answered"} =>
               y = x \/ pc[y] \in {"flushed", "committed", "answered"}
          /\ pc[y] \in {"flushed", "committed", "answered", "failed"} =>
               pc'[y] \in {"flushed", "committed", "answered", "failed"}
    BY <1>1, <1>2, <1>8 DEF Same, Changed, Audited
  <2>4. \A y \in Requests :
          Changed(y) \/ (pc[y] = "flushed" /\ Audited(y)) =>
            \E i \in 1 .. Len(trail) : trail[i] = y
    BY DEF Changed, Audited, TrailInv
  <2>5. \A y \in Requests :
          Changed(y) \/ (pc[y] = "flushed" /\ Audited(y)) =>
            /\ Position(trail', y) = Position(trail, y)
            /\ op[x] # "login" => Position(trail, y) < Position(trail', x)
    <3> SUFFICES ASSUME NEW y \in Requests,
                        Changed(y) \/ (pc[y] = "flushed" /\ Audited(y))
                 PROVE  /\ Position(trail', y) = Position(trail, y)
                        /\ op[x] # "login" => Position(trail, y) < Position(trail', x)
      OBVIOUS
    <3>1. PICK i \in 1 .. Len(trail) : trail[i] = y
      BY <2>4
    <3>2. Position(trail, y) = i /\ Position(Append(trail, x), y) = i /\ i < Len(trail) + 1
      BY <2>1, <2>2, <3>1
    <3>3. QED
      BY <1>8, <2>1, <3>2
  <2>6. Once(trail')
    BY <1>3, <1>8, <2>1
  <2>7. \A i \in 1 .. Len(trail') :
          pc'[trail'[i]] \in {"flushed", "committed", "answered", "failed"}
    BY <1>4, <1>8, <2>2, <2>3 DEF TrailInv
  <2>8. \A i \in 1 .. Len(order) : pc'[order[i]] \in {"committed", "answered"}
    BY <1>5, <2>3 DEF TrailInv
  <2>9. \A y \in Requests :
          /\ pc'[y] \in {"flushed", "committed", "answered"} /\ Audited(y)'
               => \E i \in 1 .. Len(trail') : trail'[i] = y
          /\ pc'[y] \in {"committed", "answered"} => \E i \in 1 .. Len(order) : order[i] = y
    <3>1. \A y \in Requests : (\E i \in 1 .. Len(trail) : trail[i] = y)
                                => \E i \in 1 .. Len(trail') : trail'[i] = y
      BY <2>2
    <3>2. Audited(x)' => op[x] # "login"
      BY <1>8 DEF Audited
    <3>3. QED
      BY <2>2, <2>3, <3>1, <3>2 DEF TrailInv
  <2>10. \A y, z \in Requests :
           Changed(y)' /\ pc'[z] = "flushed" /\ Audited(z)' /\ key'[y] = key'[z]
             => Position(trail', y) < Position(trail', z)
    <3> SUFFICES ASSUME NEW y \in Requests, NEW z \in Requests,
                        Changed(y), pc'[z] = "flushed", Audited(z), key[y] = key[z]
                 PROVE  Position(trail', y) < Position(trail', z)
      BY <1>8, <2>3
    <3>1. CASE z = x
      BY <2>5, <3>1 DEF Audited
    <3>2. CASE z # x
      BY <1>6, <2>3, <2>5, <3>2
    <3>3. QED
      BY <3>1, <3>2
  <2>11. TrailInv'
    BY <1>3, <1>8, <2>6, <2>7, <2>8, <2>9, <2>10 DEF TrailInv
  <2>12. AuditedInOrder'
    <3> SUFFICES ASSUME NEW y \in Requests, NEW z \in Requests, Changed(y)', Changed(z)',
                        key'[y] = key'[z], Position(trail', y) < Position(trail', z)
                 PROVE  Position(order', y) < Position(order', z)
      BY DEF AuditedInOrder
    <3>1. QED
      BY <1>8, <2>3, <2>5 DEF AuditedInOrder
  <2>13. QED
    BY <2>11, <2>12
<1>9. ASSUME pc[x] = "flushed", pc'[x] = "committed", trail' = trail,
             order' = Append(order, x), UNCHANGED <<op, key, dirty>>
      PROVE  TrailInv' /\ AuditedInOrder'
  <2>1. /\ \A i \in 1 .. Len(order) : order[i] # x /\ Position(order, order[i]) = i
        /\ Once(order') /\ Position(order', x) = Len(order) + 1
        /\ \A i \in 1 .. Len(order) : Position(order', order[i]) = i
    <3>1. \A i \in 1 .. Len(order) : order[i] # x
      BY <1>9 DEF TrailInv
    <3>2. QED
      BY <1>3, <1>9, <3>1, PositionEffect
  <2>2. /\ Len(order) \in Nat /\ Len(order') = Len(order) + 1 /\ order'[Len(order) + 1] = x
        /\ \A i \in 1 .. Len(order) : order'[i] = order[i]
    BY <1>3, <1>9
  <2>3. /\ 1 .. Len(order) \subseteq 1 .. Len(order')
        /\ \A i \in 1 .. Len(order') : i \in 1 .. Len(order) \/ order'[i] = x
        /\ \E i \in 1 .. Len(order') : order'[i] = x
    <3>1. Len(order) + 1 \in 1 .. Len(order')
      BY <2>2
    <3>2. QED
      BY <2>2, <3>1
  <2>4. \A y \in Requests :
          /\ y # x => (Changed(y)' <=> Changed(y))
          /\ Changed(x)' => Audited(x)
          /\ Audited(y)' <=> Audited(y)
          /\ pc'[y] = "flushed" => y # x /\ pc[y] = "flushed"
          /\ pc'[y] \in {"committed", "answered"} <=> y = x \/ pc[y] \in {"committed", "answered"}
          /\ pc'[y] \in {"flushed", "committed", "answered"} =>
               pc[y] \in {"flushed", "committed", "answered"}
          /\ pc[y] \in {"flushed", "committed", "answered", "failed"} =>
               pc'[y] \in {"flushed", "committed", "answered", "failed"}
    BY <1>1, <1>2, <1>9 DEF Same, Changed, Audited
  <2>5. \A y \in Requests : Changed(y) =>
          Position(order', y) = Position(order, y) /\ Position(order, y) < Position(order', x)
    <3> SUFFICES ASSUME NEW y \in Requests, Changed(y)
                 PROVE  /\ Position(order', y) = Position(order, y)
                        /\ Position(order, y) < Position(order', x)
      OBVIOUS
    <3>1. PICK i \in 1 .. Len(order) : order[i] = y
      BY DEF Changed, TrailInv
    <3>2. Position(order, y) = i /\ Position(order', y) = i /\ i < Len(order) + 1
      BY <2>1, <2>2, <3>1
    <3>3. QED
      BY <2>1, <3>2
  <2>6. \A y \in Requests : Audited(x) /\ Changed(y) /\ key[y] = key[x]
          => Position(trail, y) < Position(trail, x)
    BY <1>6, <1>9
  <2>7. \A i \in 1 .. Len(trail) : pc'[trail[i]] \in {"flushed", "committed", "answered", "failed"}
    BY <1>4, <2>4 DEF TrailInv
  <2>8. \A i \in 1 .. Len(order') : pc'[order'[i]] \in {"committed", "answered"}
    BY <1>5, <1>9, <2>2, <2>3, <2>4 DEF TrailInv
  <2>9. \A y \in Requests :
          /\ pc'[y] \in {"flushed", "committed", "answered"} /\ Audited(y)'
               => \E i \in 1 .. Len(trail) : trail[i] = y
          /\ pc'[y] \in {"committed", "answered"} => \E i \in 1 .. Len(order') : order'[i] = y
    <3>1. \A y \in Requests : (\E i \in 1 .. Len(order) : order[i] = y)
                                => \E i \in 1 .. Len(order') : order'[i] = y
      BY <2>2, <2>3
    <3>2. QED
      BY <2>3, <2>4, <3>1 DEF TrailInv
  <2>10. \A y, z \in Requests :
           Changed(y)' /\ pc'[z] = "flushed" /\ Audited(z)' /\ key'[y] = key'[z]
             => Position(trail, y) < Position(trail, z)
    <3> SUFFICES ASSUME NEW y \in Requests, NEW z \in Requests,
                        Changed(y)', pc[z] = "flushed", z # x, Audited(z), key[y] = key[z]
                 PROVE  Position(trail, y) < Position(trail, z)
      BY <1>9, <2>4
    <3>1. y # x
      <4> SUFFICES ASSUME y = x PROVE FALSE
        OBVIOUS
      <4>1. Writes(x) /\ Writes(z)
        BY <2>4 DEF Audited, Writes
      <4>2. QED
        BY <1>9, <4>1 DEF Exclusive
    <3>2. QED
      BY <1>6, <2>4, <3>1
  <2>11. TrailInv'
    BY <1>3, <1>9, <2>1, <2>7, <2>8, <2>9, <2>10 DEF TrailInv
  <2>12. AuditedInOrder'
    <3> SUFFICES ASSUME NEW y \in Requests, NEW z \in Requests, Changed(y)', Changed(z)',
                        key[y] = key[z], Position(trail, y) < Position(trail, z)
                 PROVE  Position(order', y) < Position(order', z)
      BY <1>9 DEF AuditedInOrder, Position
    <3>1. \A w \in Requests : Changed(w)' => \E i \in 1 .. Len(trail) : trail[i] = w
      BY <2>9 DEF Changed, Audited
    <3>2. \A w \in Requests : Changed(w)' => Position(trail, w) \in Nat
      BY <1>3, <3>1, PositionEffect
    <3>3. CASE y # x /\ z # x
      BY <2>4, <2>5, <3>3 DEF AuditedInOrder
    <3>4. CASE y # x /\ z = x
      BY <2>4, <2>5, <3>4
    <3>5. CASE y = x
      <4>1. z # x
        BY <3>2, <3>5
      <4>2. Position(trail, z) < Position(trail, x)
        BY <2>4, <2>6, <3>5, <4>1
      <4>3. QED
        BY <3>2, <3>5, <4>2
    <3>6. QED
      BY <3>3, <3>4, <3>5
  <2>13. QED
    BY <2>11, <2>12
<1>10. QED
  BY <1>7, <1>8, <1>9, Progress

-----------------------------------------------------------------------------
(* The theorems.                                                           *)

LEMMA AccountsInit == Init => AccountsInv
<1> SUFFICES ASSUME Init PROVE AccountsInv
  OBVIOUS
<1> USE DEF Init
<1>1. TypeOK
  <2>1. Nothing \in Change
    BY DEF Change
  <2>2. table \in [Keys -> User \cup Organization \cup {Absent}]
        /\ (\A u \in Users : table[u] \in User \cup {Absent})
        /\ (\A o \in Orgs : table[o] \in Organization)
    BY AccountsAssumption
  <2>3. QED
    BY <2>1, <2>2 DEF TypeOK
<1>2. RequestInv
  BY DEF RequestInv, Admission, Copy, Working, Writing, Present, Fresh
<1>3. Exclusive /\ TrailInv /\ AuditedInOrder
  BY DEF Exclusive, TrailInv, Once, AuditedInOrder, Changed
<1>4. QED
  BY <1>1, <1>2, <1>3 DEF AccountsInv

LEMMA AccountsNext == AccountsInv /\ [Next]_vars => AccountsInv'
<1> SUFFICES ASSUME AccountsInv, [Next]_vars PROVE AccountsInv'
  OBVIOUS
<1> USE DEF AccountsInv
<1>1. ASSUME NEW x \in Requests, Step(x) PROVE AccountsInv'
  <2>1. /\ TypeOK'
        /\ Admission(x)' /\ Copy(x)' /\ Writing(x)' /\ Present(x)' /\ Fresh(x)'
    <3>1. Admission(x) /\ Copy(x) /\ Fresh(x)
      BY DEF RequestInv
    <3>2. QED
      BY <1>1, <3>1, StepKinds, BeginsEffect, AdministerEffect, LoadEffect, EndEffect, CommitEffect
  <2>2. \A y \in Requests \ {x} :
          Admission(y)' /\ Copy(y)' /\ Writing(y)' /\ Present(y)' /\ Fresh(y)'
    BY <1>1, OthersKeep
  <2>3. RequestInv'
    BY <2>1, <2>2 DEF RequestInv
  <2>4. Exclusive'
    BY <1>1, ExclusiveNext
  <2>5. TrailInv' /\ AuditedInOrder'
    BY <1>1, <2>1, TrailNext
  <2>6. QED
    BY <2>1, <2>3, <2>4, <2>5
<1>2. CASE UNCHANGED vars
  <2>1. TypeOK'
    BY <1>2 DEF vars, TypeOK
  <2>2. RequestInv'
    BY <1>2 DEF vars, RequestInv, Admission, Copy, Working, Writing, Present, Fresh, Exists, Inserts
  <2>3. Exclusive'
    BY <1>2 DEF vars, Exclusive, Writes, Inserts
  <2>4. TrailInv' /\ AuditedInOrder'
    BY <1>2 DEF vars, TrailInv, Once, Position, Audited, Changed, AuditedInOrder
  <2>5. QED
    BY <2>1, <2>2, <2>3, <2>4
<1>3. QED
  BY <1>1, <1>2 DEF Next

LEMMA AccountsCorrect == Spec => []AccountsInv
  BY AccountsInit, AccountsNext, PTL DEF Spec

\* Every variable keeps its type: what is stored of an account is an account.
THEOREM AccountsTypeCorrect == Spec => []TypeOK
<1>1. AccountsInv => TypeOK
  BY DEF AccountsInv
<1>2. QED
  BY <1>1, AccountsCorrect, PTL

\* A client that is told of a change finds in the answer what it asked for, or
\* someone else has changed that column since the request loaded it.
THEOREM AskedIsAnsweredCorrect == Spec => []AskedIsAnswered
<1>1. AccountsInv => AskedIsAnswered
  <2> SUFFICES ASSUME AccountsInv, NEW x \in Requests, pc[x] = "answered", op[x] # "integration",
                      NEW c \in DOMAIN asked[x]
               PROVE  answer[x][c] = asked[x][c] \/ c \in others[x]
    BY DEF AskedIsAnswered
  <2>1. Copy(x) /\ Fresh(x)
    BY DEF AccountsInv, RequestInv
  <2>2. c \in DOMAIN row[x] /\ row[x][c] = asked[x][c] /\ row[x] # Absent
    BY <2>1, Kinds DEF Copy, Working
  <2>3. QED
    BY <2>1, <2>2 DEF Fresh
<1>2. QED
  BY <1>1, AccountsCorrect, PTL

\* The audit events of changes to the same row are published in the order of the
\* commits.
THEOREM AuditedInOrderCorrect == Spec => []AuditedInOrder
<1>1. AccountsInv => AuditedInOrder
  BY DEF AccountsInv
<1>2. QED
  BY <1>1, AccountsCorrect, PTL

\* An update that is committed changes no column that the request does not write.
LEMMA CommitOfUser ==
  ASSUME AccountsInv, NEW x \in Requests, Commit(x), NEW u \in Users, key[x] = u, Exists(u)
  PROVE  /\ pc[x] = "flushed" /\ ~Inserts(x) /\ row[x] \in User /\ table[u] \in User
         /\ table[u].org = row[x].org
         /\ \A c \in {"org", "role", "active", "deleted", "name"} :
              table'[u][c] = IF c \in dirty[x] THEN row[x][c] ELSE table[u][c]
         /\ Writing(x) /\ Admission(x) /\ Commits(x)
<1> USE DEF AccountsInv
<1>1. pc[x] = "flushed" /\ Commits(x) /\ Admission(x) /\ Copy(x) /\ Writing(x) /\ Present(x) /\ Fresh(x)
  BY DEF Commit, Goto, TypeOK, Commits, RequestInv
<1>2. ~Inserts(x)
  BY <1>1 DEF Present
<1>3. row[x] \in User /\ table[u] \in User
  BY <1>1 DEF Copy, Working, TypeOK, Exists
<1>4. DOMAIN row[x] = {"org", "role", "active", "deleted", "name"}
  BY <1>3 DEF User
<1>5. \A c \in DOMAIN row[x] :
        table'[u][c] = IF c \in dirty[x] THEN row[x][c] ELSE table[u][c]
  BY <1>1, <1>2, MergeEffect, CommitTable
<1>6. table[u].org = row[x].org
  <2>1. "org" \notin dirty[x] /\ "org" \notin others[x]
    BY <1>1, CommitTable DEF Fresh
  <2>2. op[x] # "integration" /\ row[x] # Absent
    BY <1>1, <1>3, Kinds, AccountsAssumption DEF Admission
  <2>3. \A c \in DOMAIN row[x] \ dirty[x] : table[key[x]][c] = row[x][c] \/ c \in others[x]
    BY <1>1, <1>2, <2>2 DEF Fresh
  <2>4. "org" \in DOMAIN row[x] \ dirty[x]
    BY <1>4, <2>1
  <2>5. QED
    BY <2>1, <2>3, <2>4
<1>7. QED
  BY <1>1, <1>2, <1>3, <1>4, <1>5, <1>6

\* Rights change only by administrators' requests, and the stale rows of logins
\* and profiles never bring old ones back.
THEOREM RightsCorrect == Spec => RightsOnlyByAdministrators
<1>1. AccountsInv /\ [Next]_vars => [RightsByAdministrators]_vars
  <2> SUFFICES ASSUME AccountsInv, NEW x \in Requests, Step(x), NEW u \in Users, Exists(u),
                      Rights(table'[u]) # Rights(table[u])
               PROVE  /\ ~table[u].deleted \/ table'[u].deleted
                      /\ \E y \in Requests :
                           /\ Commits(y) /\ Manages(me[y]) /\ SameTenant(me[y], table[u].org)
                           /\ table'[u].role = table[u].role \/ MayGive(me[y], table'[u])
    BY DEF Next, RightsByAdministrators
  <2> USE DEF AccountsInv
  <2>1. Commit(x) /\ key[x] = u
    <3>1. Commit(x)
      <4> SUFFICES ASSUME ~Commit(x) PROVE UNCHANGED table
        OBVIOUS
      <4>1. QED
        BY StepKinds, BeginsEffect, AdministerEffect, LoadEffect
           DEF Flush, Answer, Fail, RequestInv
    <3>2. QED
      BY <3>1, CommitTable DEF Keys
  <2>2. /\ pc[x] = "flushed" /\ ~Inserts(x) /\ row[x] \in User /\ table[u] \in User
        /\ table[u].org = row[x].org
        /\ \A c \in {"org", "role", "active", "deleted", "name"} :
             table'[u][c] = IF c \in dirty[x] THEN row[x][c] ELSE table[u][c]
        /\ Writing(x) /\ Admission(x) /\ Commits(x)
    BY <2>1, CommitOfUser
  <2>3. "role" \in dirty[x] \/ "active" \in dirty[x] \/ "deleted" \in dirty[x]
    BY <2>2 DEF Rights
  <2>4. op[x] \in {"update", "delete"}
    BY <2>2, <2>3 DEF Writing, Working
  <2>5. Manages(me[x]) /\ SameTenant(me[x], table[u].org)
    BY <2>2, <2>4 DEF Admission, Writing, Working
  <2>6. ~table[u].deleted \/ table'[u].deleted
    BY <2>2 DEF Writing, Working
  <2>7. table'[u].role = table[u].role \/ MayGive(me[x], table'[u])
    <3>1. "role" \in dirty[x] => MayGive(me[x], row[x]) /\ table'[u].role = row[x].role
      BY <2>2 DEF Writing, Working
    <3>2. "role" \in DOMAIN row[x]
      BY <2>2 DEF User
    <3>3. QED
      BY <2>2, <3>1, <3>2 DEF MayGive
  <2>8. QED
    BY <2>2, <2>5, <2>6, <2>7
<1>2. QED
  BY <1>1, AccountsCorrect, PTL DEF Spec, RightsOnlyByAdministrators

\* Nobody who has lost rights gets them back by a request that was on its way.
THEOREM NoSelfRevivalCorrect == Spec => NoSelfRevival
<1>1. AccountsInv /\ [Next]_vars => [RevivesNobody]_vars
  <2> SUFFICES ASSUME AccountsInv, Next, NEW u \in Users, NEW x \in Requests,
                      Commits(x), actor[x] = u, key[x] = u
               PROVE  /\ table'[u].active => table[u].active
                      /\ table'[u].role = table[u].role \/ Rank[table'[u].role] <= Rank[me[x].role]
    BY DEF RevivesNobody
  <2> USE DEF AccountsInv
  <2>1. Commit(x)
    <3>1. PICK y \in Requests : Step(y)
      BY DEF Next
    <3>2. y = x
      BY <3>1, OthersSame DEF Same, Commits
    <3>3. QED
      BY <3>1, <3>2, Progress DEF Commits
  <2>2. Exists(u)
    BY DEF RequestInv, Admission, Commits
  <2>3. /\ ~Inserts(x) /\ row[x] \in User /\ table[u] \in User
        /\ \A c \in {"org", "role", "active", "deleted", "name"} :
             table'[u][c] = IF c \in dirty[x] THEN row[x][c] ELSE table[u][c]
        /\ Writing(x) /\ Admission(x) /\ pc[x] = "flushed"
    BY <2>1, <2>2, CommitOfUser
  <2>4. table'[u].active => table[u].active
    BY <2>3 DEF Writing, Working
  <2>5. ASSUME "role" \in dirty[x] PROVE Rank[row[x].role] <= Rank[me[x].role]
    <3>1. MayGive(me[x], row[x]) /\ op[x] \in {"update", "delete"} /\ Manages(me[x])
      BY <2>3, <2>5 DEF Writing, Working, Admission
    <3>2. row[x].role \in Role /\ me[x].role \in Role /\ "role" \in DOMAIN row[x]
      BY <2>3 DEF User, Admission
    <3>3. QED
      BY <3>1, <3>2 DEF MayGive, Manages, Rank, Role
  <2>6. QED
    BY <2>3, <2>4, <2>5
<1>2. QED
  BY <1>1, AccountsCorrect, PTL DEF Spec, NoSelfRevival
=============================================================================

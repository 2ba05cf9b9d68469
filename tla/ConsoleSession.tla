--------------------------- MODULE ConsoleSession ---------------------------
(***************************************************************************)
(* The session of a signed-in user in the web application or in the admin  *)
(* panel.  The browser keeps it in its local storage, which all tabs of the*)
(* application share: a pair of tokens and the user.  Each tab has its own *)
(* requests and at most one refresh of the tokens, which the requests that *)
(* were answered with 401 wait for together.                               *)
(*                                                                         *)
(* A handler runs with the render and the effects that follow it.  Other   *)
(* tabs hear of a change of the user by an event, later.  The snapshot of  *)
(* the stored user is taken to be stable, see Not modelled in the README.  *)
(***************************************************************************)
EXTENDS Naturals, FiniteSets

CONSTANTS Users, Nobody,
          Stored,      \* whose session the storage may have at first
          Tabs,
          MaxSteps,    \* bounds what users, administrators and failures do
          MaxCalls     \* bounds the requests of a tab when its user acts

ASSUME SessionAssumption == Nobody \notin Users /\ Stored \subseteq Users /\ {MaxSteps, MaxCalls} \subseteq Nat

VARIABLES
  app,         \* which of the two applications it is
  store,       \* the local storage: the user, whose tokens, whether the access
               \* token is still accepted
  tabs,        \* what each tab shows, the user it has rendered, its refresh and
               \* its requests
  disabled,    \* the accounts that have been deactivated or deleted
  left,        \* steps left of MaxSteps
  owner,       \* who has signed in last and has not been signed out since, and
  raced,       \* whether an older answer could still touch the storage then;
  calm         \* no failure, no sign-out and no account disabled so far: all three
               \* for the properties

vars == <<app, store, tabs, disabled, left, owner, raced, calm>>

Kinds == {"login", "me", "profile", "page"}

\* A request with the access token it was sent with: whose it is and whether
\* it is accepted.  A waiting one has been answered with 401.
Request ==
  [kind : Kinds, who : Users \cup {Nobody}, live : BOOLEAN, sends : 1 .. 2, waiting : BOOLEAN]

TabState == [view : {"loading", "login", "pages"}, seen : Users \cup {Nobody},
             refresh : Users \cup {Nobody}, calls : SUBSET Request]

\* The local storage.
Storage == [user : Users \cup {Nobody}, who : Users \cup {Nobody}, live : BOOLEAN]

\* The types.
TypeOK ==
  /\ app \in {"web", "admin"}
  /\ store \in Storage
  /\ tabs \in [Tabs -> TabState]
  /\ disabled \subseteq Users /\ left \in 0 .. MaxSteps
  /\ owner \in Users \cup {Nobody} /\ {raced, calm} \subseteq BOOLEAN

-----------------------------------------------------------------------------
(* The storage and the requests.                                           *)

clearAuthState == [user |-> Nobody, who |-> Nobody, live |-> FALSE]
applyAuthSession(u) == [user |-> u, who |-> u, live |-> TRUE]
setSessionUser(s, u) == [s EXCEPT !.user = u]

\* A request to the API, with the token in s.  Alike requests of a tab are one.
apiRequest(kind, s) == [kind |-> kind, who |-> s.who, live |-> s.live, sends |-> 1, waiting |-> FALSE]
loginRequest(u) == [kind |-> "login", who |-> u, live |-> TRUE, sends |-> 1, waiting |-> FALSE]

\* What answers may still write into the storage for a session of before.
Writers(ts) ==
  \E t \in Tabs : ts[t].refresh # Nobody \/ \E c \in ts[t].calls : c.kind \in {"me", "profile"}

-----------------------------------------------------------------------------
(* Rendering.  The routes of the web application: the login page redirects *)
(* when there is a user; the pages when there is none, after they have     *)
(* tried to get the user of the tokens.  Opening the pages sends requests. *)

ShowPages(x, s) ==
  [x EXCEPT !.view = "pages",
            !.calls = IF x.view = "pages" THEN @ ELSE @ \cup {apiRequest("page", s)}]

\* The effect of ProtectedRoute when the user is another than before.
ProtectedRoute(x, s) ==
  IF s.user # Nobody THEN ShowPages(x, s)
  ELSE IF x.view = "login" \/ x.seen = Nobody THEN x
  ELSE [x EXCEPT !.view = IF @ = "loading" /\ s.who # Nobody THEN @ ELSE "login",
                 !.calls = IF s.who = Nobody THEN @ ELSE @ \cup {apiRequest("me", s)}]

\* The effect of the admin panel when the user is another than before.
AdminApp(x, s) ==
  IF x.view = "loading" \/ s.user = x.seen THEN x
  ELSE IF s.user # Nobody /\ s.who # Nobody THEN ShowPages(x, s)
  ELSE [x EXCEPT !.view = "login"]

\* Tab state x renders the storage s.
Rendered(x, s) ==
  [(IF app = "web" THEN ProtectedRoute(x, s) ELSE AdminApp(x, s)) EXCEPT !.seen = s.user]

\* Nobody else's tab changes in the step.
Step(t, s, x) == store' = s /\ tabs' = [tabs EXCEPT ![t] = Rendered(x, s)]

\* The storage is cleared, or filled by a login: for the properties.
SignedOut == owner' = Nobody /\ raced' = Writers(tabs')
SignedIn(u) == owner' = u /\ raced' = Writers(tabs')

-----------------------------------------------------------------------------
(* What users do.                                                          *)

Acts(t) == left > 0 /\ left' = left - 1 /\ Cardinality(tabs[t].calls) < MaxCalls

\* A mutant of Mounted: the login page does not redirect.
MountedThere(s, path) ==
  LET x == [view |-> path, seen |-> s.user, refresh |-> Nobody, calls |-> {}] IN
  IF path = "login" \/ s.who = Nobody THEN [x EXCEPT !.view = "login"]
  ELSE IF app = "web" /\ s.user # Nobody THEN ShowPages(x, s)
  ELSE [x EXCEPT !.calls = {apiRequest("me", s)}]

\* A tab is loaded again, on the pages or, for the web application, on the
\* login page: what it was doing is gone.
Mounted(s, path) ==
  LET x == [view |-> path, seen |-> s.user, refresh |-> Nobody, calls |-> {}] IN
  IF app = "web" /\ s.user # Nobody THEN ShowPages(x, s)
  ELSE IF path = "login" \/ s.who = Nobody THEN [x EXCEPT !.view = "login"]
  ELSE [x EXCEPT !.calls = {apiRequest("me", s)}]

Open(t) ==
  /\ left > 0 /\ left' = left - 1
  /\ \E path \in {"loading"} \cup (IF app = "web" THEN {"login"} ELSE {}) :
       tabs' = [tabs EXCEPT ![t] = Mounted(store, path)]
  /\ UNCHANGED <<app, store, disabled, owner, raced, calm>>

\* What the login forms can send, typed or filled in from a quick profile: nothing
\* while a login is on its way.
Idle(x) == x.view = "login" /\ \A c \in x.calls : c.kind # "login"
LoginPage(x) == IF app = "web" /\ Idle(x) THEN {loginRequest(u) : u \in Users} ELSE {}
AdminLoginPage(x) == IF app = "admin" /\ Idle(x) THEN {loginRequest(u) : u \in Users} ELSE {}

handleLogin(t) ==
  /\ Acts(t)
  /\ \E c \in LoginPage(tabs[t]) \cup AdminLoginPage(tabs[t]) :
       tabs' = [tabs EXCEPT ![t].calls = @ \cup {c}]
  /\ UNCHANGED <<app, store, disabled, owner, raced, calm>>

\* The pages of the web application poll, see below; of what its user asks for,
\* a saved profile comes back to the storage.
Use(t) ==
  /\ Acts(t) /\ tabs[t].view = "pages"
  /\ tabs' = [tabs EXCEPT ![t].calls = @ \cup {apiRequest(IF app = "web" THEN "profile" ELSE "page", store)}]
  /\ UNCHANGED <<app, store, disabled, owner, raced, calm>>

\* A mutant of logout: the tokens stay.
logoutUser(t) ==
  /\ left > 0 /\ left' = left - 1 /\ tabs[t].view = "pages"
  /\ Step(t, setSessionUser(store, Nobody), [tabs[t] EXCEPT !.view = "login"])
  /\ SignedOut /\ calm' = FALSE
  /\ UNCHANGED <<app, disabled>>

logout(t) ==
  /\ left > 0 /\ left' = left - 1 /\ tabs[t].view = "pages"
  /\ Step(t, clearAuthState, [tabs[t] EXCEPT !.view = "login"])
  /\ SignedOut /\ calm' = FALSE
  /\ UNCHANGED <<app, disabled>>

\* The frame of the web application polls, here once its last poll is answered.
Poll(t) ==
  /\ app = "web" /\ tabs[t].view = "pages"
  /\ \A c \in tabs[t].calls : c.kind # "page"
  /\ tabs' = [tabs EXCEPT ![t].calls = @ \cup {apiRequest("page", store)}]
  /\ UNCHANGED <<app, store, disabled, left, owner, raced, calm>>

\* A tab hears that the user in the storage is another.
Notice(t) ==
  /\ tabs[t].seen # store.user
  /\ Step(t, store, tabs[t])
  /\ UNCHANGED <<app, disabled, left, owner, raced, calm>>

-----------------------------------------------------------------------------
(* What the server and the network do.                                     *)

\* Whose password, access token or refresh token the server accepts.  The expiry
\* of a refresh token, after days, and a change of tenant are refusals of
\* NotRenewed.
authenticate_user(u) == u \in Users \ disabled
get_current_active_user(c) == c.live /\ c.who \in Users \ disabled
refresh_access_token(u) == u \in Users \ disabled

Without(t, c) == [tabs[t] EXCEPT !.calls = @ \ {c}]

\* The state of the tab when the user could not be loaded.
Unknown(x, c) == IF c.kind = "me" /\ x.view = "loading" THEN [x EXCEPT !.view = "login"] ELSE x

Answered(t, c) ==
  /\ ~c.waiting
  /\ IF c.kind = "login" THEN authenticate_user(c.who) ELSE get_current_active_user(c)
  /\ \/ /\ c.kind = "login"
        /\ Step(t, applyAuthSession(c.who), ShowPages(Without(t, c), applyAuthSession(c.who)))
        /\ SignedIn(c.who)
     \/ /\ c.kind = "me"
        /\ LET s == setSessionUser(store, c.who) IN
           Step(t, s, IF app = "admin" THEN ShowPages(Rendered(Without(t, c), s), s) ELSE Without(t, c))
        /\ UNCHANGED <<owner, raced>>
     \/ /\ c.kind = "profile"
        /\ Step(t, setSessionUser(store, c.who), Without(t, c))
        /\ UNCHANGED <<owner, raced>>
     \/ /\ c.kind = "page"
        /\ tabs' = [tabs EXCEPT ![t] = Without(t, c)]
        /\ UNCHANGED <<store, owner, raced>>
  /\ UNCHANGED <<app, disabled, left, calm>>

\* Mutant: no 401 renews the tokens.
renewsNever(c) == FALSE

\* retryOnUnauthorized: the first 401 of a request renews the tokens.
renews(c) == c.kind # "login" /\ c.sends = 1

\* 401, also for a deleted account: the request waits for a refresh, its own or
\* that of another.  Without a refresh token the storage is cleared, and without
\* a user me signs out.
Unauthorized(t, c) ==
  /\ ~c.waiting /\ c.kind # "login"
  /\ c.who = Nobody \/ ~c.live \/ c.who \in disabled
  /\ IF renews(c) /\ store.who # Nobody
       THEN /\ tabs' = [tabs EXCEPT ![t].calls = (@ \ {c}) \cup {[c EXCEPT !.waiting = TRUE]},
                                    ![t].refresh = IF @ = Nobody THEN store.who ELSE @]
            /\ UNCHANGED <<store, owner, raced>>
     ELSE IF renews(c) \/ c.kind = "me"
       THEN Step(t, clearAuthState, Unknown(Without(t, c), c)) /\ SignedOut
     ELSE /\ tabs' = [tabs EXCEPT ![t] = Without(t, c)]
          /\ UNCHANGED <<store, owner, raced>>
  /\ UNCHANGED <<app, disabled, left, calm>>

\* A request ends in another error: a deactivated account, or a failure on the
\* way or at the server.  The admin panel signs out when it is me.
Failed(t, c) ==
  /\ ~c.waiting
  /\ \/ c.who \in disabled /\ c.live /\ UNCHANGED <<left, calm>>
     \/ left > 0 /\ left' = left - 1 /\ calm' = FALSE
  /\ IF c.kind = "me" /\ app = "admin"
       THEN Step(t, clearAuthState, Unknown(Without(t, c), c)) /\ SignedOut
       ELSE /\ tabs' = [tabs EXCEPT ![t] = Unknown(Without(t, c), c)]
            /\ UNCHANGED <<store, owner, raced>>
  /\ UNCHANGED <<app, disabled>>

\* A mutant of Retried: with the token it had.
RetriedAsBefore(t, s) ==
  [tabs[t] EXCEPT !.refresh = Nobody,
     !.calls = {IF c.waiting THEN [c EXCEPT !.sends = 2, !.waiting = FALSE] ELSE c : c \in @}]

\* What waits for the refresh of tab t is sent again with the new token.
Retried(t, s) ==
  [tabs[t] EXCEPT !.refresh = Nobody,
     !.calls = {IF c.waiting THEN [apiRequest(c.kind, s) EXCEPT !.sends = c.sends + 1] ELSE c : c \in @}]

Renewed(t) ==
  LET s == applyAuthSession(tabs[t].refresh) IN
  /\ refresh_access_token(tabs[t].refresh)
  /\ Step(t, s, Retried(t, s))
  /\ UNCHANGED <<app, disabled, left, owner, raced, calm>>

MeWaits(t) == \E c \in tabs[t].calls : c.waiting /\ c.kind = "me"

\* A mutant of Woken: they are not told of a refresh that fails.
LeftWaiting(t) == [tabs[t] EXCEPT !.refresh = Nobody]

\* What waits ends with its 401.
Woken(t) ==
  LET x == [tabs[t] EXCEPT !.refresh = Nobody, !.calls = {c \in @ : ~c.waiting}] IN
  IF MeWaits(t) /\ x.view = "loading" THEN [x EXCEPT !.view = "login"] ELSE x

\* The refresh is refused, to a disabled account or for an error of the
\* server, a refresh token that has expired itself or is of another tenant
\* included (one of the bounded steps), and the storage is cleared; or it is lost, and the storage is cleared
\* only if me waits for it.
NotRenewed(t) ==
  /\ tabs[t].refresh # Nobody
  /\ \/ tabs[t].refresh \in disabled /\ UNCHANGED <<left, calm>>
     \/ left > 0 /\ left' = left - 1 /\ calm' = FALSE
  /\ \/ Step(t, clearAuthState, Woken(t)) /\ SignedOut
     \/ /\ left' # left
        /\ ~MeWaits(t)
        /\ tabs' = [tabs EXCEPT ![t] = Woken(t)]
        /\ UNCHANGED <<store, owner, raced>>
  /\ UNCHANGED <<app, disabled>>

\* The access token and those in use expire.  Tokens live for many minutes: that
\* a new one is refused to the request it was renewed for is a failure.
Expire ==
  /\ store.live
  /\ \/ (\A t \in Tabs : \A c \in tabs[t].calls : c.sends = 1) /\ UNCHANGED <<left, calm>>
     \/ left > 0 /\ left' = left - 1 /\ calm' = FALSE
  /\ store' = [store EXCEPT !.live = FALSE]
  /\ tabs' = [t \in Tabs |-> [tabs[t] EXCEPT !.calls = {[c EXCEPT !.live = c.kind = "login"] : c \in @}]]
  /\ UNCHANGED <<app, disabled, owner, raced>>

\* An administrator deactivates an account or deletes it.
Disable ==
  /\ left > 0 /\ left' = left - 1 /\ calm' = FALSE
  /\ \E u \in Users \ disabled : disabled' = disabled \cup {u}
  /\ UNCHANGED <<app, store, tabs, owner, raced>>

-----------------------------------------------------------------------------
\* A storage without a session, with one, or with tokens and a stored user that
\* is not valid; the tabs are on the login page, or have just been opened.
Init ==
  /\ app \in {"web", "admin"}
  /\ store \in {clearAuthState}
                  \cup {applyAuthSession(u) : u \in Stored}
                  \cup {setSessionUser(applyAuthSession(u), Nobody) : u \in Stored}
  /\ tabs = [t \in Tabs |-> Mounted(store, "loading")]
  /\ disabled = {} /\ left = MaxSteps
  /\ owner = store.who /\ raced = FALSE /\ calm = (store.who # Nobody)

Answer(t) == \E c \in tabs[t].calls : Answered(t, c) \/ Unauthorized(t, c) \/ Failed(t, c)
RefreshEnds(t) == Renewed(t) \/ NotRenewed(t)

Next ==
  \/ \E t \in Tabs : \/ Open(t) \/ handleLogin(t) \/ Use(t) \/ logout(t) \/ Poll(t) \/ Notice(t)
                     \/ Answer(t) \/ RefreshEnds(t)
  \/ Expire \/ Disable

Spec == Init /\ [][Next]_vars

\* The browser ends every request, also those of a refresh, which has no
\* time-out of its own; it delivers the events; and the poll's timer fires.
FairSpec ==
  /\ Spec
  /\ \A t \in Tabs : WF_vars(Answer(t) \/ RefreshEnds(t) \/ Notice(t)) /\ WF_vars(Poll(t))

-----------------------------------------------------------------------------
(* Properties.                                                             *)

\* A request that waits does so for a refresh: none is left behind when one
\* ends, whatever has signed in or out meanwhile.
WaitersWake ==
  \A t \in Tabs : (\E c \in tabs[t].calls : c.waiting) => tabs[t].refresh # Nobody

\* The storage holds the session of the one who has signed in last, or none if
\* they have been signed out, in whichever tab; unless a refresh, a profile or
\* a user that was asked for before was still on its way then: its answer does
\* bring a session or a name of before back.
OwnersSession == ~raced => store.who = owner /\ store.user \in {owner, Nobody}

\* Nobody is signed out by tokens that expire, however many requests of however
\* many tabs find out together: only by signing out, a disabled account or a
\* failure, as which the end of a refresh token counts too.
StaysSignedIn ==
  calm => /\ store.who # Nobody
          /\ \A t \in Tabs : tabs[t].view = "login" => tabs[t].seen # store.user \/ store.user = Nobody

\* A tab at rest shows what the storage says, with the exception of OwnersSession:
\* a user without tokens, or the session of before, that a late answer has put
\* there.  Of the login page of the admin panel nothing is said.
Rests(t) == tabs[t].calls = {} /\ tabs[t].refresh = Nobody /\ tabs[t].seen = store.user
ViewsAgree ==
  \A t \in Tabs : ~raced /\ Rests(t) =>
    /\ tabs[t].view # "loading"
    /\ tabs[t].view = "pages" => store.user # Nobody /\ store.who # Nobody
    /\ tabs[t].view = "login" /\ app = "web" => store.user = Nobody

\* "Loading secure workspace" and "Initializing secure admin session" end; and
\* the web application does not keep a user without tokens, as a late profile
\* leaves: the polls of its pages find out.
Half == app = "web" /\ store.user # Nobody /\ store.who = Nobody
Unstuck ==
  /\ []<>(\A t \in Tabs : tabs[t].view # "loading")
  /\ []<>~Half
=============================================================================

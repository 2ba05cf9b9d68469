------------------------ MODULE ConsoleSessionProofs ------------------------
(***************************************************************************)
(* Proofs about ConsoleSession, for any users, tabs and bounds.            *)
(***************************************************************************)
EXTENDS ConsoleSession, TLAPS

Anybody == Users \cup {Nobody}

\* A tab whose waiting requests wait for a refresh, for the first time; one
\* whose answers are all for user w; one that has not lost the user of s.
WakeTab(x) == \A c \in x.calls : c.waiting => c.sends = 1 /\ x.refresh # Nobody

OwnTab(x, w) ==
  /\ x.refresh \in {w, Nobody}
  /\ \A c \in x.calls : c.kind \in {"me", "profile"} => c.who \in {w, Nobody}

KeptTab(x, s) ==
  /\ s.user = Nobody => x.seen = Nobody
  /\ x.view = "login" => x.seen = Nobody
  /\ \A c \in x.calls : c.sends = 2 => c.live /\ c.who # Nobody

Waits == \A t \in Tabs : WakeTab(tabs[t])

\* What may still be written into the storage for a session of before is of its
\* owner, unless raced.
Owned ==
  ~raced => store.who = owner /\ store.user \in {owner, Nobody} /\ \A t \in Tabs : OwnTab(tabs[t], owner)

\* While nothing has gone wrong a retry has an accepted token, and a tab is on
\* the login page only if it has never seen a user.
Kept ==
  calm => store.who # Nobody /\ disabled = {} /\ \A t \in Tabs : KeptTab(tabs[t], store)

IInv == TypeOK /\ Waits /\ Owned /\ Kept

-----------------------------------------------------------------------------
(* Rendering.                                                              *)

\* Tab state y is x with the requests of a render of s: the refresh is the same,
\* and what is new is sent for the first time, with the token of s.
Grown(x, y, s) ==
  /\ y \in TabState /\ y.refresh = x.refresh
  /\ \A c \in y.calls : c \in x.calls \/ (c \in Request /\ c.who = s.who /\ c.sends = 1 /\ ~c.waiting)

LEMMA RequestType ==
  ASSUME NEW s \in Storage, NEW kind \in Kinds
  PROVE  /\ apiRequest(kind, s) \in Request
         /\ apiRequest(kind, s).kind = kind /\ apiRequest(kind, s).who = s.who
         /\ apiRequest(kind, s).live = s.live
         /\ apiRequest(kind, s).sends = 1 /\ ~apiRequest(kind, s).waiting
  BY DEF apiRequest, Request, Storage, Kinds

LEMMA PagesGrow ==
  ASSUME NEW x \in TabState, NEW s \in Storage
  PROVE  /\ Grown(x, ShowPages(x, s), s)
         /\ ShowPages(x, s).view = "pages" /\ ShowPages(x, s).seen = x.seen
<1> DEFINE c == apiRequest("page", s)
           cs == IF x.view = "pages" THEN x.calls ELSE x.calls \cup {c}
<1>1. c \in Request /\ c.who = s.who /\ c.sends = 1 /\ ~c.waiting
  BY RequestType DEF Kinds
<1>2. x.calls \in SUBSET Request
  BY DEF TabState
<1>3. cs \in SUBSET Request
  BY <1>1, <1>2
<1>4. ShowPages(x, s) = [x EXCEPT !.view = "pages", !.calls = cs]
  BY DEF ShowPages
<1>5. \A d \in cs : d \in x.calls \/ d = c
  OBVIOUS
<1> HIDE DEF c, cs
<1>6. /\ ShowPages(x, s) \in TabState /\ ShowPages(x, s).calls = cs /\ ShowPages(x, s).view = "pages"
      /\ ShowPages(x, s).seen = x.seen /\ ShowPages(x, s).refresh = x.refresh
  BY <1>3, <1>4 DEF TabState
<1> QED
  BY <1>1, <1>5, <1>6 DEF Grown

LEMMA RouteGrows ==
  ASSUME NEW x \in TabState, NEW s \in Storage
  PROVE  /\ Grown(x, ProtectedRoute(x, s), s)
         /\ ProtectedRoute(x, s).view = "login" => s.user = Nobody
<1>1. "me" \in Kinds
  BY DEF Kinds
<1>2. CASE s.user # Nobody
  BY <1>2, PagesGrow DEF ProtectedRoute
<1>3. CASE s.user = Nobody /\ (x.view = "login" \/ x.seen = Nobody)
  BY <1>3 DEF ProtectedRoute, Grown
<1>4. CASE s.user = Nobody /\ ~(x.view = "login" \/ x.seen = Nobody)
  <2> DEFINE c == apiRequest("me", s)
             cs == IF s.who = Nobody THEN x.calls ELSE x.calls \cup {c}
             v == IF x.view = "loading" /\ s.who # Nobody THEN x.view ELSE "login"
  <2>1. c \in Request /\ c.who = s.who /\ c.sends = 1 /\ ~c.waiting
    BY <1>1, RequestType
  <2>2. x.calls \in SUBSET Request
    BY DEF TabState
  <2>3. cs \in SUBSET Request /\ v \in {"loading", "login", "pages"}
    BY <2>1, <2>2
  <2>4. ProtectedRoute(x, s) = [x EXCEPT !.view = v, !.calls = cs]
    BY <1>4 DEF ProtectedRoute
  <2>5. \A d \in cs : d \in x.calls \/ d = c
    OBVIOUS
  <2> HIDE DEF c, cs, v
  <2>6. /\ ProtectedRoute(x, s) \in TabState /\ ProtectedRoute(x, s).calls = cs
        /\ ProtectedRoute(x, s).refresh = x.refresh
    BY <2>3, <2>4 DEF TabState
  <2> QED
    BY <1>4, <2>1, <2>5, <2>6 DEF Grown
<1> QED
  BY <1>2, <1>3, <1>4

LEMMA AdminGrows ==
  ASSUME NEW x \in TabState, NEW s \in Storage
  PROVE  /\ Grown(x, AdminApp(x, s), s)
         /\ AdminApp(x, s).view = "login" =>
              s.user = Nobody \/ s.who = Nobody \/ (x.view = "login" /\ x.seen = s.user)
<1>1. CASE x.view = "loading" \/ s.user = x.seen
  BY <1>1 DEF AdminApp, Grown, TabState
<1>2. CASE ~(x.view = "loading" \/ s.user = x.seen) /\ s.user # Nobody /\ s.who # Nobody
  BY <1>2, PagesGrow DEF AdminApp
<1>3. CASE ~(x.view = "loading" \/ s.user = x.seen) /\ ~(s.user # Nobody /\ s.who # Nobody)
  BY <1>3 DEF AdminApp, Grown, TabState
<1> QED
  BY <1>1, <1>2, <1>3

LEMMA RenderGrows ==
  ASSUME NEW x \in TabState, NEW s \in Storage
  PROVE  /\ Grown(x, Rendered(x, s), s)
         /\ Rendered(x, s).seen = s.user
         /\ Rendered(x, s).view = "login" =>
              s.user = Nobody \/ s.who = Nobody \/ (x.view = "login" /\ x.seen = s.user)
<1>1. Grown(x, ProtectedRoute(x, s), s) /\ Grown(x, AdminApp(x, s), s)
  BY RouteGrows, AdminGrows
<1>2. s.user \in Anybody
  BY DEF Storage, Anybody
<1> DEFINE y == IF app = "web" THEN ProtectedRoute(x, s) ELSE AdminApp(x, s)
<1>3. /\ Grown(x, y, s)
      /\ y.view = "login" => s.user = Nobody \/ s.who = Nobody \/ (x.view = "login" /\ x.seen = s.user)
  BY <1>1, RouteGrows, AdminGrows
<1>4. Rendered(x, s) = [y EXCEPT !.seen = s.user]
  BY DEF Rendered
<1> HIDE DEF y
<1>5. y \in TabState
  BY <1>3 DEF Grown
<1> QED
  BY <1>2, <1>3, <1>4, <1>5 DEF Grown, TabState, Anybody

LEMMA GrownKeeps ==
  ASSUME NEW x, NEW y, NEW s, Grown(x, y, s)
  PROVE  /\ WakeTab(x) => WakeTab(y)
         /\ OwnTab(x, s.who) => OwnTab(y, s.who)
         /\ (\A c \in x.calls : c.sends = 2 => c.live /\ c.who # Nobody)
              => \A c \in y.calls : c.sends = 2 => c.live /\ c.who # Nobody
  BY DEF Grown, WakeTab, OwnTab

\* A tab that renders storage s, from a state of which this much is known.
LEMMA RenderKeeps ==
  ASSUME NEW x \in TabState, NEW s \in Storage, s.who # Nobody,
         x.view = "login" => x.seen = Nobody,
         \A c \in x.calls : c.sends = 2 => c.live /\ c.who # Nobody
  PROVE  KeptTab(Rendered(x, s), s)
<1>1. Grown(x, Rendered(x, s), s) /\ Rendered(x, s).seen = s.user
  BY RenderGrows
<1>2. Rendered(x, s).view = "login" => s.user = Nobody
  BY RenderGrows
<1>3. \A c \in Rendered(x, s).calls : c.sends = 2 => c.live /\ c.who # Nobody
  BY <1>1, GrownKeeps
<1> QED
  BY <1>1, <1>2, <1>3 DEF KeptTab

-----------------------------------------------------------------------------
(* A step of one tab.                                                      *)

LEMMA Stepped ==
  ASSUME IInv, NEW t \in Tabs, NEW y \in TabState, WakeTab(y),
         tabs' = [tabs EXCEPT ![t] = y], store' \in Storage, app' = app,
         disabled' \subseteq Users, left' \in 0 .. MaxSteps, owner' \in Anybody,
         raced' \in BOOLEAN, calm' \in BOOLEAN,
         \/ /\ owner' = owner /\ raced' = raced
            /\ ~raced => store'.who = owner /\ store'.user \in {owner, Nobody} /\ OwnTab(y, owner)
         \/ raced' = Writers(tabs') /\ store'.who = owner' /\ store'.user \in {owner', Nobody},
         calm' => /\ calm /\ disabled' = {} /\ store'.who # Nobody /\ KeptTab(y, store')
                  /\ store'.user = Nobody => store.user = Nobody
  PROVE  IInv'
<1> USE DEF IInv
<1>1. /\ tabs' \in [Tabs -> TabState] /\ tabs'[t] = y
      /\ \A u \in Tabs : u # t => tabs'[u] = tabs[u]
  BY DEF TypeOK
<1>2. TypeOK'
  BY <1>1 DEF TypeOK, Anybody
<1>3. Waits'
  BY <1>1 DEF Waits, WakeTab
<1>4. Owned'
  <2>1. CASE owner' = owner /\ raced' = raced
               /\ (~raced => store'.who = owner /\ store'.user \in {owner, Nobody} /\ OwnTab(y, owner))
    BY <1>1, <2>1 DEF Owned, OwnTab
  <2>2. CASE raced' = Writers(tabs') /\ store'.who = owner' /\ store'.user \in {owner', Nobody}
    BY <2>2 DEF Owned, OwnTab, Writers
  <2> QED
    BY <2>1, <2>2
<1>5. Kept'
  BY <1>1 DEF Kept, KeptTab
<1> QED
  BY <1>2, <1>3, <1>4, <1>5

-----------------------------------------------------------------------------
(* The actions.                                                            *)

LEMMA StorageTypes ==
  /\ clearAuthState \in Storage /\ clearAuthState.user = Nobody /\ clearAuthState.who = Nobody
  /\ \A u \in Users : /\ applyAuthSession(u) \in Storage
                      /\ applyAuthSession(u).user = u /\ applyAuthSession(u).who = u
                      /\ applyAuthSession(u).live
  /\ \A s \in Storage, u \in Anybody :
       /\ setSessionUser(s, u) \in Storage
       /\ setSessionUser(s, u).user = u /\ setSessionUser(s, u).who = s.who
  BY DEF clearAuthState, applyAuthSession, setSessionUser, Storage, Anybody

LEMMA Spent ==
  ASSUME TypeOK, left > 0, left' = left - 1
  PROVE  left' \in 0 .. MaxSteps
  BY SessionAssumption DEF TypeOK

\* A tab that sends one more request.
LEMMA OneMore ==
  ASSUME NEW x \in TabState, NEW r \in Request, ~r.waiting, NEW y, y = [x EXCEPT !.calls = @ \cup {r}]
  PROVE  /\ y \in TabState /\ (WakeTab(x) => WakeTab(y))
         /\ \A w : OwnTab(x, w) /\ (r.kind \in {"me", "profile"} => r.who \in {w, Nobody}) => OwnTab(y, w)
         /\ \A s : KeptTab(x, s) /\ r.sends = 1 => KeptTab(y, s)
<1>1. /\ y \in TabState /\ y.view = x.view /\ y.seen = x.seen /\ y.refresh = x.refresh
      /\ y.calls = x.calls \cup {r}
  BY DEF TabState
<1> QED
  BY <1>1 DEF WakeTab, OwnTab, KeptTab

\* A tab whose request ends.
LEMMA OneLess ==
  ASSUME TypeOK, NEW t \in Tabs, NEW c
  PROVE  LET x == Without(t, c) IN
         /\ x \in TabState /\ x.seen = tabs[t].seen /\ x.view = tabs[t].view /\ x.refresh = tabs[t].refresh
         /\ x.calls = tabs[t].calls \ {c}
         /\ WakeTab(tabs[t]) => WakeTab(x)
         /\ \A w : OwnTab(tabs[t], w) => OwnTab(x, w)
         /\ \A s : KeptTab(tabs[t], s) => KeptTab(x, s)
<1> DEFINE x == Without(t, c)
<1>1. /\ x \in TabState /\ x.seen = tabs[t].seen /\ x.view = tabs[t].view /\ x.refresh = tabs[t].refresh
      /\ x.calls = tabs[t].calls \ {c}
  BY DEF Without, TypeOK, TabState
<1> HIDE DEF x
<1>2. /\ WakeTab(tabs[t]) => WakeTab(x)
      /\ \A w : OwnTab(tabs[t], w) => OwnTab(x, w)
      /\ \A s : KeptTab(tabs[t], s) => KeptTab(x, s)
  BY <1>1 DEF WakeTab, OwnTab, KeptTab
<1> QED
  BY <1>1, <1>2 DEF x

LEMMA Mounting ==
  ASSUME store \in Storage, NEW path \in {"loading", "login"}, path = "login" => app = "web"
  PROVE  LET y == Mounted(store, path) IN
         /\ y \in TabState /\ WakeTab(y) /\ OwnTab(y, store.who)
         /\ store.who # Nobody => KeptTab(y, store)
<1> DEFINE x == [view |-> path, seen |-> store.user, refresh |-> Nobody, calls |-> {}]
           z == [x EXCEPT !.view = "login"]
           r == apiRequest("me", store)
           m == [x EXCEPT !.calls = {r}]
<1>1. store \in Storage /\ store.user \in Anybody
  BY DEF Storage, Anybody
<1>2. x \in TabState /\ x.calls = {} /\ x.seen = store.user /\ x.view = path /\ x.refresh = Nobody
  BY <1>1 DEF TabState, Anybody
<1>3. CASE app = "web" /\ store.user # Nobody
  <2>1. Mounted(store, path) = ShowPages(x, store)
    BY <1>3 DEF Mounted
  <2>2. /\ Grown(x, ShowPages(x, store), store) /\ ShowPages(x, store).view = "pages"
        /\ ShowPages(x, store).seen = store.user
    BY <1>1, <1>2, PagesGrow
  <2>3. WakeTab(x) /\ OwnTab(x, store.who)
    BY <1>2 DEF WakeTab, OwnTab
  <2> HIDE DEF x
  <2> QED
    BY <1>2, <1>3, <2>1, <2>2, <2>3, GrownKeeps DEF KeptTab, Grown
<1>4. CASE ~(app = "web" /\ store.user # Nobody) /\ (path = "login" \/ store.who = Nobody)
  <2>1. Mounted(store, path) = z
    BY <1>4 DEF Mounted
  <2>2. z \in TabState /\ z.calls = {} /\ z.refresh = Nobody /\ z.seen = store.user
    BY <1>2 DEF TabState
  <2> QED
    BY <1>4, <2>1, <2>2 DEF WakeTab, OwnTab, KeptTab
<1>5. CASE ~(app = "web" /\ store.user # Nobody) /\ ~(path = "login" \/ store.who = Nobody)
  <2>1. Mounted(store, path) = m
    BY <1>5 DEF Mounted
  <2>2. r \in Request /\ r.who = store.who /\ r.sends = 1 /\ ~r.waiting
    BY <1>1, RequestType DEF Kinds
  <2> HIDE DEF r
  <2>3. m \in TabState /\ m.calls = {r} /\ m.refresh = Nobody /\ m.seen = store.user /\ m.view = path
    BY <1>2, <2>2 DEF TabState
  <2> QED
    BY <1>5, <2>1, <2>2, <2>3 DEF WakeTab, OwnTab, KeptTab
<1> QED
  BY <1>3, <1>4, <1>5

LEMMA OpenKeeps ==
  ASSUME IInv, NEW t \in Tabs, Open(t)
  PROVE  IInv'
<1> USE DEF IInv
<1>1. PICK path \in {"loading"} \cup (IF app = "web" THEN {"login"} ELSE {}) :
        tabs' = [tabs EXCEPT ![t] = Mounted(store, path)]
  BY DEF Open
<1>2. /\ Mounted(store, path) \in TabState /\ WakeTab(Mounted(store, path))
      /\ OwnTab(Mounted(store, path), store.who)
      /\ store.who # Nobody => KeptTab(Mounted(store, path), store)
  BY <1>1, Mounting DEF TypeOK
<1>3. left' \in 0 .. MaxSteps
  BY Spent DEF Open
<1>4. /\ ~raced => store.who = owner /\ store.user \in {owner, Nobody}
      /\ calm => store.who # Nobody /\ disabled = {}
  BY DEF Owned, Kept
<1> QED
  BY <1>1, <1>2, <1>3, <1>4, Stepped DEF Open, TypeOK, Anybody

\* A tab sends a request with the token in the storage, or to sign in.
LEMMA SendKeeps ==
  ASSUME IInv, NEW t \in Tabs, NEW r \in Request, ~r.waiting, r.sends = 1,
         r.kind \in {"me", "profile"} => r.who = store.who,
         tabs' = [tabs EXCEPT ![t].calls = @ \cup {r}], left' \in 0 .. MaxSteps,
         UNCHANGED <<app, store, disabled, owner, raced, calm>>
  PROVE  IInv'
<1> USE DEF IInv
<1> DEFINE y == [tabs[t] EXCEPT !.calls = @ \cup {r}]
<1>1. tabs[t] \in TabState /\ tabs' = [tabs EXCEPT ![t] = y]
  BY DEF TypeOK
<1>2. /\ y \in TabState /\ (WakeTab(tabs[t]) => WakeTab(y))
      /\ \A w : OwnTab(tabs[t], w) /\ (r.kind \in {"me", "profile"} => r.who \in {w, Nobody}) => OwnTab(y, w)
      /\ \A s : KeptTab(tabs[t], s) => KeptTab(y, s)
  BY <1>1, OneMore
<1>3. WakeTab(tabs[t])
  BY DEF Waits
<1>4. ~raced => store.who = owner /\ store.user \in {owner, Nobody} /\ OwnTab(tabs[t], owner)
  BY DEF Owned
<1>5. calm => store.who # Nobody /\ disabled = {} /\ KeptTab(tabs[t], store)
  BY DEF Kept
<1> HIDE DEF y
<1>6. ~raced => OwnTab(y, owner)
  BY <1>2, <1>4
<1>7. calm => KeptTab(y, store)
  BY <1>2, <1>5
<1>8. /\ store' \in Storage /\ app' = app /\ disabled' \subseteq Users /\ owner' \in Anybody
      /\ raced' \in BOOLEAN /\ calm' \in BOOLEAN
  BY DEF TypeOK, Anybody
<1>9. /\ owner' = owner /\ raced' = raced
      /\ ~raced => store'.who = owner /\ store'.user \in {owner, Nobody} /\ OwnTab(y, owner)
  BY <1>4, <1>6
<1>10. calm' => /\ calm /\ disabled' = {} /\ store'.who # Nobody /\ KeptTab(y, store')
                /\ store'.user = Nobody => store.user = Nobody
  BY <1>5, <1>7
<1>11. y \in TabState /\ WakeTab(y)
  BY <1>2, <1>3
<1> HIDE DEF IInv
<1> QED
  BY <1>1, <1>8, <1>9, <1>10, <1>11, Stepped

LEMMA LoginKeeps ==
  ASSUME IInv, NEW t \in Tabs, handleLogin(t)
  PROVE  IInv'
<1>1. PICK u \in Users : tabs' = [tabs EXCEPT ![t].calls = @ \cup {loginRequest(u)}]
  BY DEF handleLogin, LoginPage, AdminLoginPage
<1>2. /\ loginRequest(u) \in Request /\ ~loginRequest(u).waiting /\ loginRequest(u).sends = 1
      /\ loginRequest(u).kind = "login"
  BY DEF loginRequest, Request, Kinds
<1>3. left' \in 0 .. MaxSteps
  BY Spent DEF handleLogin, Acts, IInv
<1> QED
  BY <1>1, <1>2, <1>3, SendKeeps DEF handleLogin

LEMMA UseKeeps ==
  ASSUME IInv, NEW t \in Tabs, Use(t) \/ Poll(t)
  PROVE  IInv'
<1>1. PICK kind \in {"page", "profile"} :
        tabs' = [tabs EXCEPT ![t].calls = @ \cup {apiRequest(kind, store)}]
  BY DEF Use, Poll
<1>2. store \in Storage /\ kind \in Kinds
  BY DEF IInv, TypeOK, Kinds
<1>3. left' \in 0 .. MaxSteps
  BY Spent DEF Use, Poll, Acts, IInv, TypeOK
<1> QED
  BY <1>1, <1>2, <1>3, RequestType, SendKeeps DEF Use, Poll

\* Tab t goes on as x with the storage cleared, when that is no surprise.
LEMMA ClearKeeps ==
  ASSUME IInv, NEW t \in Tabs, NEW x \in TabState, WakeTab(x), Step(t, clearAuthState, x), SignedOut,
         app' = app, disabled' \subseteq Users, left' \in 0 .. MaxSteps, calm' = FALSE
  PROVE  IInv'
<1> DEFINE y == Rendered(x, clearAuthState)
<1>1. Grown(x, y, clearAuthState)
  BY StorageTypes, RenderGrows
<1>2. y \in TabState /\ WakeTab(y)
  BY <1>1, GrownKeeps DEF Grown
<1>3. tabs' = [tabs EXCEPT ![t] = y] /\ store' = clearAuthState
  BY DEF Step
<1>4. owner' = Nobody /\ raced' = Writers(tabs') /\ raced' \in BOOLEAN
  BY DEF SignedOut, Writers
<1> HIDE DEF y
<1> QED
  BY <1>2, <1>3, <1>4, StorageTypes, Stepped DEF Anybody

LEMMA LogoutKeeps ==
  ASSUME IInv, NEW t \in Tabs, logout(t)
  PROVE  IInv'
<1> DEFINE x == [tabs[t] EXCEPT !.view = "login"]
<1>1. tabs[t] \in TabState /\ WakeTab(tabs[t])
  BY DEF IInv, TypeOK, Waits
<1>2. x \in TabState /\ x.calls = tabs[t].calls /\ x.refresh = tabs[t].refresh
  BY <1>1 DEF TabState
<1>3. WakeTab(x)
  BY <1>1, <1>2 DEF WakeTab
<1>4. Step(t, clearAuthState, x) /\ SignedOut /\ calm' = FALSE /\ app' = app /\ disabled' = disabled
  BY DEF logout
<1>5. left' \in 0 .. MaxSteps /\ disabled \subseteq Users
  BY Spent DEF logout, IInv, TypeOK
<1> HIDE DEF x
<1> QED
  BY <1>2, <1>3, <1>4, <1>5, ClearKeeps

\* Tab t goes on as x and renders storage s, which it has written or noticed.
LEMMA StepKeeps ==
  ASSUME IInv, NEW t \in Tabs, NEW s \in Storage, NEW x \in TabState, WakeTab(x), Step(t, s, x),
         UNCHANGED <<app, disabled, left, calm>>,
         \/ /\ owner' = owner /\ raced' = raced
            /\ ~raced => s.who = owner /\ s.user \in {owner, Nobody} /\ OwnTab(x, owner)
         \/ owner' \in Users /\ raced' = Writers(tabs') /\ s.who = owner' /\ s.user = owner',
         calm => /\ s.who # Nobody
                 /\ x.view = "login" => x.seen = Nobody
                 /\ \A c \in x.calls : c.sends = 2 => c.live /\ c.who # Nobody
                 /\ s.user = Nobody => store.user = Nobody
  PROVE  IInv'
<1> DEFINE y == Rendered(x, s)
<1>1. Grown(x, y, s)
  BY RenderGrows
<1>2. y \in TabState /\ WakeTab(y) /\ (OwnTab(x, s.who) => OwnTab(y, s.who))
  BY <1>1, GrownKeeps DEF Grown
<1>3. tabs' = [tabs EXCEPT ![t] = y] /\ store' = s
  BY DEF Step
<1>4. calm => KeptTab(y, s)
  BY RenderKeeps
<1>5. /\ app' = app /\ disabled' \subseteq Users /\ left' \in 0 .. MaxSteps /\ calm' \in BOOLEAN
      /\ owner' \in Anybody /\ raced' \in BOOLEAN
  BY DEF IInv, TypeOK, Anybody, Writers
<1>6. calm => disabled = {}
  BY DEF IInv, Kept
<1> HIDE DEF y
<1>7. \/ /\ owner' = owner /\ raced' = raced
         /\ ~raced => store'.who = owner /\ store'.user \in {owner, Nobody} /\ OwnTab(y, owner)
      \/ raced' = Writers(tabs') /\ store'.who = owner' /\ store'.user \in {owner', Nobody}
  BY <1>2, <1>3
<1>8. calm' => /\ calm /\ disabled' = {} /\ store'.who # Nobody /\ KeptTab(y, store')
               /\ store'.user = Nobody => store.user = Nobody
  BY <1>3, <1>4, <1>6
<1> QED
  BY <1>2, <1>3, <1>5, <1>7, <1>8, Stepped

\* Tab t goes on as y, and the storage is left alone.
LEMMA AloneKeeps ==
  ASSUME IInv, NEW t \in Tabs, NEW y \in TabState, WakeTab(y), tabs' = [tabs EXCEPT ![t] = y],
         UNCHANGED <<app, store, disabled, owner, raced>>, left' \in 0 .. MaxSteps, calm' \in {calm, FALSE},
         ~raced => OwnTab(y, owner),
         calm' => KeptTab(y, store)
  PROVE  IInv'
<1>1. /\ store' \in Storage /\ disabled' \subseteq Users /\ owner' \in Anybody /\ raced' \in BOOLEAN
      /\ calm' \in BOOLEAN
  BY DEF IInv, TypeOK, Anybody
<1>2. /\ ~raced => store'.who = owner /\ store'.user \in {owner, Nobody}
      /\ calm => store.who # Nobody /\ disabled = {}
  BY DEF IInv, Owned, Kept
<1>3. calm' => /\ calm /\ disabled' = {} /\ store'.who # Nobody /\ KeptTab(y, store')
               /\ store'.user = Nobody => store.user = Nobody
  BY <1>2
<1> QED
  BY <1>1, <1>2, <1>3, Stepped

\* What the invariant says of one tab.
LEMMA TabFacts ==
  ASSUME IInv, NEW t \in Tabs
  PROVE  /\ store \in Storage /\ tabs[t] \in TabState /\ WakeTab(tabs[t])
         /\ ~raced => store.who = owner /\ store.user \in {owner, Nobody} /\ OwnTab(tabs[t], owner)
         /\ calm => store.who # Nobody /\ disabled = {} /\ KeptTab(tabs[t], store)
         /\ calm \in BOOLEAN /\ left \in 0 .. MaxSteps /\ disabled \subseteq Users
         /\ \A c \in tabs[t].calls : c \in Request
  BY DEF IInv, TypeOK, Waits, Owned, Kept, TabState

LEMMA NoticeKeeps ==
  ASSUME IInv, NEW t \in Tabs, Notice(t)
  PROVE  IInv'
<1>1. Step(t, store, tabs[t]) /\ UNCHANGED <<app, disabled, left, owner, raced, calm>>
  BY DEF Notice
<1>2. calm => /\ store.who # Nobody
              /\ tabs[t].view = "login" => tabs[t].seen = Nobody
              /\ \A c \in tabs[t].calls : c.sends = 2 => c.live /\ c.who # Nobody
  BY TabFacts DEF KeptTab
<1> QED
  BY <1>1, <1>2, TabFacts, StepKeeps

LEMMA AnsweredKeeps ==
  ASSUME IInv, NEW t \in Tabs, NEW c \in tabs[t].calls, Answered(t, c)
  PROVE  IInv'
<1> DEFINE x == Without(t, c)
<1>1. /\ x \in TabState /\ x.seen = tabs[t].seen /\ x.view = tabs[t].view /\ WakeTab(x)
      /\ ~raced => OwnTab(x, owner)
      /\ calm => KeptTab(x, store)
  BY OneLess, TabFacts DEF IInv
<1>2. c.who \in Users /\ c.kind \in Kinds
  <2>1. c.who \in Users \cup {Nobody} /\ c.kind \in Kinds
    BY TabFacts DEF Request
  <2> QED
    BY <2>1 DEF Answered, authenticate_user, get_current_active_user
<1>3. UNCHANGED <<app, disabled, left, calm>>
  BY DEF Answered
<1>4. calm => /\ x.view = "login" => x.seen = Nobody
              /\ \A d \in x.calls : d.sends = 2 => d.live /\ d.who # Nobody
  BY <1>1 DEF KeptTab
<1> HIDE DEF x
<1>5. CASE c.kind = "login"
  <2> DEFINE s == applyAuthSession(c.who)
             y == ShowPages(x, s)
  <2>1. s \in Storage /\ s.user = c.who /\ s.who = c.who
    BY <1>2, StorageTypes
  <2>2. Step(t, s, y) /\ owner' = c.who /\ raced' = Writers(tabs')
    BY <1>5 DEF Answered, SignedIn, x
  <2> HIDE DEF s
  <2>3. Grown(x, y, s) /\ y.view = "pages"
    BY <1>1, <2>1, PagesGrow
  <2>4. y \in TabState /\ WakeTab(y)
    BY <1>1, <2>3, GrownKeeps DEF Grown
  <2>5. calm => \A d \in y.calls : d.sends = 2 => d.live /\ d.who # Nobody
    BY <1>4, <2>3, GrownKeeps
  <2>6. c.who # Nobody
    BY <1>2, SessionAssumption
  <2> HIDE DEF y
  <2> QED
    BY <1>2, <1>3, <2>1, <2>2, <2>3, <2>4, <2>5, <2>6, StepKeeps
<1>6. CASE c.kind \in {"me", "profile"}
  <2> DEFINE s == setSessionUser(store, c.who)
  <2>1. s \in Storage /\ s.user = c.who /\ s.who = store.who /\ c.who # Nobody
    BY <1>2, StorageTypes, TabFacts, SessionAssumption DEF Anybody
  <2>2. owner' = owner /\ raced' = raced
    BY <1>6 DEF Answered
  <2>3. ~raced => s.who = owner /\ s.user \in {owner, Nobody}
    BY <1>6, <2>1, TabFacts DEF OwnTab
  <2>4. calm => s.who # Nobody
    BY <2>1, TabFacts
  <2>5. Step(t, s, x) \/ Step(t, s, ShowPages(Rendered(x, s), s))
    BY <1>6 DEF Answered, x
  <2> HIDE DEF s
  <2>6. CASE Step(t, s, x)
    BY <1>1, <1>3, <1>4, <2>1, <2>2, <2>3, <2>4, <2>6, StepKeeps
  <2>7. CASE Step(t, s, ShowPages(Rendered(x, s), s))
    <3> DEFINE r == Rendered(x, s)
               y == ShowPages(r, s)
    <3>1. Grown(x, r, s) /\ r \in TabState
      BY <1>1, <2>1, RenderGrows DEF Grown
    <3>2. Grown(r, y, s) /\ y.view = "pages"
      BY <2>1, <3>1, PagesGrow
    <3>3. y \in TabState /\ WakeTab(y)
      BY <1>1, <3>1, <3>2, GrownKeeps DEF Grown
    <3>4. ~raced => OwnTab(y, owner)
      BY <1>1, <2>3, <3>1, <3>2, GrownKeeps
    <3>5. calm => \A d \in y.calls : d.sends = 2 => d.live /\ d.who # Nobody
      BY <1>4, <3>1, <3>2, GrownKeeps
    <3>6. Step(t, s, y)
      BY <2>7
    <3> HIDE DEF y
    <3> QED
      BY <1>3, <2>1, <2>2, <2>3, <2>4, <3>2, <3>3, <3>4, <3>5, <3>6, StepKeeps
  <2> QED
    BY <2>5, <2>6, <2>7
<1>7. CASE c.kind = "page"
  <2>1. tabs' = [tabs EXCEPT ![t] = x] /\ UNCHANGED <<store, owner, raced>>
    BY <1>7 DEF Answered, x
  <2> QED
    BY <1>1, <1>3, <2>1, TabFacts, AloneKeeps
<1> QED
  BY <1>2, <1>5, <1>6, <1>7 DEF Kinds

LEMMA UnknownType ==
  ASSUME NEW x \in TabState, NEW c
  PROVE  LET y == Unknown(x, c) IN
         y \in TabState /\ y.calls = x.calls /\ y.refresh = x.refresh
  BY DEF Unknown, TabState

\* A tab whose request c ends without an answer.
LEMMA Lost ==
  ASSUME IInv, NEW t \in Tabs, NEW c
  PROVE  LET y == Unknown(Without(t, c), c) IN
         y \in TabState /\ WakeTab(y) /\ (~raced => OwnTab(y, owner))
<1> DEFINE x == Without(t, c)
           y == Unknown(x, c)
<1>1. x \in TabState /\ WakeTab(x) /\ (~raced => OwnTab(x, owner))
  BY OneLess, TabFacts DEF IInv
<1> HIDE DEF x
<1>2. y \in TabState /\ y.calls = x.calls /\ y.refresh = x.refresh
  BY <1>1, UnknownType
<1> HIDE DEF y
<1>3. y \in TabState /\ WakeTab(y) /\ (~raced => OwnTab(y, owner))
  BY <1>1, <1>2 DEF WakeTab, OwnTab
<1> QED
  BY <1>3 DEF x, y

LEMMA UnauthorizedKeeps ==
  ASSUME IInv, NEW t \in Tabs, NEW c \in tabs[t].calls, Unauthorized(t, c)
  PROVE  IInv'
<1>1. /\ c \in Request /\ c.kind # "login"
      /\ c.who = Nobody \/ ~c.live \/ c.who \in disabled
  BY TabFacts DEF Unauthorized
<1>2. UNCHANGED <<app, disabled, left, calm>>
  BY DEF Unauthorized
<1>3. ~renews(c) => c.sends = 2
  BY <1>1 DEF renews, Request
<1>4. ~renews(c) => ~calm
  BY <1>1, <1>3, TabFacts DEF KeptTab
<1>5. CASE renews(c) /\ store.who # Nobody
  <2> DEFINE d == [c EXCEPT !.waiting = TRUE]
             cs == (tabs[t].calls \ {c}) \cup {d}
             r == IF tabs[t].refresh = Nobody THEN store.who ELSE tabs[t].refresh
             y == [tabs[t] EXCEPT !.calls = cs, !.refresh = r]
  <2>1. /\ tabs' = [tabs EXCEPT ![t].calls = (@ \ {c}) \cup {d},
                                ![t].refresh = IF @ = Nobody THEN store.who ELSE @]
        /\ UNCHANGED <<store, owner, raced>>
    BY <1>5 DEF Unauthorized
  <2>2. tabs' = [tabs EXCEPT ![t] = y]
    BY <2>1 DEF IInv, TypeOK, TabState
  <2>3. d \in Request /\ d.kind = c.kind /\ d.who = c.who /\ d.sends = 1 /\ d.live = c.live
    BY <1>1, <1>5 DEF Request, renews
  <2>4. store.who \in Users \cup {Nobody} /\ tabs[t].calls \subseteq Request /\ tabs[t].refresh \in Users \cup {Nobody}
    BY TabFacts DEF Storage, TabState
  <2>5. cs \subseteq Request /\ \A e \in cs : e \in tabs[t].calls \/ e = d
    BY <2>3, <2>4
  <2>6. r \in Users \cup {Nobody} /\ r # Nobody /\ r \in {store.who, tabs[t].refresh}
    BY <1>5, <2>4
  <2> HIDE DEF d, cs, r
  <2>7. /\ y \in TabState /\ y.calls = cs /\ y.refresh = r
        /\ y.view = tabs[t].view /\ y.seen = tabs[t].seen
    BY <2>5, <2>6, TabFacts DEF TabState
  <2> HIDE DEF y
  <2>8. WakeTab(y)
    BY <2>3, <2>5, <2>6, <2>7, TabFacts DEF WakeTab
  <2>9. ~raced => OwnTab(y, owner)
    BY <2>3, <2>5, <2>6, <2>7, TabFacts DEF OwnTab
  <2>10. calm => KeptTab(y, store)
    BY <2>3, <2>5, <2>7, TabFacts DEF KeptTab
  <2>11. left' \in 0 .. MaxSteps /\ calm' \in {calm, FALSE}
    BY <1>2, TabFacts
  <2> QED
    BY <1>2, <2>1, <2>2, <2>7, <2>8, <2>9, <2>10, <2>11, AloneKeeps
<1>6. CASE ~(renews(c) /\ store.who # Nobody) /\ (renews(c) \/ c.kind = "me")
  <2> DEFINE y == Unknown(Without(t, c), c)
  <2>1. Step(t, clearAuthState, y) /\ SignedOut
    BY <1>6 DEF Unauthorized
  <2>2. ~calm
    BY <1>4, <1>6, TabFacts
  <2>3. y \in TabState /\ WakeTab(y)
    BY Lost
  <2>4. calm' = FALSE /\ left' \in 0 .. MaxSteps /\ disabled' \subseteq Users
    BY <1>2, <2>2, TabFacts
  <2> HIDE DEF y
  <2> QED
    BY <1>2, <2>1, <2>3, <2>4, ClearKeeps
<1>7. CASE ~renews(c) /\ c.kind # "me"
  <2> DEFINE y == Without(t, c)
  <2>1. tabs' = [tabs EXCEPT ![t] = y] /\ UNCHANGED <<store, owner, raced>>
    BY <1>7 DEF Unauthorized
  <2>2. y \in TabState /\ WakeTab(y) /\ (~raced => OwnTab(y, owner)) /\ (calm => KeptTab(y, store))
    BY OneLess, TabFacts DEF IInv
  <2>3. left' \in 0 .. MaxSteps /\ calm' \in {calm, FALSE}
    BY <1>2, TabFacts
  <2> HIDE DEF y
  <2> QED
    BY <1>2, <2>1, <2>2, <2>3, AloneKeeps
<1> QED
  BY <1>5, <1>6, <1>7

LEMMA FailedKeeps ==
  ASSUME IInv, NEW t \in Tabs, NEW c \in tabs[t].calls, Failed(t, c)
  PROVE  IInv'
<1> DEFINE y == Unknown(Without(t, c), c)
<1>1. y \in TabState /\ WakeTab(y) /\ (~raced => OwnTab(y, owner))
  BY Lost
<1>2. calm' = FALSE /\ left' \in 0 .. MaxSteps
  <2>1. CASE c.who \in disabled /\ UNCHANGED <<left, calm>>
    BY <2>1, TabFacts
  <2>2. CASE left > 0 /\ left' = left - 1 /\ calm' = FALSE
    BY <2>2, Spent DEF IInv
  <2> QED
    BY <2>1, <2>2 DEF Failed
<1>3. UNCHANGED <<app, disabled>> /\ disabled \subseteq Users
  BY TabFacts DEF Failed
<1>4. \/ Step(t, clearAuthState, y) /\ SignedOut
      \/ tabs' = [tabs EXCEPT ![t] = y] /\ UNCHANGED <<store, owner, raced>>
  BY DEF Failed
<1> HIDE DEF y
<1>5. CASE Step(t, clearAuthState, y) /\ SignedOut
  BY <1>1, <1>2, <1>3, <1>5, ClearKeeps
<1>6. CASE tabs' = [tabs EXCEPT ![t] = y] /\ UNCHANGED <<store, owner, raced>>
  BY <1>1, <1>2, <1>3, <1>6, AloneKeeps
<1> QED
  BY <1>4, <1>5, <1>6

\* Every request that waited for the refresh is sent again, for the second time.
LEMMA RetriedType ==
  ASSUME IInv, NEW t \in Tabs, NEW s \in Storage
  PROVE  LET x == Retried(t, s) IN
         /\ x \in TabState /\ x.view = tabs[t].view /\ x.seen = tabs[t].seen /\ x.refresh = Nobody
         /\ \A c \in x.calls : /\ ~c.waiting
                               /\ \/ c \in tabs[t].calls
                                  \/ c.who = s.who /\ c.live = s.live
<1> DEFINE new(c) == [apiRequest(c.kind, s) EXCEPT !.sends = c.sends + 1]
           cs == {IF c.waiting THEN new(c) ELSE c : c \in tabs[t].calls}
           x == [tabs[t] EXCEPT !.refresh = Nobody, !.calls = cs]
<1>1. x = Retried(t, s)
  BY DEF Retried
<1>2. ASSUME NEW c \in tabs[t].calls, c.waiting
      PROVE  new(c) \in Request /\ ~new(c).waiting /\ new(c).who = s.who /\ new(c).live = s.live
  <2>1. c.sends = 1 /\ c.kind \in Kinds
    BY <1>2, TabFacts DEF WakeTab, Request
  <2> DEFINE r == apiRequest(c.kind, s)
  <2>2. r \in Request /\ ~r.waiting /\ r.who = s.who /\ r.live = s.live
    BY <2>1, RequestType
  <2>3. new(c) = [r EXCEPT !.sends = 2]
    BY <2>1
  <2> HIDE DEF new, r
  <2> QED
    BY <2>2, <2>3 DEF Request
<1> HIDE DEF new
<1>3. \A c \in cs : /\ c \in Request /\ ~c.waiting
                    /\ c \in tabs[t].calls \/ (c.who = s.who /\ c.live = s.live)
  BY <1>2, TabFacts
<1>4. cs \subseteq Request
  BY <1>3
<1> HIDE DEF cs
<1>5. /\ x \in TabState /\ x.calls = cs /\ x.view = tabs[t].view /\ x.seen = tabs[t].seen
      /\ x.refresh = Nobody
  BY <1>4, TabFacts DEF TabState
<1> QED
  BY <1>1, <1>3, <1>5

LEMMA RenewedKeeps ==
  ASSUME IInv, NEW t \in Tabs, Renewed(t)
  PROVE  IInv'
<1> DEFINE u == tabs[t].refresh
           s == applyAuthSession(u)
           x == Retried(t, s)
<1>1. /\ u \in Users /\ Step(t, s, x) /\ owner' = owner /\ raced' = raced
      /\ UNCHANGED <<app, disabled, left, calm>>
  BY DEF Renewed, refresh_access_token
<1>2. s \in Storage /\ s.user = u /\ s.who = u /\ s.live /\ u # Nobody
  BY <1>1, StorageTypes, SessionAssumption
<1>3. ~raced => u = owner
  BY <1>2, TabFacts DEF OwnTab
<1>4. calm => /\ tabs[t].view = "login" => tabs[t].seen = Nobody
              /\ \A c \in tabs[t].calls : c.sends = 2 => c.live /\ c.who # Nobody
  BY TabFacts DEF KeptTab
<1>5. ~raced => OwnTab(tabs[t], owner)
  BY TabFacts
<1> HIDE DEF s
<1>6. /\ x \in TabState /\ x.view = tabs[t].view /\ x.seen = tabs[t].seen /\ x.refresh = Nobody
      /\ \A c \in x.calls : ~c.waiting /\ (c \in tabs[t].calls \/ (c.who = s.who /\ c.live = s.live))
  BY <1>2, RetriedType
<1> HIDE DEF u, x
<1>7. WakeTab(x) /\ (~raced => OwnTab(x, owner))
  BY <1>2, <1>3, <1>5, <1>6 DEF WakeTab, OwnTab
<1>8. calm => /\ x.view = "login" => x.seen = Nobody
              /\ \A c \in x.calls : c.sends = 2 => c.live /\ c.who # Nobody
  BY <1>2, <1>4, <1>6
<1> QED
  BY <1>1, <1>2, <1>3, <1>6, <1>7, <1>8, StepKeeps

LEMMA WokenType ==
  ASSUME IInv, NEW t \in Tabs
  PROVE  LET y == Woken(t) IN y \in TabState /\ WakeTab(y) /\ (~raced => OwnTab(y, owner))
<1> DEFINE cs == {c \in tabs[t].calls : ~c.waiting}
           x == [tabs[t] EXCEPT !.refresh = Nobody, !.calls = cs]
           z == [x EXCEPT !.view = "login"]
<1>1. Woken(t) \in {x, z}
  BY DEF Woken
<1>2. cs \subseteq tabs[t].calls /\ \A c \in cs : ~c.waiting
  OBVIOUS
<1> HIDE DEF cs
<1>3. x \in TabState /\ x.calls = cs /\ x.refresh = Nobody
  BY <1>2, TabFacts DEF TabState
<1> HIDE DEF x
<1>4. z \in TabState /\ z.calls = cs /\ z.refresh = Nobody
  BY <1>3 DEF TabState
<1> HIDE DEF z
<1> DEFINE y == Woken(t)
<1>5. y \in TabState /\ y.calls = cs /\ y.refresh = Nobody
  BY <1>1, <1>3, <1>4
<1> HIDE DEF y
<1>6. WakeTab(y) /\ (~raced => OwnTab(y, owner))
  BY <1>2, <1>5, TabFacts DEF WakeTab, OwnTab
<1> QED
  BY <1>5, <1>6 DEF y

LEMMA NotRenewedKeeps ==
  ASSUME IInv, NEW t \in Tabs, NotRenewed(t)
  PROVE  IInv'
<1> DEFINE y == Woken(t)
<1>1. y \in TabState /\ WakeTab(y) /\ (~raced => OwnTab(y, owner))
  BY WokenType
<1>2. calm' = FALSE /\ left' \in 0 .. MaxSteps
  <2>1. CASE tabs[t].refresh \in disabled /\ UNCHANGED <<left, calm>>
    BY <2>1, TabFacts
  <2>2. CASE left > 0 /\ left' = left - 1 /\ calm' = FALSE
    BY <2>2, Spent DEF IInv
  <2> QED
    BY <2>1, <2>2 DEF NotRenewed
<1>3. UNCHANGED <<app, disabled>> /\ disabled \subseteq Users
  BY TabFacts DEF NotRenewed
<1>4. \/ Step(t, clearAuthState, y) /\ SignedOut
      \/ tabs' = [tabs EXCEPT ![t] = y] /\ UNCHANGED <<store, owner, raced>>
  BY DEF NotRenewed
<1> HIDE DEF y
<1>5. CASE Step(t, clearAuthState, y) /\ SignedOut
  BY <1>1, <1>2, <1>3, <1>5, ClearKeeps
<1>6. CASE tabs' = [tabs EXCEPT ![t] = y] /\ UNCHANGED <<store, owner, raced>>
  BY <1>1, <1>2, <1>3, <1>6, AloneKeeps
<1> QED
  BY <1>4, <1>5, <1>6

LEMMA ExpireKeeps ==
  ASSUME IInv, Expire
  PROVE  IInv'
<1> DEFINE old(c) == [c EXCEPT !.live = c.kind = "login"]
           x(t) == [tabs[t] EXCEPT !.calls = {old(c) : c \in tabs[t].calls}]
<1>1. tabs' = [t \in Tabs |-> x(t)]
  BY DEF Expire
<1>2. ASSUME NEW t \in Tabs
      PROVE  /\ x(t) \in TabState /\ x(t).refresh = tabs[t].refresh
             /\ x(t).view = tabs[t].view /\ x(t).seen = tabs[t].seen
             /\ \A d \in x(t).calls : \E c \in tabs[t].calls :
                  /\ d.kind = c.kind /\ d.who = c.who /\ d.sends = c.sends /\ d.waiting = c.waiting
  <2> DEFINE cs == {old(c) : c \in tabs[t].calls}
  <2>1. ASSUME NEW c \in tabs[t].calls
        PROVE  /\ old(c) \in Request /\ old(c).kind = c.kind /\ old(c).who = c.who
               /\ old(c).sends = c.sends /\ old(c).waiting = c.waiting
    <3>1. c \in Request /\ (c.kind = "login") \in BOOLEAN
      BY TabFacts
    <3> QED
      BY <3>1 DEF Request
  <2> HIDE DEF old
  <2>2. /\ cs \subseteq Request
        /\ \A d \in cs : \E c \in tabs[t].calls :
             /\ d.kind = c.kind /\ d.who = c.who /\ d.sends = c.sends /\ d.waiting = c.waiting
    BY <2>1
  <2> HIDE DEF cs
  <2>3. x(t) = [tabs[t] EXCEPT !.calls = cs]
    BY DEF cs
  <2> HIDE DEF x
  <2> QED
    BY <2>2, <2>3, TabFacts DEF TabState
<1> HIDE DEF x, old
<1>3. calm' => calm /\ \A t \in Tabs : \A c \in tabs[t].calls : c.sends = 1
  BY DEF Expire
<1>4. left' \in 0 .. MaxSteps /\ calm' \in BOOLEAN
  <2>1. TypeOK
    BY DEF IInv
  <2>2. CASE UNCHANGED <<left, calm>>
    BY <2>1, <2>2 DEF TypeOK
  <2>3. CASE left > 0 /\ left' = left - 1 /\ calm' = FALSE
    BY <2>1, <2>3, Spent
  <2> QED
    BY <2>2, <2>3 DEF Expire
<1>5. /\ store' \in Storage /\ store'.who = store.who /\ store'.user = store.user
      /\ UNCHANGED <<app, disabled, owner, raced>>
  BY DEF Expire, IInv, TypeOK, Storage
<1>6. TypeOK'
  <2>1. TypeOK
    BY DEF IInv
  <2>2. tabs' \in [Tabs -> TabState]
    BY <1>1, <1>2
  <2> QED
    BY <1>4, <1>5, <2>1, <2>2 DEF TypeOK
<1>7. Waits'
  <2> SUFFICES ASSUME NEW t \in Tabs
               PROVE  WakeTab(x(t))
    BY <1>1 DEF Waits, WakeTab
  <2> QED
    BY <1>2, TabFacts DEF WakeTab
<1>8. Owned'
  <2> SUFFICES ASSUME ~raced, NEW t \in Tabs
               PROVE  OwnTab(x(t), owner)
    BY <1>1, <1>5 DEF Owned, OwnTab, IInv
  <2> QED
    BY <1>2, TabFacts DEF OwnTab
<1>9. Kept'
  <2> SUFFICES ASSUME calm, calm', NEW t \in Tabs
               PROVE  KeptTab(x(t), store')
    BY <1>1, <1>3, <1>5 DEF Kept, KeptTab, IInv
  <2> QED
    BY <1>2, <1>3, <1>5, TabFacts DEF KeptTab
<1> QED
  BY <1>6, <1>7, <1>8, <1>9 DEF IInv

LEMMA DisableKeeps ==
  ASSUME IInv, Disable
  PROVE  IInv'
<1>1. TypeOK'
  BY Spent DEF IInv, TypeOK, Disable
<1>2. Waits' /\ Owned' /\ Kept'
  BY DEF IInv, Disable, Waits, WakeTab, Owned, OwnTab, Kept
<1> QED
  BY <1>1, <1>2 DEF IInv

LEMMA InitKeeps ==
  ASSUME Init
  PROVE  IInv
<1>1. store \in Storage /\ store.user \in {store.who, Nobody} /\ store.who \in Anybody
  BY StorageTypes, SessionAssumption DEF Init, Storage, Anybody
<1>2. tabs = [t \in Tabs |-> Mounted(store, "loading")]
  BY DEF Init
<1>3. /\ Mounted(store, "loading") \in TabState /\ WakeTab(Mounted(store, "loading"))
      /\ OwnTab(Mounted(store, "loading"), store.who)
      /\ store.who # Nobody => KeptTab(Mounted(store, "loading"), store)
  BY <1>1, Mounting
<1>4. TypeOK
  <2>1. {raced, calm} \subseteq BOOLEAN
    BY DEF Init
  <2>2. tabs \in [Tabs -> TabState]
    BY <1>2, <1>3
  <2>3. left \in 0 .. MaxSteps
    BY SessionAssumption DEF Init
  <2>4. app \in {"web", "admin"} /\ disabled = {} /\ owner \in Anybody
    BY <1>1 DEF Init
  <2> QED
    BY <1>1, <2>1, <2>2, <2>3, <2>4 DEF TypeOK, Anybody
<1>5. Waits /\ Owned /\ Kept
  BY <1>1, <1>2, <1>3 DEF Init, Waits, Owned, Kept
<1> QED
  BY <1>4, <1>5 DEF IInv

\* The invariant is inductive, one step per action.
LEMMA Inductive ==
  ASSUME IInv, [Next]_vars
  PROVE  IInv'
<1>1. ASSUME NEW t \in Tabs, Open(t)
      PROVE  IInv'
  BY <1>1, OpenKeeps
<1>2. ASSUME NEW t \in Tabs, handleLogin(t)
      PROVE  IInv'
  BY <1>2, LoginKeeps
<1>3. ASSUME NEW t \in Tabs, Use(t) \/ Poll(t)
      PROVE  IInv'
  BY <1>3, UseKeeps
<1>4. ASSUME NEW t \in Tabs, logout(t)
      PROVE  IInv'
  BY <1>4, LogoutKeeps
<1>5. ASSUME NEW t \in Tabs, Notice(t)
      PROVE  IInv'
  BY <1>5, NoticeKeeps
<1>6. ASSUME NEW t \in Tabs, Answer(t)
      PROVE  IInv'
  BY <1>6, AnsweredKeeps, UnauthorizedKeeps, FailedKeeps DEF Answer
<1>7. ASSUME NEW t \in Tabs, RefreshEnds(t)
      PROVE  IInv'
  BY <1>7, RenewedKeeps, NotRenewedKeeps DEF RefreshEnds
<1>8. CASE Expire
  BY <1>8, ExpireKeeps
<1>9. CASE Disable
  BY <1>9, DisableKeeps
<1>10. CASE UNCHANGED vars
  BY <1>10 DEF vars, IInv, TypeOK, Waits, WakeTab, Owned, OwnTab, Kept, KeptTab
<1> QED
  BY <1>1, <1>2, <1>3, <1>4, <1>5, <1>6, <1>7, <1>8, <1>9, <1>10 DEF Next

LEMMA AlwaysIInv == Spec => []IInv
<1>1. Init => IInv
  BY InitKeeps
<1>2. IInv /\ [Next]_vars => IInv'
  BY Inductive
<1> QED
  BY <1>1, <1>2, PTL DEF Spec

-----------------------------------------------------------------------------
(* What the tabs show, whether or not an older answer is still out: a tab that *)
(* loads has asked for its user; the pages are those of a user; and the web    *)
(* application shows them to everybody it has seen.                            *)

AsksTab(x) == x.view = "loading" => \E c \in x.calls : c.kind = "me"

ShownTab(x) ==
  /\ AsksTab(x)
  /\ x.view = "pages" => x.seen # Nobody
  /\ app = "web" /\ x.view # "pages" => x.seen = Nobody

Shown == \A t \in Tabs : ShownTab(tabs[t])

LEMMA PagesShown ==
  ASSUME NEW x \in TabState, NEW s \in Storage
  PROVE  ShowPages(x, s).view = "pages" /\ ShowPages(x, s) \in TabState
  BY PagesGrow DEF Grown

LEMMA RenderShows ==
  ASSUME NEW x \in TabState, NEW s \in Storage, AsksTab(x), app \in {"web", "admin"},
         x.view = "pages" /\ s.user = Nobody => x.seen # Nobody
  PROVE  ShownTab(Rendered(x, s))
<1> DEFINE y == IF app = "web" THEN ProtectedRoute(x, s) ELSE AdminApp(x, s)
<1>1. y \in TabState
  BY RouteGrows, AdminGrows DEF Grown
<1>2. /\ AsksTab(y)
      /\ y.view = "pages" => s.user # Nobody
      /\ app = "web" /\ y.view # "pages" => s.user = Nobody
  <2>1. CASE app = "web" /\ s.user # Nobody
    BY <2>1, PagesShown DEF ProtectedRoute, AsksTab
  <2>2. CASE app = "web" /\ s.user = Nobody /\ (x.view = "login" \/ x.seen = Nobody)
    BY <2>2 DEF ProtectedRoute
  <2>3. CASE app = "web" /\ s.user = Nobody /\ ~(x.view = "login" \/ x.seen = Nobody)
    <3> DEFINE cs == IF s.who = Nobody THEN x.calls ELSE x.calls \cup {apiRequest("me", s)}
               v == IF x.view = "loading" /\ s.who # Nobody THEN x.view ELSE "login"
    <3>1. y = [x EXCEPT !.view = v, !.calls = cs]
      BY <2>3 DEF ProtectedRoute
    <3>2. v # "pages" /\ (v = "loading" => x.view = "loading") /\ x.calls \subseteq cs
      OBVIOUS
    <3> HIDE DEF v, cs
    <3>3. y.view = v /\ y.calls = cs
      BY <3>1 DEF TabState
    <3> QED
      BY <2>3, <3>2, <3>3 DEF AsksTab
  <2>4. CASE app = "admin" /\ (x.view = "loading" \/ s.user = x.seen)
    BY <2>4 DEF AdminApp
  <2>5. CASE app = "admin" /\ ~(x.view = "loading" \/ s.user = x.seen) /\ s.user # Nobody /\ s.who # Nobody
    BY <2>5, PagesShown DEF AdminApp, AsksTab
  <2>6. CASE app = "admin" /\ ~(x.view = "loading" \/ s.user = x.seen) /\ ~(s.user # Nobody /\ s.who # Nobody)
    BY <2>6 DEF AdminApp, AsksTab, TabState
  <2> QED
    BY <2>1, <2>2, <2>3, <2>4, <2>5, <2>6
<1>3. Rendered(x, s) = [y EXCEPT !.seen = s.user]
  BY DEF Rendered
<1> HIDE DEF y
<1>4. /\ Rendered(x, s).view = y.view /\ Rendered(x, s).calls = y.calls
      /\ Rendered(x, s).seen = s.user
  BY <1>1, <1>3 DEF TabState
<1> QED
  BY <1>2, <1>4 DEF ShownTab, AsksTab

\* A step that renders storage s, and one that leaves the storage alone.
LEMMA StepShows ==
  ASSUME IInv, Shown, app' = app, NEW t \in Tabs, NEW x \in TabState, NEW s \in Storage, Step(t, s, x),
         AsksTab(x), x.view = "pages" /\ s.user = Nobody => x.seen # Nobody
  PROVE  Shown'
<1>1. app \in {"web", "admin"} /\ tabs \in [Tabs -> TabState]
  BY DEF IInv, TypeOK
<1>2. ShownTab(Rendered(x, s))
  BY <1>1, RenderShows
<1> QED
  BY <1>1, <1>2 DEF Shown, ShownTab, AsksTab, Step

LEMMA AloneShows ==
  ASSUME IInv, Shown, app' = app, NEW t \in Tabs, NEW y, tabs' = [tabs EXCEPT ![t] = y], ShownTab(y)
  PROVE  Shown'
  BY DEF IInv, TypeOK, Shown, ShownTab, AsksTab

\* What of the request ends leaves of the tab.
LEMMA LostShows ==
  ASSUME IInv, Shown, NEW t \in Tabs, NEW c \in tabs[t].calls
  PROVE  /\ Unknown(Without(t, c), c) \in TabState
         /\ ShownTab(Unknown(Without(t, c), c))
         /\ c.kind # "me" => ShownTab(Without(t, c))
<1> DEFINE x == Without(t, c)
           y == [x EXCEPT !.view = "login"]
<1>1. /\ x \in TabState /\ x.seen = tabs[t].seen /\ x.view = tabs[t].view
      /\ x.calls = tabs[t].calls \ {c}
  BY OneLess DEF IInv
<1>2. ShownTab(tabs[t])
  BY DEF Shown
<1>3. Unknown(x, c) = IF c.kind = "me" /\ x.view = "loading" THEN y ELSE x
  BY DEF Unknown
<1> HIDE DEF x
<1>4. y \in TabState /\ y.view = "login" /\ y.seen = x.seen
  BY <1>1 DEF TabState
<1> HIDE DEF y
<1>5. c.kind # "me" => ShownTab(x)
  BY <1>1, <1>2 DEF ShownTab, AsksTab
<1>6. c.kind = "me" /\ x.view # "loading" => ShownTab(x)
  BY <1>1, <1>2 DEF ShownTab, AsksTab
<1>7. x.view = "loading" => ShownTab(y)
  BY <1>1, <1>2, <1>4 DEF ShownTab, AsksTab
<1> QED
  BY <1>1, <1>3, <1>4, <1>5, <1>6, <1>7 DEF x

LEMMA MountShows ==
  ASSUME store \in Storage, NEW path \in {"loading", "login"}, path = "login" => app = "web"
  PROVE  ShownTab(Mounted(store, path))
<1> DEFINE x == [view |-> path, seen |-> store.user, refresh |-> Nobody, calls |-> {}]
<1>1. x \in TabState
  BY DEF TabState, Storage
<1>2. CASE app = "web" /\ store.user # Nobody
  <2>1. Mounted(store, path) = ShowPages(x, store)
    BY <1>2 DEF Mounted
  <2>2. ShowPages(x, store).view = "pages" /\ ShowPages(x, store).seen = x.seen
    BY <1>1, PagesGrow
  <2> QED
    BY <1>2, <2>1, <2>2 DEF ShownTab, AsksTab
<1>3. CASE ~(app = "web" /\ store.user # Nobody) /\ (path = "login" \/ store.who = Nobody)
  BY <1>3 DEF Mounted, ShownTab, AsksTab
<1>4. CASE ~(app = "web" /\ store.user # Nobody) /\ ~(path = "login" \/ store.who = Nobody)
  BY <1>4 DEF Mounted, ShownTab, AsksTab, apiRequest
<1> QED
  BY <1>2, <1>3, <1>4

LEMMA InitShows ==
  ASSUME Init
  PROVE  Shown
<1>1. store \in Storage
  BY StorageTypes, SessionAssumption DEF Init, Anybody
<1> QED
  BY <1>1, MountShows DEF Init, Shown

\* A request is sent, which no tab waits for to show its pages.
LEMMA MoreShows ==
  ASSUME IInv, Shown, app' = app, NEW t \in Tabs, NEW r, tabs' = [tabs EXCEPT ![t].calls = @ \cup {r}]
  PROVE  Shown'
<1> DEFINE y == [tabs[t] EXCEPT !.calls = @ \cup {r}]
<1>1. tabs[t] \in TabState /\ ShownTab(tabs[t]) /\ tabs' = [tabs EXCEPT ![t] = y]
  BY DEF IInv, TypeOK, Shown
<1>2. /\ y.view = tabs[t].view /\ y.seen = tabs[t].seen
      /\ tabs[t].calls \subseteq y.calls
  BY <1>1 DEF TabState
<1> HIDE DEF y
<1> QED
  BY <1>1, <1>2, AloneShows DEF ShownTab, AsksTab

LEMMA LogoutShows ==
  ASSUME IInv, Shown, NEW t \in Tabs, logout(t)
  PROVE  Shown'
<1> DEFINE x == [tabs[t] EXCEPT !.view = "login"]
<1>1. x \in TabState /\ x.view = "login"
  BY DEF IInv, TypeOK, TabState
<1>2. Step(t, clearAuthState, x) /\ app' = app
  BY DEF logout
<1> HIDE DEF x
<1> QED
  BY <1>1, <1>2, StorageTypes, StepShows DEF AsksTab

LEMMA AnsweredShows ==
  ASSUME IInv, Shown, NEW t \in Tabs, NEW c \in tabs[t].calls, Answered(t, c)
  PROVE  Shown'
<1> DEFINE x == Without(t, c)
<1>1. x \in TabState /\ (x.view = "pages" => x.seen # Nobody)
  BY OneLess DEF IInv, Shown, ShownTab
<1>2. c.kind # "me" => ShownTab(x)
  BY LostShows
<1>3. c.who \in Users /\ c.kind \in Kinds /\ c.who # Nobody
  <2>1. c \in Request
    BY TabFacts
  <2> QED
    BY <2>1, SessionAssumption DEF Request, Answered, authenticate_user, get_current_active_user
<1>4. app' = app
  BY DEF Answered
<1> HIDE DEF x
<1>5. CASE c.kind = "login"
  <2> DEFINE s == applyAuthSession(c.who)
             y == ShowPages(x, s)
  <2>1. s \in Storage /\ s.user # Nobody
    BY <1>3, StorageTypes
  <2>2. Step(t, s, y)
    BY <1>5 DEF Answered, x
  <2> HIDE DEF s
  <2>3. y \in TabState /\ y.view = "pages"
    BY <1>1, <2>1, PagesShown
  <2> HIDE DEF y
  <2> QED
    BY <1>4, <2>1, <2>2, <2>3, StepShows DEF AsksTab
<1>6. CASE c.kind \in {"me", "profile"}
  <2> DEFINE s == setSessionUser(store, c.who)
  <2>1. s \in Storage /\ s.user # Nobody
    BY <1>3, StorageTypes, TabFacts DEF Anybody
  <2>2. \/ c.kind = "me" /\ app = "admin" /\ Step(t, s, ShowPages(Rendered(x, s), s))
        \/ (c.kind = "profile" \/ app # "admin") /\ Step(t, s, x)
    BY <1>6 DEF Answered, x
  <2> HIDE DEF s
  <2>3. CASE c.kind = "profile" /\ Step(t, s, x)
    BY <1>1, <1>2, <1>4, <2>1, <2>3, StepShows DEF ShownTab
  <2>4. CASE app # "admin" /\ Step(t, s, x)
    \* The web application turns to the pages.
    <3>1. app = "web" /\ tabs \in [Tabs -> TabState]
      BY <2>4 DEF IInv, TypeOK
    <3>2. ProtectedRoute(x, s) = ShowPages(x, s)
      BY <2>1 DEF ProtectedRoute
    <3>3. ProtectedRoute(x, s) \in TabState /\ ProtectedRoute(x, s).view = "pages"
      BY <1>1, <2>1, <3>2, PagesShown
    <3>4. Rendered(x, s).view = "pages" /\ Rendered(x, s).seen # Nobody
      BY <2>1, <3>1, <3>3 DEF Rendered, TabState
    <3>5. ShownTab(Rendered(x, s))
      BY <3>4 DEF ShownTab, AsksTab
    <3> QED
      BY <1>4, <2>4, <3>5, AloneShows DEF Step
  <2>5. CASE Step(t, s, ShowPages(Rendered(x, s), s))
    <3> DEFINE r == Rendered(x, s)
               y == ShowPages(r, s)
    <3>1. r \in TabState
      BY <1>1, <2>1, RenderGrows DEF Grown
    <3> HIDE DEF r
    <3>2. y \in TabState /\ y.view = "pages"
      BY <2>1, <3>1, PagesShown
    <3>3. Step(t, s, y)
      BY <2>5 DEF r
    <3> HIDE DEF y
    <3> QED
      BY <1>4, <2>1, <3>2, <3>3, StepShows DEF AsksTab
  <2> QED
    BY <2>2, <2>3, <2>4, <2>5
<1>7. CASE c.kind = "page"
  <2>1. tabs' = [tabs EXCEPT ![t] = x]
    BY <1>7 DEF Answered, x
  <2> QED
    BY <1>2, <1>4, <1>7, <2>1, AloneShows
<1> QED
  BY <1>3, <1>5, <1>6, <1>7 DEF Kinds

LEMMA UnauthorizedShows ==
  ASSUME IInv, Shown, NEW t \in Tabs, NEW c \in tabs[t].calls, Unauthorized(t, c)
  PROVE  Shown'
<1>1. app' = app
  BY DEF Unauthorized
<1>2. CASE renews(c) /\ store.who # Nobody
  <2> DEFINE d == [c EXCEPT !.waiting = TRUE]
             cs == (tabs[t].calls \ {c}) \cup {d}
             r == IF tabs[t].refresh = Nobody THEN store.who ELSE tabs[t].refresh
             y == [tabs[t] EXCEPT !.calls = cs, !.refresh = r]
  <2>1. tabs' = [tabs EXCEPT ![t] = y]
    BY <1>2 DEF Unauthorized, IInv, TypeOK, TabState
  <2>2. d.kind = c.kind
    BY TabFacts DEF Request
  <2> HIDE DEF d
  <2>3. \A e \in tabs[t].calls : \E f \in cs : f.kind = e.kind
    BY <2>2
  <2> HIDE DEF cs, r
  <2>4. y.calls = cs /\ y.view = tabs[t].view /\ y.seen = tabs[t].seen
    BY TabFacts DEF TabState
  <2> HIDE DEF y
  <2>5. ShownTab(y)
    BY <2>3, <2>4 DEF Shown, ShownTab, AsksTab
  <2> QED
    BY <1>1, <2>1, <2>5, AloneShows
<1>3. CASE ~(renews(c) /\ store.who # Nobody) /\ (renews(c) \/ c.kind = "me")
  <2> DEFINE y == Unknown(Without(t, c), c)
  <2>1. Step(t, clearAuthState, y)
    BY <1>3 DEF Unauthorized
  <2>2. y \in TabState /\ ShownTab(y)
    BY LostShows
  <2> HIDE DEF y
  <2> QED
    BY <1>1, <2>1, <2>2, StorageTypes, StepShows DEF ShownTab
<1>4. CASE ~renews(c) /\ c.kind # "me"
  <2>1. tabs' = [tabs EXCEPT ![t] = Without(t, c)]
    BY <1>4 DEF Unauthorized
  <2> QED
    BY <1>1, <1>4, <2>1, LostShows, AloneShows
<1> QED
  BY <1>2, <1>3, <1>4

LEMMA FailedShows ==
  ASSUME IInv, Shown, NEW t \in Tabs, NEW c \in tabs[t].calls, Failed(t, c)
  PROVE  Shown'
<1> DEFINE y == Unknown(Without(t, c), c)
<1>1. app' = app /\ (Step(t, clearAuthState, y) \/ tabs' = [tabs EXCEPT ![t] = y])
  BY DEF Failed
<1>2. y \in TabState /\ ShownTab(y)
  BY LostShows
<1> HIDE DEF y
<1> QED
  BY <1>1, <1>2, StorageTypes, StepShows, AloneShows DEF ShownTab

LEMMA RenewedShows ==
  ASSUME IInv, Shown, NEW t \in Tabs, Renewed(t)
  PROVE  Shown'
<1> DEFINE s == applyAuthSession(tabs[t].refresh)
           new(c) == IF c.waiting THEN [apiRequest(c.kind, s) EXCEPT !.sends = c.sends + 1] ELSE c
           x == Retried(t, s)
<1>1. app' = app /\ Step(t, s, x) /\ tabs[t].refresh \in Users
  BY DEF Renewed, refresh_access_token
<1>2. s \in Storage /\ s.user # Nobody
  BY <1>1, StorageTypes, SessionAssumption
<1>3. x \in TabState /\ x.view = tabs[t].view /\ x.seen = tabs[t].seen
  BY <1>2, RetriedType
<1>4. x.calls = {new(c) : c \in tabs[t].calls}
  BY TabFacts DEF Retried, TabState
<1>5. \A c \in tabs[t].calls : new(c).kind = c.kind
  BY DEF apiRequest
<1> HIDE DEF s, new, x
<1>6. AsksTab(x)
  BY <1>3, <1>4, <1>5 DEF Shown, ShownTab, AsksTab
<1> QED
  BY <1>1, <1>2, <1>6, <1>3, StepShows

LEMMA NotRenewedShows ==
  ASSUME IInv, Shown, NEW t \in Tabs, NotRenewed(t)
  PROVE  Shown'
<1> DEFINE cs == {c \in tabs[t].calls : ~c.waiting}
           x == [tabs[t] EXCEPT !.refresh = Nobody, !.calls = cs]
           z == [x EXCEPT !.view = "login"]
           y == Woken(t)
<1>1. app' = app /\ (Step(t, clearAuthState, y) \/ tabs' = [tabs EXCEPT ![t] = y])
  BY DEF NotRenewed
<1>2. y = IF MeWaits(t) /\ x.view = "loading" THEN z ELSE x
  BY DEF Woken
<1>3. ~MeWaits(t) => \A c \in tabs[t].calls : c.kind = "me" => c \in cs
  BY DEF MeWaits
<1>4. cs \subseteq tabs[t].calls
  OBVIOUS
<1> HIDE DEF cs, y
<1>5. x.view = tabs[t].view /\ x.seen = tabs[t].seen /\ x.calls = cs
  BY TabFacts DEF TabState
<1>6. z.view = "login" /\ z.seen = tabs[t].seen
  BY <1>5, TabFacts DEF TabState
<1> HIDE DEF x, z
<1>7. ShownTab(y)
  BY <1>2, <1>3, <1>5, <1>6 DEF Shown, ShownTab, AsksTab
<1>8. y \in TabState
  BY WokenType DEF y
<1> QED
  BY <1>1, <1>7, <1>8, StorageTypes, StepShows, AloneShows DEF ShownTab

LEMMA ExpireShows ==
  ASSUME IInv, Shown, Expire
  PROVE  Shown'
<1> DEFINE old(c) == [c EXCEPT !.live = c.kind = "login"]
           x(t) == [tabs[t] EXCEPT !.calls = {old(c) : c \in tabs[t].calls}]
<1>1. tabs' = [t \in Tabs |-> x(t)] /\ app' = app
  BY DEF Expire
<1>2. ASSUME NEW t \in Tabs
      PROVE  /\ x(t).view = tabs[t].view /\ x(t).seen = tabs[t].seen
             /\ \A c \in tabs[t].calls : \E d \in x(t).calls : d.kind = c.kind
  <2>1. \A c \in tabs[t].calls : old(c).kind = c.kind
    BY TabFacts DEF Request
  <2> HIDE DEF old
  <2>2. /\ x(t).view = tabs[t].view /\ x(t).seen = tabs[t].seen
        /\ x(t).calls = {old(c) : c \in tabs[t].calls}
    BY TabFacts DEF TabState
  <2> HIDE DEF x
  <2> QED
    BY <2>1, <2>2
<1> HIDE DEF x
<1> QED
  BY <1>1, <1>2 DEF Shown, ShownTab, AsksTab

LEMMA ShownNext ==
  ASSUME IInv, Shown, [Next]_vars
  PROVE  Shown'
<1>1. ASSUME NEW t \in Tabs, Open(t)
      PROVE  Shown'
  BY <1>1, MountShows, AloneShows DEF Open, IInv, TypeOK
<1>2. ASSUME NEW t \in Tabs, handleLogin(t) \/ Use(t) \/ Poll(t)
      PROVE  Shown'
  BY <1>2, MoreShows DEF handleLogin, Use, Poll
<1>3. ASSUME NEW t \in Tabs, Notice(t)
      PROVE  Shown'
  BY <1>3, TabFacts, StepShows DEF Notice, Shown, ShownTab
<1>4. ASSUME NEW t \in Tabs, Answer(t)
      PROVE  Shown'
  BY <1>4, AnsweredShows, UnauthorizedShows, FailedShows DEF Answer
<1>5. ASSUME NEW t \in Tabs, RefreshEnds(t)
      PROVE  Shown'
  BY <1>5, RenewedShows, NotRenewedShows DEF RefreshEnds
<1>6. CASE Expire
  BY <1>6, ExpireShows
<1>7. CASE Disable \/ UNCHANGED vars
  BY <1>7 DEF Disable, vars, Shown, ShownTab, AsksTab
<1> QED
  BY <1>1, <1>2, <1>3, <1>4, <1>5, <1>6, <1>7, LogoutShows DEF Next

-----------------------------------------------------------------------------
(* The results.                                                            *)

\* The storage, the tabs and their requests keep their types: no request is
\* sent a third time.
THEOREM SessionTypes == Spec => []TypeOK
<1>1. IInv => TypeOK
  BY DEF IInv
<1> QED
  BY <1>1, AlwaysIInv, PTL

\* Every request that waits does so for a refresh that goes on.
THEOREM NobodyLeftWaiting == Spec => []WaitersWake
<1>1. IInv => WaitersWake
  BY DEF IInv, Waits, WakeTab, WaitersWake
<1> QED
  BY <1>1, AlwaysIInv, PTL

\* Unless an answer of before is still out, the storage holds the session of
\* the one who signed in last, or none.
THEOREM SessionIsOwners == Spec => []OwnersSession
<1>1. IInv => OwnersSession
  BY DEF IInv, Owned, OwnersSession
<1> QED
  BY <1>1, AlwaysIInv, PTL

\* Expiring tokens alone sign nobody out.
THEOREM ExpiryKeepsSession == Spec => []StaysSignedIn
<1>1. IInv => StaysSignedIn
  BY DEF IInv, Kept, KeptTab, StaysSignedIn
<1> QED
  BY <1>1, AlwaysIInv, PTL

\* Unless an answer of before is still out, a tab at rest shows what the storage
\* says: it does not load for good, it has the pages open only for a user with
\* tokens, and the web application keeps nobody with a session on the login page.
THEOREM TabsShowTheSession == Spec => []ViewsAgree
<1>1. IInv /\ Shown => ViewsAgree
  BY DEF IInv, Owned, Shown, ShownTab, AsksTab, ViewsAgree, Rests
<1>2. Spec => []Shown
  BY InitShows, ShownNext, AlwaysIInv, PTL DEF Spec
<1> QED
  BY <1>1, <1>2, AlwaysIInv, PTL
=============================================================================

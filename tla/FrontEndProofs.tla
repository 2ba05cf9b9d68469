---------------------------- MODULE FrontEndProofs ----------------------------
(***************************************************************************)
(* Proofs about FrontEnd, for any finite set of ids, any rows at first, and*)
(* any number of steps and of requests in flight.                          *)
(***************************************************************************)
EXTENDS FrontEnd, FiniteSetTheorems, SequenceTheorems, WellFoundedInduction, TLAPS

-----------------------------------------------------------------------------
(* Sequences: the members at some positions, one removed, one selected.    *)

UpTo(P, i) == {j \in P : j <= i}

\* A set of numbers has a least one: from it follows what else would be said by
\* induction.
LEMMA WellOrdered ==
  ASSUME NEW T \in SUBSET Nat, T # {}
  PROVE  \E n \in T : \A m \in T : n <= m
<1>1. \A x, y \in Nat : <<x, y>> \in OpToRel(<, Nat) <=> x < y
  BY DEF OpToRel
<1>2. \E x \in T : \A y \in T : ~ (y < x)
  <2>1. \E x \in T : \A y \in T : ~ (<<y, x>> \in OpToRel(<, Nat))
    BY NatLessThanWellFounded, WFMin, Zenon
  <2>2. QED
    BY <1>1, <2>1, Zenon
<1>3. QED
  BY <1>2

LEMMA UpToFinite ==
  ASSUME NEW P \in SUBSET Nat, IsFiniteSet(P), NEW i
  PROVE  /\ IsFiniteSet(P) /\ Cardinality(P) \in Nat
         /\ IsFiniteSet(UpTo(P, i)) /\ Cardinality(UpTo(P, i)) \in Nat
         /\ Cardinality(UpTo(P, i)) <= Cardinality(P)
<1>1. UpTo(P, i) \subseteq P
  BY DEF UpTo
<1>2. QED
  BY <1>1, FS_Subset, FS_CardinalityType

LEMMA UpToGrows ==
  ASSUME NEW P \in SUBSET Nat, IsFiniteSet(P), NEW i \in P, NEW j \in P, i < j
  PROVE  Cardinality(UpTo(P, i)) < Cardinality(UpTo(P, j))
<1>1. \A p \in P : p \in Nat
  OBVIOUS
<1>2. ASSUME NEW p \in UpTo(P, i) PROVE p \in UpTo(P, j)
  <2>1. p \in P /\ p <= i
    BY DEF UpTo
  <2>2. p <= j
    BY <1>1, <2>1
  <2>3. QED
    BY <2>1, <2>2 DEF UpTo
<1>3. j \in UpTo(P, j) /\ j \notin UpTo(P, i)
  BY <1>1 DEF UpTo
<1>4. /\ IsFiniteSet(UpTo(P, j)) /\ Cardinality(UpTo(P, j)) \in Nat
      /\ Cardinality(UpTo(P, i)) \in Nat
  BY UpToFinite
<1>5. /\ Cardinality(UpTo(P, i)) <= Cardinality(UpTo(P, j))
      /\ Cardinality(UpTo(P, i)) # Cardinality(UpTo(P, j))
  BY <1>2, <1>3, <1>4, FS_Subset
<1>6. QED
  BY <1>4, <1>5

LEMMA NthExists ==
  ASSUME NEW P \in SUBSET Nat, IsFiniteSet(P)
  PROVE  \A k \in 1 .. Cardinality(P) : \E i \in P : Cardinality(UpTo(P, i)) = k
<1>0. Cardinality(P) \in Nat /\ IsFiniteSet(P)
  BY UpToFinite
<1> DEFINE Bad == {k \in 1 .. Cardinality(P) : \A i \in P : Cardinality(UpTo(P, i)) # k}
<1> SUFFICES ASSUME Bad # {} PROVE FALSE
  OBVIOUS
<1>1. PICK k \in Bad : \A m \in Bad : k <= m
  <2>1. Bad \in SUBSET Nat
    BY <1>0
  <2>2. QED
    BY <2>1, WellOrdered
<1>2. k \in 1 .. Cardinality(P) /\ k \in Nat
  BY <1>0
\* the members after those of the position before
<1>3. PICK Q \in SUBSET P : /\ P \ Q # {} /\ Cardinality(Q) = k - 1
                            /\ \A q \in Q, p \in P \ Q : q < p
  <2>1. CASE k = 1
    <3>1. P # {} /\ Cardinality({}) = 0
      BY <1>0, <1>2, FS_EmptySet
    <3>2. QED
      BY <2>1, <3>1
  <2>2. CASE k # 1
    <3>1. PICK i \in P : Cardinality(UpTo(P, i)) = k - 1
      <4>1. k - 1 \in 1 .. Cardinality(P) /\ k - 1 \notin Bad
        BY <1>0, <1>1, <1>2, <2>2
      <4>2. QED
        BY <4>1
    <3>2. UpTo(P, i) # P
      BY <1>0, <1>2, <3>1
    <3>3. \A q \in UpTo(P, i), p \in P \ UpTo(P, i) : q < p
      BY DEF UpTo
    <3>4. UpTo(P, i) \in SUBSET P
      BY DEF UpTo
    <3>5. QED
      BY <3>1, <3>2, <3>3, <3>4
  <2>3. QED
    BY <2>1, <2>2
<1>4. PICK i \in P \ Q : \A p \in P \ Q : i <= p
  <2>1. P \ Q \in SUBSET Nat /\ P \ Q # {}
    BY <1>3
  <2>2. QED
    BY <2>1, WellOrdered
<1>5. UpTo(P, i) = Q \cup {i} /\ i \notin Q
  <2>1. \A p \in P : p \in Nat
    OBVIOUS
  <2>2. \A p \in P : p \in UpTo(P, i) <=> p \in Q \cup {i}
    BY <1>3, <1>4, <2>1 DEF UpTo
  <2>3. UpTo(P, i) \subseteq P
    BY DEF UpTo
  <2>4. QED
    BY <1>4, <2>2, <2>3
<1>6. Cardinality(UpTo(P, i)) = k
  <2>1. IsFiniteSet(Q) /\ Cardinality(Q) = k - 1
    BY <1>0, <1>3, FS_Subset
  <2>2. Cardinality(Q \cup {i}) = Cardinality(Q) + 1
    BY <1>5, <2>1, FS_AddElement
  <2>3. QED
    BY <1>2, <1>5, <2>1, <2>2
<1>7. QED
  BY <1>1, <1>4, <1>6

LEMMA NthIs ==
  ASSUME NEW P \in SUBSET Nat, IsFiniteSet(P)
  PROVE  /\ \A k \in 1 .. Cardinality(P) : Nth(P, k) \in P /\ Cardinality(UpTo(P, Nth(P, k))) = k
         /\ \A j, k \in 1 .. Cardinality(P) : j < k => Nth(P, j) < Nth(P, k)
         /\ \A i \in P : \E k \in 1 .. Cardinality(P) : Nth(P, k) = i
<1>0. Cardinality(P) \in Nat /\ \A i : Cardinality(UpTo(P, i)) \in Nat /\ Cardinality(UpTo(P, i)) <= Cardinality(P)
  BY UpToFinite
<1>1. \A k \in 1 .. Cardinality(P) : Nth(P, k) \in P /\ Cardinality(UpTo(P, Nth(P, k))) = k
  <2> TAKE k \in 1 .. Cardinality(P)
  <2>1. \E i \in P : Cardinality(UpTo(P, i)) = k
    BY NthExists
  <2>2. Nth(P, k) = CHOOSE i \in P : Cardinality(UpTo(P, i)) = k
    BY DEF Nth, UpTo
  <2>3. QED
    BY <2>1, <2>2
<1>2. \A j, k \in 1 .. Cardinality(P) : j < k => Nth(P, j) < Nth(P, k)
  <2> SUFFICES ASSUME NEW j \in 1 .. Cardinality(P), NEW k \in 1 .. Cardinality(P), j < k,
                      ~ (Nth(P, j) < Nth(P, k))
               PROVE  FALSE
    OBVIOUS
  <2>1. /\ Nth(P, j) \in P /\ Cardinality(UpTo(P, Nth(P, j))) = j
        /\ Nth(P, k) \in P /\ Cardinality(UpTo(P, Nth(P, k))) = k
    BY <1>1
  <2>2. Nth(P, j) # Nth(P, k)
    BY <1>0, <2>1
  <2>3. Nth(P, j) \in Nat /\ Nth(P, k) \in Nat
    BY <2>1
  <2>4. Nth(P, k) < Nth(P, j)
    BY <2>2, <2>3
  <2>5. k < j
    BY <2>1, <2>4, UpToGrows
  <2>6. QED
    BY <1>0, <2>5
<1>3. ASSUME NEW i \in P PROVE \E k \in 1 .. Cardinality(P) : Nth(P, k) = i
  <2> DEFINE k == Cardinality(UpTo(P, i))
  <2>1. k \in 1 .. Cardinality(P)
    <3>1. i \in UpTo(P, i)
      BY DEF UpTo
    <3>2. Cardinality(UpTo(P, i)) # 0
      BY <3>1, UpToFinite, FS_EmptySet
    <3>3. QED
      BY <1>0, <3>2
  <2>2. Nth(P, k) \in P /\ Cardinality(UpTo(P, Nth(P, k))) = k
    BY <1>1, <2>1
  <2>3. Nth(P, k) = i
    <3> DEFINE m == Nth(P, k)
    <3>1. m \in P /\ Cardinality(UpTo(P, m)) = Cardinality(UpTo(P, i))
      BY <2>2
    <3>2. m \in Nat /\ i \in Nat
      BY <3>1
    <3> HIDE DEF m, k
    <3>3. ~ (m < i) /\ ~ (i < m)
      BY <1>0, <3>1, UpToGrows
    <3>4. m = i
      BY <3>2, <3>3
    <3>5. QED
      BY <3>4 DEF m
  <2>4. QED
    BY <2>1, <2>3
<1>4. QED
  BY <1>1, <1>2, <1>3

LEMMA RemoveAtIs ==
  ASSUME NEW S, NEW s \in Seq(S), NEW i \in 1 .. Len(s)
  PROVE  /\ RemoveAt(s, i) \in Seq(S) /\ Len(RemoveAt(s, i)) = Len(s) - 1
         /\ \A k \in 1 .. Len(s) - 1 : RemoveAt(s, i)[k] = IF k < i THEN s[k] ELSE s[k+1]
<1> DEFINE a == SubSeq(s, 1, i - 1)
           b == SubSeq(s, i + 1, Len(s))
<1>1. a \in Seq(S) /\ Len(a) = i - 1 /\ \A k \in 1 .. i - 1 : a[k] = s[k]
  OBVIOUS
<1>2. b \in Seq(S) /\ Len(b) = Len(s) - i /\ \A k \in 1 .. Len(s) - i : b[k] = s[k + i]
  OBVIOUS
<1> HIDE DEF a, b
<1>0. Len(s) \in Nat /\ i \in Nat /\ i <= Len(s) /\ 1 <= i
  OBVIOUS
<1>3. a \o b \in Seq(S) /\ Len(a \o b) = Len(s) - 1
  <2>1. a \o b \in Seq(S) /\ Len(a \o b) = Len(a) + Len(b)
    BY <1>1, <1>2, ConcatProperties
  <2>2. QED
    BY <1>0, <1>1, <1>2, <2>1
<1>4. ASSUME NEW k \in 1 .. Len(s) - 1
      PROVE  (a \o b)[k] = IF k < i THEN s[k] ELSE s[k + 1]
  <2>1. CASE k < i
    <3>1. k \in 1 .. Len(a)
      BY <1>0, <1>1, <2>1
    <3>2. (a \o b)[k] = a[k]
      BY <1>0, <1>1, <1>2, <3>1
    <3>3. QED
      BY <1>0, <1>1, <2>1, <3>1, <3>2
  <2>2. CASE ~ (k < i)
    <3>1. k \in Len(a) + 1 .. Len(a) + Len(b)
      BY <1>0, <1>1, <1>2, <2>2
    <3>2. (a \o b)[k] = b[k - Len(a)]
      BY <1>0, <1>1, <1>2, <3>1
    <3>3. k - Len(a) \in 1 .. Len(s) - i /\ k - Len(a) + i = k + 1
      BY <1>0, <1>1, <1>2, <3>1
    <3>4. QED
      BY <1>0, <1>2, <2>2, <3>2, <3>3
  <2>3. QED
    BY <2>1, <2>2
<1>5. RemoveAt(s, i) = a \o b
  BY DEF RemoveAt, a, b
<1>6. QED
  BY <1>3, <1>4, <1>5

LEMMA KeptIs ==
  ASSUME NEW S, NEW seq \in Seq(S), NEW P \in SUBSET (DOMAIN seq)
  PROVE  /\ Kept(seq, P) \in Seq(S)
         /\ \A k \in DOMAIN Kept(seq, P) : Nth(P, k) \in P /\ Kept(seq, P)[k] = seq[Nth(P, k)]
         /\ \A j, k \in DOMAIN Kept(seq, P) : j < k => Nth(P, j) < Nth(P, k)
         /\ \A i \in P : \E k \in DOMAIN Kept(seq, P) : Nth(P, k) = i
<1>1. P \in SUBSET Nat /\ IsFiniteSet(P) /\ Cardinality(P) \in Nat
  <2>1. DOMAIN seq = 1 .. Len(seq) /\ Len(seq) \in Nat
    OBVIOUS
  <2>2. IsFiniteSet(1 .. Len(seq))
    BY <2>1, FS_Interval
  <2>3. P \in SUBSET Nat
    BY <2>1
  <2>4. QED
    BY <2>1, <2>2, <2>3, FS_Subset, FS_CardinalityType
<1>2. DOMAIN Kept(seq, P) = 1 .. Cardinality(P)
  BY DEF Kept
<1>3. \A k \in 1 .. Cardinality(P) : Nth(P, k) \in P /\ Kept(seq, P)[k] = seq[Nth(P, k)]
  BY <1>1, NthIs DEF Kept
<1>4. Kept(seq, P) \in Seq(S)
  <2>1. \A k \in 1 .. Cardinality(P) : seq[Nth(P, k)] \in S
    BY <1>3
  <2>2. QED
    BY <1>1, <2>1 DEF Kept
<1>5. QED
  BY <1>1, <1>2, <1>3, <1>4, NthIs

LEMMA SelectedIs ==
  ASSUME NEW u, u.items \in Seq(Row), SelectedRow(u) # NoRow
  PROVE  SelectedRow(u) \in Row /\ SelectedRow(u).id = u.sel
<1> DEFINE I == {i \in 1 .. Len(u.items) : u.items[i].id = u.sel}
<1>1. SelectInSeq(u.items, LAMBDA row : row.id = u.sel) = IF I # {} THEN Min(I) ELSE 0
  BY DEF SelectInSeq
<1>2. I # {} => Min(I) \in I
  <2>1. I \in SUBSET Nat
    OBVIOUS
  <2> HIDE DEF I
  <2>2. QED
    BY <2>1, WellOrdered DEF Min
<1>3. I = {} => SelectedRow(u) = NoRow
  BY <1>1 DEF SelectedRow
<1>4. I # {} => SelectedRow(u) = u.items[Min(I)]
  <2>1. I # {} => Min(I) # 0
    BY <1>2
  <2> HIDE DEF I
  <2>2. QED
    BY <1>1, <2>1 DEF SelectedRow
<1>5. I # {}
  BY <1>3
<1>6. Min(I) \in 1 .. Len(u.items) /\ u.items[Min(I)].id = u.sel
  BY <1>2, <1>5
<1> HIDE DEF I
<1>7. QED
  BY <1>4, <1>5, <1>6

LEMMA SelectedSame ==
  ASSUME NEW u, NEW v, u.items = v.items, u.sel = v.sel
  PROVE  SelectedRow(u) = SelectedRow(v)
  BY Zenon DEF SelectedRow, SelectInSeq

-----------------------------------------------------------------------------
(* The inductive invariant: what the server, the requests in flight and    *)
(* what was shown have in common on all pages.                             *)

AnyId == Ids \cup {Nobody}
AnyRow == [id : AnyId, tag : Tags \cup {Blank}]
AnyFilter == Tags \cup {All}
QueryType == [offset : Nat, limit : Nat, filter : AnyFilter, search : AnyId]
CallType ==
  [op : RowOperations \cup OtherOperations, query : QueryType, sel : AnyId, row : AnyRow,
   items : Seq(Row), passed : BOOLEAN, done : BOOLEAN, ok : BOOLEAN, answer : Seq(Row), total : Nat]
ShownType ==
  [query : QueryType, list : {"none", "current", "late", "failed", "patched"},
   detail : {"none", "current", "late", "failed"}, told : SUBSET Ids]

Distinct(seq) == \A i, j \in DOMAIN seq : seq[i].id = seq[j].id => i = j

\* What a request is known to hold, when the page was told of some deletions
\* and the server has made others.
Sound(c, told, deleted) ==
  /\ c.op = "create" =>
       c.row.tag \in Tags /\ (c.done /\ c.ok => Len(c.answer) = 1)
  /\ c.op = "save" /\ c.done /\ c.ok => c.row \in Row
  /\ c.op = "delete" => c.row.id \in Ids /\ (c.done => c.row.id \in deleted)
  /\ c.op = "list" /\ c.done =>
       Distinct(c.answer) /\ (~c.passed => IdsOf(c.answer) \cap told = {})
Requests(cs, told) == cs \in Seq(CallType) /\ \A k \in DOMAIN cs : Sound(cs[k], told, gone)

ServerInv ==
  /\ rows \in Seq(Row) /\ Distinct(rows)
  /\ gone \in SUBSET Ids /\ IdsOf(rows) \cap gone = {}
  /\ shown \in ShownType /\ shown.told \subseteq gone
  /\ left \in 0 .. MaxSteps
TabInv == ServerInv /\ Requests(calls, shown.told)

\* A request of the kind is in flight.  One whose answer will not be late; and
\* the set of the last of these.
Has(cs, op) == \E k \in DOMAIN cs : cs[k].op = op
Awaited(cs, op, k) == k \in DOMAIN cs /\ cs[k].op = op /\ ~cs[k].passed
Latest(cs, op, k) == Awaited(cs, op, k) /\ \A j \in DOMAIN cs : Awaited(cs, op, j) => j <= k
Newest(cs, op) == {cs[k] : k \in {j \in DOMAIN cs : Latest(cs, op, j)}}
NoneAwaited(cs, op) == \A k \in DOMAIN cs : ~Awaited(cs, op, k)

\* What was sent before a late request is late as well.
InOrder(cs, op) ==
  \A j, k \in DOMAIN cs : Awaited(cs, op, j) /\ j < k /\ cs[k].op = op => Awaited(cs, op, k)

\* The rows on a page that are those of an answer.
Genuine(u, sh) == sh.list = "current" => Distinct(u.items) /\ IdsOf(u.items) \cap sh.told = {}

-----------------------------------------------------------------------------
(* The web application.                                                    *)

WebUi ==
  [items : Seq(Row), total : Nat, offset : Nat, limit : Nat, filter : AnyFilter, search : AnyId,
   sel : AnyId, loading : BOOLEAN, refreshing : BOOLEAN, saving : BOOLEAN, creating : BOOLEAN,
   deleting : BOOLEAN, draft : AnyRow, form : Tags \cup {Blank}, detail : AnyId,
   detailLoading : BOOLEAN]

\* A flag is up while what will lower it is in flight.
WebFlags(u, cs) ==
  /\ u.loading \/ u.refreshing => Has(cs, "list")
  /\ u.saving => Has(cs, "save")
  /\ u.creating => Has(cs, "create")
  /\ u.deleting => Has(cs, "delete")

\* The last load is one of the filter; if none is to come, the one shown was.
WebList(u, cs, sh) ==
  /\ \A c \in Newest(cs, "list") : c.query = Query(u)
  /\ NoneAwaited(cs, "list") =>
       Genuine(u, sh) /\ (sh.list = "current" => sh.query = Query(u))

WebInv(u, cs, sh) == u \in WebUi /\ WebFlags(u, cs) /\ InOrder(cs, "list") /\ WebList(u, cs, sh)

DraftInv(u) == SelectedRow(u) # NoRow => u.draft.id = u.sel

ThreatInv(u, cs, sh) ==
  /\ u.detailLoading /\ u.sel # Nobody => Has(cs, "detail")
  /\ \A k \in DOMAIN cs : cs[k].op = "detail" => cs[k].row.id = u.sel
  /\ ~Has(cs, "detail") /\ sh.detail # "failed" => u.detail = u.sel

DashUi ==
  [items : Seq(Row), offset : Nat, limit : Nat, filter : AnyFilter, search : AnyId,
   loading : BOOLEAN, refreshing : BOOLEAN, loaded : BOOLEAN]
DashInv(u, cs, sh) == (u.loading \/ u.refreshing => Has(cs, "list")) /\ Genuine(u, sh)
OneLoadInv(u, cs, sh) ==
  /\ Len(cs) <= 1 /\ (cs # <<>> => u.loading) /\ (\A k \in DOMAIN cs : ~cs[k].passed)
  /\ sh.list # "late"

FrameUi ==
  [items : Seq(Row), offset : Nat, limit : Nat, filter : AnyFilter, search : AnyId,
   loading : BOOLEAN, refreshing : BOOLEAN, loaded : BOOLEAN,
   menus : SUBSET Menus, active : navItems \cup ShellItems, signedIn : BOOLEAN]
ShellInv(u, cs) ==
  /\ ~u.loading /\ ~u.refreshing
  /\ u.active \in ShellItems /\ (u.menus = {} \/ \E m \in Menus : u.menus = {m})
  /\ ~u.signedIn => cs = <<>> /\ u.items = <<>> /\ u.active = "overview"

SettingsUi ==
  [items : Seq(Row), loading : BOOLEAN, refreshing : BOOLEAN, loaded : BOOLEAN, typed : SUBSET Forms,
   saving : SUBSET Forms, enabled : BOOLEAN, toggling : BOOLEAN, keyName : Tags \cup {Blank},
   creating : BOOLEAN, deleting : AnyId]

\* A row is created until the list that follows is there.
Creates(cs) ==
  \E k \in DOMAIN cs : cs[k].op = "create" \/ (cs[k].op = "list" /\ cs[k].row # NoRow)
SettingsInv(u, cs, sh) ==
  /\ u \in SettingsUi
  /\ u.loading \/ u.refreshing => Has(cs, "list")
  /\ \A form \in u.saving : Has(cs, form)
  /\ u.toggling => Has(cs, "integration")
  /\ u.creating => Creates(cs)
  /\ u.deleting # Nobody => Has(cs, "delete")
  /\ Genuine(u, sh)

-----------------------------------------------------------------------------
(* The admin panel.                                                        *)

AdminUi ==
  [items : Seq(Row), total : Nat, offset : Nat, limit : Nat, filter : AnyFilter, search : AnyId,
   loading : BOOLEAN, sel : AnyId, detail : AnyId, exporting : BOOLEAN]

AdminInv(u, cs, sh) ==
  /\ u \in AdminUi
  /\ (u.loading => Has(cs, "list")) /\ (u.exporting => Has(cs, "export"))
  /\ InOrder(cs, "list")
  /\ \A c \in Newest(cs, "list") : c.query.limit = u.limit /\ c.query.filter = u.filter
  /\ u.offset = sh.query.offset
  /\ NoneAwaited(cs, "list") /\ sh.list = "current" =>
       sh.query.limit = u.limit /\ sh.query.filter = u.filter
  /\ Genuine(u, sh)

\* These two have one page.
OnePage(u, cs) == u.offset = 0 /\ \A k \in DOMAIN cs : cs[k].op = "list" => cs[k].query.offset = 0

DialogInv(u, cs, sh) ==
  /\ InOrder(cs, "detail")
  /\ \A c \in Newest(cs, "detail") : u.sel \in {c.row.id, Nobody}
  /\ NoneAwaited(cs, "detail") /\ sh.detail # "late" => u.sel = Nobody \/ u.detail \in {u.sel, Nobody}

AdminSettingsUi ==
  [items : Seq(Row), loading : BOOLEAN, typed : SUBSET Forms, enabled : BOOLEAN,
   keyName : Tags \cup {Blank}, loaded : BOOLEAN, saveState : {"idle", "saving", "saved", "error"},
   resets : Nat, refreshing : BOOLEAN]
AdminSettingsInv(u, cs, sh) ==
  /\ u \in AdminSettingsUi /\ ~u.refreshing
  /\ u.loading => \E k \in DOMAIN cs : cs[k].op = "list" /\ cs[k].row = NoRow
  /\ u.saveState = "saving" => \E form \in Forms : Has(cs, form)
  /\ u.saveState \in {"saved", "error"} => u.resets > 0
  /\ Genuine(u, sh)

GovernanceUi ==
  [items : Seq(Row), loading : BOOLEAN, refreshing : BOOLEAN, showCreate : BOOLEAN, saving : BOOLEAN,
   form : Tags \cup {Blank}]
GovernanceInv(u, cs, sh) ==
  /\ u \in GovernanceUi /\ ~u.refreshing
  /\ u.loading => Has(cs, "list")
  /\ u.saving => Creates(cs)
  /\ Genuine(u, sh)

-----------------------------------------------------------------------------
(* The landing page.                                                       *)

HeroInv(u) ==
  /\ u \in [phase : 1 .. 4, delay : BOOLEAN, typing : SUBSET BOOLEAN,
            displayed : Seq(BOOLEAN \X Nat), at : 0 .. TextLength]
  /\ u.typing \subseteq {Risky(u)} /\ Len(u.displayed) = u.at
  /\ \A i \in DOMAIN u.displayed : u.displayed[i][1] = Risky(u)
HowInv(u) == u \in [step : Steps, intervals : {1}, narrow : BOOLEAN]

\* The time-out and the next tick of the interval keep their distance.
ArchitectureInv(u) ==
  /\ u \in [blocked : BOOLEAN, pending : SUBSET Nat, next : 1 .. 55]
  /\ u.pending = IF u.blocked THEN {u.next - 27} ELSE {}
  /\ u.blocked => u.next >= 28
DecisionInv(u) ==
  /\ u \in [scanning : BOOLEAN, decision : {"allowed", "blocked"}, pending : SUBSET Nat, next : 1 .. 28]
  /\ u.pending = IF u.scanning THEN {u.next - 19} ELSE {}
  /\ u.scanning => u.next >= 20

FeedInv(u) ==
  /\ u \in [events : Seq([id : Nat, status : {"blocked", "flagged", "allowed"}]), counter : Nat,
            incoming : Nat, total : Nat, blocked : Nat, risks : Seq(Nat), nextRisk : Nat]
  /\ Len(u.events) <= 6 /\ Distinct(u.events) /\ \A i \in DOMAIN u.events : u.events[i].id <= u.counter
  /\ Len(u.risks) = 8 /\ IsInjective(u.risks) /\ \A i \in DOMAIN u.risks : u.risks[i] < u.nextRisk
  /\ u.blocked >= 6
NavigationInv(u) ==
  /\ u \in [mobile : BOOLEAN, open : BOOLEAN, over : 0 .. 4, email : BOOLEAN, submitted : BOOLEAN]
  /\ (u.open => u.mobile) /\ (u.over # 0 => ~u.mobile)
FeaturesInv(u) ==
  /\ u \in [highlight : 1 .. 4, points : Seq({0, 1}), live : Nat, expanded : BOOLEAN,
            over : FEATURES \cup THREATS \cup {"none"}]
  /\ Len(u.points) = 8
DemosInv(u) ==
  /\ u \in [at : DEMO_CARDS \cup {"/demos"}, overflow : {"hidden", "visible"}, original : {"visible"}]
  /\ u.overflow = "hidden" <=> u.at = "/demos"

-----------------------------------------------------------------------------
WebPages ==
  /\ page \in ListPages => WebInv(ui, calls, shown)
  /\ page \in {"policies", "agents"} => DraftInv(ui)
  /\ page = "threats" => ThreatInv(ui, calls, shown)
FigurePages ==
  /\ page \in OneLoadPages \cup {"dashboard", "analytics"} => ui \in DashUi
  /\ page \in {"frame", "shell"} => ui \in FrameUi
  /\ page \in DashPages => DashInv(ui, calls, shown)
  /\ page \in OneLoadPages => OneLoadInv(ui, calls, shown)
  /\ page = "analytics" => InOrder(calls, "list") /\ WebList(ui, calls, shown)
  /\ page = "frame" => ui.active \in navItems
  /\ page = "shell" => ShellInv(ui, calls) /\ shown.list = "none"
AdminPages ==
  /\ page \in AdminListPages => AdminInv(ui, calls, shown)
  /\ page \in {"fleet", "intel"} => OnePage(ui, calls)
  /\ page \in {"organizations", "intel"} => DialogInv(ui, calls, shown)
FormPages ==
  /\ page = "settings" => SettingsInv(ui, calls, shown)
  /\ page = "platform" => AdminSettingsInv(ui, calls, shown)
  /\ page = "governance" => GovernanceInv(ui, calls, shown)
LandingPages ==
  /\ page = "hero" => HeroInv(ui)
  /\ page = "how" => HowInv(ui)
  /\ page = "architecture" => ArchitectureInv(ui)
  /\ page = "decision" => DecisionInv(ui)
  /\ page = "feed" => FeedInv(ui)
  /\ page = "navigation" => NavigationInv(ui)
  /\ page = "features" => FeaturesInv(ui)
  /\ page = "demos" => DemosInv(ui)

FrontEndInv ==
  /\ page \in ListPages \cup AdminListPages \cup DashPages \cup WritingPages \cup Widgets
  /\ page \in Widgets => calls = <<>>
  /\ TabInv
  /\ WebPages /\ FigurePages /\ AdminPages /\ FormPages /\ LandingPages

-----------------------------------------------------------------------------
(* The requests in flight: one is sent, one ends, one is answered.         *)

LEMMA AppendIs ==
  ASSUME NEW cs \in Seq(CallType), NEW c \in CallType
  PROVE  /\ Append(cs, c) \in Seq(CallType)
         /\ DOMAIN Append(cs, c) = DOMAIN cs \cup {Len(cs) + 1}
         /\ \A k \in DOMAIN cs : k \in Nat /\ k < Len(cs) + 1 /\ Append(cs, c)[k] = cs[k]
         /\ Append(cs, c)[Len(cs) + 1] = c
         /\ Len(cs) + 1 \in Nat /\ Len(cs) + 1 \notin DOMAIN cs
<1>1. DOMAIN cs = 1 .. Len(cs) /\ Len(cs) \in Nat
  OBVIOUS
<1>2. Append(cs, c) \in Seq(CallType) /\ Len(Append(cs, c)) = Len(cs) + 1
  BY AppendProperties
<1>3. DOMAIN Append(cs, c) = 1 .. Len(cs) + 1
  BY <1>2
<1>4. \A k \in 1 .. Len(cs) : Append(cs, c)[k] = cs[k]
  BY AppendProperties
<1>5. Append(cs, c)[Len(cs) + 1] = c
  BY AppendProperties
<1>6. QED
  BY <1>1, <1>2, <1>3, <1>4, <1>5

\* What is sent is the last of its kind, and does not disturb the other kinds.
LEMMA Sent ==
  ASSUME NEW cs, NEW told, Requests(cs, told),
         NEW c \in CallType, ~c.passed, Sound(c, told, gone)
  PROVE  /\ Requests(Append(cs, c), told)
         /\ \A op : Has(Append(cs, c), op) <=> Has(cs, op) \/ c.op = op
         /\ \A op : InOrder(cs, op) => InOrder(Append(cs, c), op)
         /\ Newest(Append(cs, c), c.op) = {c} /\ ~NoneAwaited(Append(cs, c), c.op)
         /\ \A op : op # c.op =>
              /\ Newest(Append(cs, c), op) = Newest(cs, op)
              /\ NoneAwaited(Append(cs, c), op) => NoneAwaited(cs, op)
<1> DEFINE ds == Append(cs, c)
           n == Len(cs) + 1
<1>1. /\ cs \in Seq(CallType) /\ ds \in Seq(CallType)
      /\ DOMAIN ds = DOMAIN cs \cup {n} /\ ds[n] = c /\ n \in Nat /\ n \notin DOMAIN cs
      /\ \A k \in DOMAIN cs : k \in Nat /\ k < n /\ ds[k] = cs[k]
  BY AppendIs DEF Requests
<1> HIDE DEF ds, n
<1>2. Requests(ds, told)
  BY <1>1 DEF Requests
<1>3. \A op : Has(ds, op) <=> Has(cs, op) \/ c.op = op
  BY <1>1 DEF Has
<1>4. \A op, k : k \in DOMAIN cs => (Awaited(ds, op, k) <=> Awaited(cs, op, k))
  BY <1>1 DEF Awaited
<1>5. \A op : Awaited(ds, op, n) <=> op = c.op
  BY <1>1 DEF Awaited
<1>6. ASSUME NEW op, InOrder(cs, op) PROVE InOrder(ds, op)
  <2> SUFFICES ASSUME NEW j \in DOMAIN ds, NEW k \in DOMAIN ds, Awaited(ds, op, j), j < k, ds[k].op = op
               PROVE  Awaited(ds, op, k)
    BY DEF InOrder
  <2>1. j \in DOMAIN cs
    BY <1>1
  <2>2. CASE k = n
    BY <1>1, <1>5, <2>2
  <2>3. CASE k \in DOMAIN cs
    BY <1>1, <1>4, <1>6, <2>1, <2>3 DEF InOrder
  <2>4. QED
    BY <1>1, <2>2, <2>3
<1>7. Newest(ds, c.op) = {c} /\ ~NoneAwaited(ds, c.op)
  <2>1. \A k \in DOMAIN ds : Latest(ds, c.op, k) <=> k = n
    BY <1>1, <1>5 DEF Latest
  <2>2. n \in DOMAIN ds
    BY <1>1
  <2>3. {j \in DOMAIN ds : Latest(ds, c.op, j)} = {n}
    BY <2>1, <2>2
  <2>4. Newest(ds, c.op) = {ds[n]}
    BY <2>3 DEF Newest
  <2>5. QED
    BY <1>1, <1>5, <2>2, <2>4 DEF NoneAwaited
<1>8. ASSUME NEW op, op # c.op
      PROVE  Newest(ds, op) = Newest(cs, op) /\ (NoneAwaited(ds, op) => NoneAwaited(cs, op))
  <2>1. ~Awaited(ds, op, n)
    BY <1>5, <1>8
  <2>2. \A k \in DOMAIN ds : Latest(ds, op, k) <=> k \in DOMAIN cs /\ Latest(cs, op, k)
    BY <1>1, <1>4, <2>1 DEF Latest
  <2>3. {j \in DOMAIN ds : Latest(ds, op, j)} = {j \in DOMAIN cs : Latest(cs, op, j)}
    BY <1>1, <2>2
  <2>4. Newest(ds, op) = Newest(cs, op)
    BY <1>1, <2>3 DEF Newest
  <2>5. QED
    BY <1>1, <1>4, <2>4 DEF NoneAwaited
<1>9. QED
  BY <1>2, <1>3, <1>6, <1>7, <1>8 DEF ds

\* The position that the request at k had before the one at i ended.
Before(i, k) == IF k < i THEN k ELSE k + 1
Late(c) == [c EXCEPT !.passed = TRUE]

\* What is left in flight when the request at i has ended.
Rest(i, cs) ==
  /\ i \in DOMAIN calls /\ cs \in Seq(CallType) /\ DOMAIN cs = 1 .. Len(calls) - 1
  /\ \A k \in DOMAIN cs : cs[k] \in {calls[Before(i, k)], Late(calls[Before(i, k)])}

LEMMA LateIs ==
  ASSUME NEW c \in CallType
  PROVE  /\ Late(c) \in CallType /\ Late(c).passed
         /\ Late(c).op = c.op /\ Late(c).query = c.query /\ Late(c).row = c.row
         /\ Late(c).done = c.done /\ Late(c).ok = c.ok /\ Late(c).answer = c.answer
  BY DEF Late, CallType

LEMMA BeforeIs ==
  ASSUME NEW n \in Nat, NEW i \in 1 .. n
  PROVE  /\ \A k \in 1 .. n - 1 : Before(i, k) \in 1 .. n /\ Before(i, k) # i
         /\ \A j, k \in 1 .. n - 1 : (j < k <=> Before(i, j) < Before(i, k)) /\ (k < i <=> Before(i, k) < i)
         /\ \A m \in 1 .. n : m # i => \E k \in 1 .. n - 1 : Before(i, k) = m
<1>1. ASSUME NEW m \in 1 .. n, m # i PROVE \E k \in 1 .. n - 1 : Before(i, k) = m
  <2>1. CASE m < i
    <3>1. m \in 1 .. n - 1 /\ Before(i, m) = m
      BY <2>1 DEF Before
    <3>2. QED
      BY <3>1
  <2>2. CASE ~ (m < i)
    <3>1. m - 1 \in 1 .. n - 1 /\ Before(i, m - 1) = m
      BY <1>1, <2>2 DEF Before
    <3>2. QED
      BY <3>1
  <2>3. QED
    BY <2>1, <2>2
<1>2. QED
  BY <1>1 DEF Before

LEMMA RestIs ==
  ASSUME calls \in Seq(CallType), NEW i \in DOMAIN calls
  PROVE  /\ Rest(i, Without(i)) /\ Rest(i, Passing(i)) /\ Rest(i, Overtaken(i))
         /\ \A k \in 1 .. Len(calls) - 1 :
              /\ Before(i, k) \in DOMAIN calls /\ Without(i)[k] = calls[Before(i, k)]
              /\ Passing(i)[k] =
                   IF \/ calls[i].op \in {"list", "detail"} /\ calls[k].op = calls[i].op /\ k < i
                      \/ Without(i)[k].op = "delete"
                     THEN Late(Without(i)[k]) ELSE Without(i)[k]
              /\ Overtaken(i)[k] = IF Without(i)[k].op = "list" THEN Late(Without(i)[k]) ELSE Without(i)[k]
<1> DEFINE n == Len(calls)
<1>1. n \in Nat /\ DOMAIN calls = 1 .. n /\ i \in 1 .. n
  OBVIOUS
<1>2. /\ Without(i) \in Seq(CallType) /\ Len(Without(i)) = n - 1
      /\ \A k \in 1 .. n - 1 : Without(i)[k] = calls[Before(i, k)]
  <2> HIDE DEF n
  <2>0. \A s \in Seq(CallType) : \A m \in 1 .. Len(s) :
          /\ RemoveAt(s, m) \in Seq(CallType) /\ Len(RemoveAt(s, m)) = Len(s) - 1
          /\ \A k \in 1 .. Len(s) - 1 : RemoveAt(s, m)[k] = IF k < m THEN s[k] ELSE s[k + 1]
    BY RemoveAtIs, Zenon
  <2>1. /\ RemoveAt(calls, i) \in Seq(CallType) /\ Len(RemoveAt(calls, i)) = n - 1
        /\ \A k \in 1 .. n - 1 : RemoveAt(calls, i)[k] = IF k < i THEN calls[k] ELSE calls[k + 1]
    BY <1>1, <2>0, Zenon DEF n
  <2>2. \A k \in 1 .. n - 1 : Without(i)[k] = calls[Before(i, k)]
    BY <2>1 DEF Without, Before
  <2>3. QED
    BY <2>1, <2>2 DEF Without
<1> HIDE DEF n
<1>3. DOMAIN Without(i) = 1 .. n - 1 /\ n - 1 \in Nat
  BY <1>1, <1>2
<1>4. \A k \in 1 .. n - 1 :
        /\ Before(i, k) \in DOMAIN calls /\ Without(i)[k] \in CallType /\ Late(Without(i)[k]) \in CallType
  <2> TAKE k \in 1 .. n - 1
  <2>1. Before(i, k) \in DOMAIN calls
    BY <1>1, BeforeIs
  <2>2. Without(i)[k] \in CallType
    BY <1>2, <1>3, ElementOfSeq
  <2>3. QED
    BY <2>1, <2>2, LateIs
<1>5. /\ DOMAIN Passing(i) = 1 .. n - 1
      /\ \A k \in 1 .. n - 1 :
           Passing(i)[k] =
             IF \/ calls[i].op \in {"list", "detail"} /\ calls[k].op = calls[i].op /\ k < i
                \/ Without(i)[k].op = "delete"
               THEN Late(Without(i)[k]) ELSE Without(i)[k]
  BY DEF Passing, Late, n
<1>6. /\ DOMAIN Overtaken(i) = 1 .. n - 1
      /\ \A k \in 1 .. n - 1 :
           Overtaken(i)[k] = IF Without(i)[k].op = "list" THEN Late(Without(i)[k]) ELSE Without(i)[k]
  BY <1>3 DEF Overtaken, Late
<1>7. Passing(i) \in Seq(CallType)
  <2>1. \A k \in 1 .. n - 1 : Passing(i)[k] \in CallType
    BY <1>4, <1>5
  <2>2. Passing(i) = [k \in 1 .. n - 1 |-> Passing(i)[k]]
    BY <1>5 DEF Passing, n
  <2>3. QED
    BY <1>3, <2>1, <2>2, IsASeq
<1>8. Overtaken(i) \in Seq(CallType)
  <2>1. \A k \in 1 .. n - 1 : Overtaken(i)[k] \in CallType
    BY <1>4, <1>6
  <2>2. Overtaken(i) = [k \in 1 .. n - 1 |-> Overtaken(i)[k]]
    BY <1>3, <1>6 DEF Overtaken
  <2>3. QED
    BY <1>3, <2>1, <2>2, IsASeq
<1>9. Rest(i, Without(i))
  BY <1>1, <1>2, <1>3 DEF Rest, n
<1>10. Rest(i, Passing(i))
  BY <1>1, <1>2, <1>5, <1>7 DEF Rest, n
<1>11. Rest(i, Overtaken(i))
  BY <1>1, <1>2, <1>6, <1>8 DEF Rest, n
<1>12. QED
  BY <1>2, <1>4, <1>5, <1>6, <1>9, <1>10, <1>11 DEF n

\* The requests that are left are what they were, but for their lateness.
LEMMA Ended ==
  ASSUME NEW i, NEW cs, Rest(i, cs), NEW told, Requests(calls, told)
  PROVE  /\ \A k \in DOMAIN cs : \E j \in DOMAIN calls : j # i /\ cs[k] \in {calls[j], Late(calls[j])}
         /\ \A j \in DOMAIN calls : j # i => \E k \in DOMAIN cs : cs[k] \in {calls[j], Late(calls[j])}
         /\ \A k \in DOMAIN calls : calls[k] \in CallType
<1>1. /\ calls \in Seq(CallType) /\ Len(calls) \in Nat /\ DOMAIN calls = 1 .. Len(calls)
      /\ i \in 1 .. Len(calls)
  BY DEF Requests, Rest
<1>2. /\ DOMAIN cs = 1 .. Len(calls) - 1
      /\ \A k \in DOMAIN cs : cs[k] \in {calls[Before(i, k)], Late(calls[Before(i, k)])}
  BY DEF Rest
<1>3. \A k \in 1 .. Len(calls) - 1 : Before(i, k) \in 1 .. Len(calls) /\ Before(i, k) # i
  BY <1>1, BeforeIs
<1>4. \A m \in 1 .. Len(calls) : m # i => \E k \in 1 .. Len(calls) - 1 : Before(i, k) = m
  BY <1>1, BeforeIs
<1>5. \A k \in DOMAIN calls : calls[k] \in CallType
  BY <1>1
<1>6. QED
  BY <1>1, <1>2, <1>3, <1>4, <1>5

LEMMA EndedHas ==
  ASSUME NEW i, NEW cs, Rest(i, cs), NEW told, Requests(calls, told)
  PROVE  /\ \A op : Has(calls, op) /\ op # calls[i].op => Has(cs, op)
         /\ \A op : Has(cs, op) => Has(calls, op)
         /\ Creates(calls) /\ calls[i].op # "create" /\ (calls[i].op = "list" => calls[i].row = NoRow)
              => Creates(cs)
<1>1. /\ \A k \in DOMAIN cs : \E j \in DOMAIN calls : j # i /\ cs[k] \in {calls[j], Late(calls[j])}
      /\ \A j \in DOMAIN calls : j # i => \E k \in DOMAIN cs : cs[k] \in {calls[j], Late(calls[j])}
      /\ \A k \in DOMAIN calls : calls[k] \in CallType
  BY Ended
<1>2. \A k \in DOMAIN calls : Late(calls[k]).op = calls[k].op /\ Late(calls[k]).row = calls[k].row
  BY <1>1, LateIs
<1>3. \A j \in DOMAIN calls : j # i => \E k \in DOMAIN cs : cs[k].op = calls[j].op /\ cs[k].row = calls[j].row
  BY <1>1, <1>2
<1>4. \A op : Has(calls, op) /\ op # calls[i].op => Has(cs, op)
  BY <1>3 DEF Has
<1>5. \A op : Has(cs, op) => Has(calls, op)
  BY <1>1, <1>2 DEF Has
<1>6. Creates(calls) /\ calls[i].op # "create" /\ (calls[i].op = "list" => calls[i].row = NoRow)
        => Creates(cs)
  BY <1>3 DEF Creates
<1>7. QED
  BY <1>4, <1>5, <1>6

\* The page is told of one more deletion only when no list is awaited.
LEMMA EndedSound ==
  ASSUME NEW i, NEW cs, Rest(i, cs), NEW told, NEW more, Requests(calls, told),
         \A k \in DOMAIN cs : more = told \/ (cs[k].op = "list" => cs[k].passed)
  PROVE  Requests(cs, more)
<1>1. /\ \A k \in DOMAIN cs : \E j \in DOMAIN calls : j # i /\ cs[k] \in {calls[j], Late(calls[j])}
      /\ \A k \in DOMAIN calls : calls[k] \in CallType
  BY Ended
<1>2. cs \in Seq(CallType)
  BY DEF Rest
<1>3. ASSUME NEW k \in DOMAIN cs PROVE Sound(cs[k], more, gone)
  <2>1. PICK j \in DOMAIN calls : cs[k] \in {calls[j], Late(calls[j])}
    BY <1>1
  <2> DEFINE c == calls[j]
             d == cs[k]
  <2>2. c \in CallType /\ Sound(c, told, gone)
    BY <1>1 DEF Requests
  <2>3. /\ d.op = c.op /\ d.row = c.row /\ d.done = c.done /\ d.ok = c.ok /\ d.answer = c.answer
        /\ c.passed => d.passed
    BY <2>1, <2>2, LateIs
  <2>4. more = told \/ (d.op = "list" => d.passed)
    OBVIOUS
  <2> HIDE DEF c, d
  <2>5. Sound(d, more, gone)
    BY <2>2, <2>3, <2>4 DEF Sound
  <2>6. QED
    BY <2>5 DEF d
<1>4. QED
  BY <1>2, <1>3 DEF Requests

\* Lists and details are awaited as before when a request of another kind ends.
LEMMA EndedOther ==
  ASSUME NEW told, Requests(calls, told), NEW i \in DOMAIN calls, NEW cs \in {Without(i), Passing(i)},
         NEW op \in {"list", "detail"}, op # calls[i].op
  PROVE  /\ InOrder(calls, op) => InOrder(cs, op)
         /\ Newest(cs, op) \subseteq Newest(calls, op)
         /\ NoneAwaited(cs, op) => NoneAwaited(calls, op)
<1> DEFINE n == Len(calls)
<1>1. /\ calls \in Seq(CallType) /\ n \in Nat /\ DOMAIN calls = 1 .. n /\ i \in 1 .. n
      /\ \A k \in DOMAIN calls : calls[k] \in CallType
  BY DEF Requests
<1>2. DOMAIN cs = 1 .. n - 1
  BY <1>1, RestIs DEF Rest
<1>3. \A k \in 1 .. n - 1 :
        /\ Before(i, k) \in DOMAIN calls /\ Without(i)[k] = calls[Before(i, k)]
        /\ Passing(i)[k] \in {calls[Before(i, k)], Late(calls[Before(i, k)])}
        /\ calls[Before(i, k)].op = op => Passing(i)[k] = calls[Before(i, k)]
  <2>1. \A k \in 1 .. n - 1 :
          /\ Before(i, k) \in DOMAIN calls /\ Without(i)[k] = calls[Before(i, k)]
          /\ Passing(i)[k] =
               IF \/ calls[i].op \in {"list", "detail"} /\ calls[k].op = calls[i].op /\ k < i
                  \/ Without(i)[k].op = "delete"
                 THEN Late(Without(i)[k]) ELSE Without(i)[k]
    BY <1>1, RestIs
  <2> HIDE DEF n
  <2>2. \A k \in 1 .. n - 1 : k < i => Before(i, k) = k
    BY DEF Before
  <2>3. QED
    BY <2>1, <2>2
<1> HIDE DEF n
<1>4. /\ \A k \in 1 .. n - 1 : Before(i, k) \in 1 .. n /\ Before(i, k) # i
      /\ \A j, k \in 1 .. n - 1 : (j < k <=> Before(i, j) < Before(i, k)) /\ (k < i <=> Before(i, k) < i)
      /\ \A m \in 1 .. n : m # i => \E k \in 1 .. n - 1 : Before(i, k) = m
  BY <1>1, BeforeIs
<1>5. \A k \in 1 .. n - 1 :
        /\ cs[k].op = calls[Before(i, k)].op
        /\ cs[k].op = op => cs[k] = calls[Before(i, k)]
  BY <1>1, <1>3, LateIs
<1>6. \A k \in 1 .. n - 1 : Awaited(cs, op, k) <=> Awaited(calls, op, Before(i, k))
  BY <1>2, <1>3, <1>5 DEF Awaited
<1>7. ~Awaited(calls, op, i)
  BY DEF Awaited
<1>8. ASSUME InOrder(calls, op) PROVE InOrder(cs, op)
  <2> SUFFICES ASSUME NEW j \in 1 .. n - 1, NEW k \in 1 .. n - 1, Awaited(cs, op, j), j < k, cs[k].op = op
               PROVE  Awaited(cs, op, k)
    BY <1>2 DEF InOrder
  <2>1. /\ Awaited(calls, op, Before(i, j)) /\ Before(i, j) < Before(i, k)
        /\ Before(i, j) \in DOMAIN calls /\ Before(i, k) \in DOMAIN calls /\ calls[Before(i, k)].op = op
    BY <1>1, <1>4, <1>5, <1>6
  <2>2. Awaited(calls, op, Before(i, k))
    BY <1>8, <2>1 DEF InOrder
  <2>3. QED
    BY <1>6, <2>2
<1>9. ASSUME NEW k \in 1 .. n - 1, Latest(cs, op, k)
      PROVE  Latest(calls, op, Before(i, k)) /\ cs[k] = calls[Before(i, k)]
  <2>1. Awaited(cs, op, k) /\ \A j \in 1 .. n - 1 : Awaited(cs, op, j) => j <= k
    BY <1>2, <1>9 DEF Latest
  <2>2. ASSUME NEW m \in 1 .. n, Awaited(calls, op, m) PROVE m <= Before(i, k)
    <3>1. PICK j \in 1 .. n - 1 : Before(i, j) = m
      BY <1>4, <1>7, <2>2
    <3>2. j <= k /\ ~ (k < j)
      BY <1>1, <1>6, <2>1, <2>2, <3>1
    <3>3. ~ (Before(i, k) < Before(i, j))
      BY <1>4, <3>2
    <3>4. Before(i, k) \in 1 .. n /\ m \in 1 .. n
      BY <1>4
    <3>5. QED
      BY <1>1, <3>1, <3>3, <3>4
  <2>3. Awaited(calls, op, Before(i, k)) /\ cs[k] = calls[Before(i, k)]
    BY <1>5, <1>6, <2>1 DEF Awaited
  <2>4. QED
    BY <1>1, <2>2, <2>3 DEF Latest
<1>10. Newest(cs, op) \subseteq Newest(calls, op)
  <2> SUFFICES ASSUME NEW c \in Newest(cs, op) PROVE c \in Newest(calls, op)
    OBVIOUS
  <2>1. PICK k \in 1 .. n - 1 : Latest(cs, op, k) /\ c = cs[k]
    BY <1>2 DEF Newest
  <2>2. Latest(calls, op, Before(i, k)) /\ c = calls[Before(i, k)] /\ Before(i, k) \in DOMAIN calls
    BY <1>3, <1>9, <2>1
  <2>3. QED
    BY <2>2 DEF Newest
<1>11. ASSUME NoneAwaited(cs, op) PROVE NoneAwaited(calls, op)
  <2>1. \A m \in 1 .. n : m # i => ~Awaited(calls, op, m)
    BY <1>2, <1>4, <1>6, <1>11 DEF NoneAwaited
  <2>2. QED
    BY <1>1, <1>7, <2>1 DEF NoneAwaited
<1>12. QED
  BY <1>8, <1>10, <1>11

\* After a list (or a detail) those asked for before it are late: what is still
\* awaited was asked for after it.
LEMMA EndedSame ==
  ASSUME NEW told, Requests(calls, told), NEW i \in DOMAIN calls,
         NEW op \in {"list", "detail"}, op = calls[i].op, InOrder(calls, op)
  PROVE  /\ InOrder(Passing(i), op)
         /\ Newest(Passing(i), op) \subseteq Newest(calls, op)
         /\ NoneAwaited(Passing(i), op) =>
              IF calls[i].passed THEN NoneAwaited(calls, op) ELSE calls[i] \in Newest(calls, op)
<1> DEFINE n == Len(calls)
           cs == Passing(i)
<1>1. /\ calls \in Seq(CallType) /\ n \in Nat /\ DOMAIN calls = 1 .. n /\ i \in 1 .. n
      /\ \A k \in DOMAIN calls : calls[k] \in CallType
  BY DEF Requests
<1>2. DOMAIN cs = 1 .. n - 1
  BY <1>1, RestIs DEF Rest
<1>3. \A k \in 1 .. n - 1 :
        /\ Before(i, k) \in DOMAIN calls
        /\ cs[k] \in {calls[Before(i, k)], Late(calls[Before(i, k)])}
        /\ calls[Before(i, k)].op = op =>
             cs[k] = IF k < i THEN Late(calls[Before(i, k)]) ELSE calls[Before(i, k)]
  <2>1. \A k \in 1 .. n - 1 :
          /\ Before(i, k) \in DOMAIN calls /\ Without(i)[k] = calls[Before(i, k)]
          /\ Passing(i)[k] =
               IF \/ calls[i].op \in {"list", "detail"} /\ calls[k].op = calls[i].op /\ k < i
                  \/ Without(i)[k].op = "delete"
                 THEN Late(Without(i)[k]) ELSE Without(i)[k]
    BY <1>1, RestIs
  <2> HIDE DEF n
  <2>2. \A k \in 1 .. n - 1 : k < i => Before(i, k) = k
    BY DEF Before
  <2>3. QED
    BY <2>1, <2>2
<1> HIDE DEF n, cs
<1>4. /\ \A k \in 1 .. n - 1 : Before(i, k) \in 1 .. n /\ Before(i, k) # i
      /\ \A j, k \in 1 .. n - 1 : (j < k <=> Before(i, j) < Before(i, k)) /\ (k < i <=> Before(i, k) < i)
      /\ \A m \in 1 .. n : m # i => \E k \in 1 .. n - 1 : Before(i, k) = m
  BY <1>1, BeforeIs
<1>5. \A k \in 1 .. n - 1 : cs[k].op = calls[Before(i, k)].op
  BY <1>1, <1>3, LateIs
<1>6. \A k \in 1 .. n - 1 :
        /\ Awaited(cs, op, k) <=> ~ (k < i) /\ Awaited(calls, op, Before(i, k))
        /\ Awaited(cs, op, k) => cs[k] = calls[Before(i, k)]
  <2> TAKE k \in 1 .. n - 1
  <2>1. k < i /\ cs[k].op = op => cs[k].passed
    BY <1>1, <1>3, <1>5, LateIs
  <2>2. ~ (k < i) /\ cs[k].op = op => cs[k] = calls[Before(i, k)]
    BY <1>3, <1>5
  <2>3. k \in DOMAIN cs /\ Before(i, k) \in DOMAIN calls
    BY <1>2, <1>3
  <2>4. QED
    BY <1>5, <2>1, <2>2, <2>3 DEF Awaited
<1>7. ASSUME NEW j \in 1 .. n - 1, NEW k \in 1 .. n - 1, Awaited(cs, op, j), j < k, cs[k].op = op
      PROVE  Awaited(cs, op, k)
  <2>1. /\ Awaited(calls, op, Before(i, j)) /\ Before(i, j) < Before(i, k) /\ ~ (k < i)
        /\ Before(i, j) \in DOMAIN calls /\ Before(i, k) \in DOMAIN calls /\ calls[Before(i, k)].op = op
    BY <1>1, <1>4, <1>5, <1>6, <1>7
  <2>2. Awaited(calls, op, Before(i, k))
    BY <2>1 DEF InOrder
  <2>3. QED
    BY <1>6, <2>1, <2>2
<1>8. InOrder(cs, op)
  BY <1>2, <1>7 DEF InOrder
<1>9. ASSUME NEW m \in 1 .. n, NEW k \in 1 .. n - 1, ~ (k < i), Awaited(calls, op, m),
             \A j \in 1 .. n - 1 : Awaited(cs, op, j) => j <= k
      PROVE  m <= Before(i, k)
  <2>1. Before(i, k) \in 1 .. n /\ i < Before(i, k)
    BY <1>1, <1>4, <1>9 DEF Before
  <2>2. CASE m <= i
    BY <1>1, <2>1, <2>2
  <2>3. CASE ~ (m <= i)
    <3>1. PICK j \in 1 .. n - 1 : Before(i, j) = m
      BY <1>1, <1>4, <2>3
    <3>2. ~ (j < i)
      BY <1>1, <1>4, <2>3, <3>1
    <3>3. j <= k /\ ~ (k < j)
      BY <1>1, <1>6, <1>9, <3>1, <3>2
    <3>4. ~ (Before(i, k) < Before(i, j))
      BY <1>4, <3>3
    <3>5. QED
      BY <1>1, <2>1, <3>1, <3>4
  <2>4. QED
    BY <2>2, <2>3
<1>10. ASSUME NEW c \in Newest(cs, op) PROVE c \in Newest(calls, op)
  <2>1. PICK k \in 1 .. n - 1 : Latest(cs, op, k) /\ c = cs[k]
    BY <1>2 DEF Newest
  <2>2. Awaited(cs, op, k) /\ \A j \in 1 .. n - 1 : Awaited(cs, op, j) => j <= k
    BY <1>2, <2>1 DEF Latest
  <2>3. ~ (k < i) /\ Awaited(calls, op, Before(i, k)) /\ c = calls[Before(i, k)]
    BY <1>6, <2>1, <2>2
  <2>4. Latest(calls, op, Before(i, k)) /\ Before(i, k) \in DOMAIN calls
    BY <1>1, <1>3, <1>9, <2>2, <2>3 DEF Latest
  <2>5. QED
    BY <2>3, <2>4 DEF Newest
<1>11. ASSUME NoneAwaited(cs, op)
       PROVE  IF calls[i].passed THEN NoneAwaited(calls, op) ELSE calls[i] \in Newest(calls, op)
  <2>1. \A m \in 1 .. n : Awaited(calls, op, m) => m <= i
    <3> SUFFICES ASSUME NEW m \in 1 .. n, Awaited(calls, op, m), ~ (m <= i) PROVE FALSE
      OBVIOUS
    <3>1. PICK k \in 1 .. n - 1 : Before(i, k) = m
      BY <1>1, <1>4
    <3>2. ~ (k < i)
      BY <1>1, <1>4, <3>1
    <3>3. QED
      BY <1>2, <1>6, <1>11, <3>1, <3>2 DEF NoneAwaited
  <2>2. CASE calls[i].passed
    <3>1. ~Awaited(calls, op, i)
      BY <2>2 DEF Awaited
    <3>2. ASSUME NEW m \in 1 .. n PROVE ~Awaited(calls, op, m)
      <4>1. Awaited(calls, op, m) => m < i \/ m = i
        BY <1>1, <2>1
      <4>2. Awaited(calls, op, m) /\ m < i => Awaited(calls, op, i)
        BY <1>1 DEF InOrder
      <4>3. QED
        BY <3>1, <4>1, <4>2
    <3>3. QED
      BY <1>1, <2>2, <3>2 DEF NoneAwaited
  <2>3. CASE ~calls[i].passed
    <3>1. Latest(calls, op, i)
      BY <1>1, <2>1, <2>3 DEF Latest, Awaited
    <3>2. QED
      BY <2>3, <3>1 DEF Newest
  <2>4. QED
    BY <2>2, <2>3
<1>12. QED
  BY <1>8, <1>10, <1>11 DEF cs

\* After a deletion no list is awaited.
LEMMA EndedTold ==
  ASSUME NEW told, Requests(calls, told), NEW i \in DOMAIN calls
  PROVE  /\ \A k \in DOMAIN Overtaken(i) : Overtaken(i)[k].op = "list" => Overtaken(i)[k].passed
         /\ NoneAwaited(Overtaken(i), "list") /\ InOrder(Overtaken(i), "list")
         /\ Newest(Overtaken(i), "list") = {}
<1>1. calls \in Seq(CallType)
  BY DEF Requests
<1>2. /\ Rest(i, Overtaken(i)) /\ Rest(i, Without(i))
      /\ \A k \in 1 .. Len(calls) - 1 :
           Overtaken(i)[k] = IF Without(i)[k].op = "list" THEN Late(Without(i)[k]) ELSE Without(i)[k]
  BY <1>1, RestIs
<1>3. /\ DOMAIN Overtaken(i) = 1 .. Len(calls) - 1 /\ DOMAIN Without(i) = 1 .. Len(calls) - 1
      /\ Without(i) \in Seq(CallType)
  BY <1>2 DEF Rest
<1>4. ASSUME NEW k \in DOMAIN Overtaken(i), Overtaken(i)[k].op = "list" PROVE Overtaken(i)[k].passed
  <2>1. Without(i)[k] \in CallType
    BY <1>3
  <2>2. QED
    BY <1>2, <1>3, <1>4, <2>1, LateIs
<1>5. \A k \in DOMAIN Overtaken(i) : ~Awaited(Overtaken(i), "list", k)
  BY <1>4 DEF Awaited
<1>6. QED
  BY <1>4, <1>5 DEF NoneAwaited, InOrder, Newest, Latest, Awaited

-----------------------------------------------------------------------------
(* The rows at the server: an id is a key, and stays one.                  *)

LEMMA RowIs ==
  /\ \A row \in AnyRow : row.id \in AnyId /\ row.tag \in Tags \cup {Blank}
                         /\ (row.id \in Ids /\ row.tag \in Tags => row \in Row)
  /\ \A row \in Row : row \in AnyRow /\ row.id \in Ids /\ row.tag \in Tags /\ row # NoRow
  /\ \A id \in AnyId, tag \in Tags \cup {Blank} : [id |-> id, tag |-> tag] \in AnyRow
  /\ NoRow \in AnyRow /\ NoRow.id = Nobody /\ NoRow.tag = Blank
  BY TabAssumption DEF AnyRow, Row, AnyId, NoRow

LEMMA RowsIds ==
  ASSUME NEW seq \in Seq(Row)
  PROVE  IdsOf(seq) \subseteq Ids /\ \A i \in DOMAIN seq : seq[i] \in Row /\ seq[i].id \in IdsOf(seq)
<1>1. \A i \in DOMAIN seq : seq[i] \in Row
  OBVIOUS
<1>2. \A i \in DOMAIN seq : seq[i].id \in Ids
  BY <1>1, RowIs
<1>3. QED
  BY <1>1, <1>2 DEF IdsOf

\* A sequence whose members are at positions of their own in another one.
LEMMA PartDistinct ==
  ASSUME NEW seq, Distinct(seq), NEW part, NEW f,
         \A k \in DOMAIN part : f[k] \in DOMAIN seq /\ part[k] = seq[f[k]],
         \A j, k \in DOMAIN part : f[j] = f[k] => j = k
  PROVE  Distinct(part) /\ IdsOf(part) \subseteq IdsOf(seq)
<1>1. Distinct(part)
  <2> SUFFICES ASSUME NEW j \in DOMAIN part, NEW k \in DOMAIN part, part[j].id = part[k].id PROVE j = k
    BY DEF Distinct
  <2>1. f[j] \in DOMAIN seq /\ f[k] \in DOMAIN seq /\ seq[f[j]].id = seq[f[k]].id
    OBVIOUS
  <2>2. f[j] = f[k]
    BY <2>1 DEF Distinct
  <2>3. QED
    BY <2>2
<1>2. QED
  BY <1>1 DEF IdsOf

LEMMA KeptRows ==
  ASSUME NEW seq \in Seq(Row), NEW P \in SUBSET (DOMAIN seq)
  PROVE  /\ Kept(seq, P) \in Seq(Row) /\ IdsOf(Kept(seq, P)) = {seq[i].id : i \in P}
         /\ Distinct(seq) => Distinct(Kept(seq, P))
<1> DEFINE kept == Kept(seq, P)
           f == [k \in DOMAIN kept |-> Nth(P, k)]
<1>1. /\ kept \in Seq(Row)
      /\ \A k \in DOMAIN kept : Nth(P, k) \in P /\ kept[k] = seq[Nth(P, k)]
      /\ \A j, k \in DOMAIN kept : j < k => Nth(P, j) < Nth(P, k)
      /\ \A i \in P : \E k \in DOMAIN kept : Nth(P, k) = i
  BY KeptIs
<1>2. DOMAIN kept = 1 .. Len(kept) /\ Len(kept) \in Nat /\ \A i \in P : i \in Nat
  BY <1>1
<1> HIDE DEF kept
<1>3. \A k \in DOMAIN kept : f[k] \in DOMAIN seq /\ kept[k] = seq[f[k]]
  BY <1>1
<1>4. ASSUME NEW j \in DOMAIN kept, NEW k \in DOMAIN kept, f[j] = f[k] PROVE j = k
  <2>1. j \in Nat /\ k \in Nat
    BY <1>2
  <2>2. Nth(P, j) = Nth(P, k) /\ Nth(P, j) \in Nat /\ Nth(P, k) \in Nat
    BY <1>1, <1>2, <1>4
  <2>3. ~ (j < k) /\ ~ (k < j)
    BY <1>1, <2>2
  <2>4. QED
    BY <2>1, <2>3
<1>5. Distinct(seq) => Distinct(kept)
  <2> HIDE DEF f
  <2>1. QED
    BY <1>3, <1>4, PartDistinct
<1>6. IdsOf(kept) = {seq[i].id : i \in P}
  BY <1>1 DEF IdsOf
<1>7. QED
  BY <1>1, <1>5, <1>6 DEF kept

LEMMA MinusIs ==
  ASSUME NEW seq \in Seq(Row), NEW id
  PROVE  /\ Minus(seq, id) \in Seq(Row) /\ IdsOf(Minus(seq, id)) = IdsOf(seq) \ {id}
         /\ Distinct(seq) => Distinct(Minus(seq, id))
<1> DEFINE P == {i \in DOMAIN seq : seq[i].id # id}
<1>1. P \in SUBSET (DOMAIN seq)
  OBVIOUS
<1>2. {seq[i].id : i \in P} = IdsOf(seq) \ {id}
  BY DEF IdsOf
<1>3. Minus(seq, id) = Kept(seq, P)
  BY DEF Minus
<1> HIDE DEF P
<1>4. QED
  BY <1>1, <1>2, <1>3, KeptRows

LEMMA PutFirst ==
  ASSUME NEW seq \in Seq(Row), NEW row \in Row
  PROVE  /\ <<row>> \o seq \in Seq(Row) /\ IdsOf(<<row>> \o seq) = {row.id} \cup IdsOf(seq)
         /\ Distinct(seq) /\ row.id \notin IdsOf(seq) => Distinct(<<row>> \o seq)
<1> DEFINE new == <<row>> \o seq
           n == Len(seq)
<1>1. n \in Nat /\ DOMAIN seq = 1 .. n
  OBVIOUS
<1>2. <<row>> \in Seq(Row) /\ Len(<<row>>) = 1
  OBVIOUS
<1>3. /\ new \in Seq(Row) /\ Len(new) = 1 + n
      /\ \A i \in 1 .. 1 + n : new[i] = IF i <= 1 THEN <<row>>[i] ELSE seq[i - 1]
  BY <1>2, ConcatProperties
<1>4. DOMAIN new = 1 .. 1 + n
  BY <1>3
<1>5. new[1] = row
  BY <1>1, <1>3
<1> HIDE DEF new, n
<1>6. \A i \in 1 .. n : i + 1 \in DOMAIN new /\ new[i + 1] = seq[i]
  BY <1>1, <1>3, <1>4
<1>7. \A k \in DOMAIN new : k = 1 \/ (k - 1 \in 1 .. n /\ new[k] = seq[k - 1])
  BY <1>1, <1>3, <1>4
<1>8. IdsOf(new) = {row.id} \cup IdsOf(seq)
  <2>1. 1 \in DOMAIN new
    BY <1>1, <1>4
  <2>2. QED
    BY <1>1, <1>5, <1>6, <1>7, <2>1 DEF IdsOf
<1>9. ASSUME Distinct(seq), row.id \notin IdsOf(seq) PROVE Distinct(new)
  <2> SUFFICES ASSUME NEW j \in DOMAIN new, NEW k \in DOMAIN new, new[j].id = new[k].id PROVE j = k
    BY DEF Distinct
  <2>1. \A i \in 1 .. n : seq[i].id # row.id
    BY <1>1, <1>9 DEF IdsOf
  <2>2. j \in Nat /\ k \in Nat
    BY <1>4
  <2>3. CASE j = 1 \/ k = 1
    BY <1>5, <1>7, <2>1, <2>3
  <2>4. CASE j # 1 /\ k # 1
    <3>1. j - 1 \in 1 .. n /\ k - 1 \in 1 .. n /\ seq[j - 1].id = seq[k - 1].id
      BY <1>7, <2>4
    <3>2. j - 1 = k - 1
      BY <1>1, <1>9, <3>1 DEF Distinct
    <3>3. QED
      BY <2>2, <3>2
  <2>5. QED
    BY <2>3, <2>4
<1>10. QED
  BY <1>3, <1>8, <1>9 DEF new

\* A stretch of a sequence.
LEMMA SliceDistinct ==
  ASSUME NEW S, NEW seq \in Seq(S), Distinct(seq), NEW m \in Nat \ {0}, NEW n \in Nat, n <= Len(seq)
  PROVE  /\ SubSeq(seq, m, n) \in Seq(S) /\ Distinct(SubSeq(seq, m, n))
         /\ IdsOf(SubSeq(seq, m, n)) \subseteq IdsOf(seq)
         /\ Len(SubSeq(seq, m, n)) = IF m <= n THEN n - m + 1 ELSE 0
<1> DEFINE part == SubSeq(seq, m, n)
           f == [k \in DOMAIN part |-> m + k - 1]
<1>1. Len(seq) \in Nat /\ DOMAIN seq = 1 .. Len(seq) /\ \A i \in m .. n : seq[i] \in S
  OBVIOUS
<1>2. /\ part \in Seq(S) /\ Len(part) = IF m <= n THEN n - m + 1 ELSE 0
      /\ \A i \in 1 .. n - m + 1 : part[i] = seq[m + i - 1]
  BY <1>1, SubSeqProperties
<1>3. DOMAIN part = 1 .. Len(part) /\ Len(part) \in Nat
  BY <1>2
<1> HIDE DEF part
<1>4. \A k \in DOMAIN part : f[k] \in DOMAIN seq /\ part[k] = seq[f[k]]
  BY <1>1, <1>2, <1>3
<1>5. \A j, k \in DOMAIN part : f[j] = f[k] => j = k
  BY <1>3
<1> HIDE DEF f
<1>6. Distinct(part) /\ IdsOf(part) \subseteq IdsOf(seq)
  BY <1>4, <1>5, PartDistinct
<1>7. QED
  BY <1>2, <1>6 DEF part

LEMMA PageIs ==
  ASSUME rows \in Seq(Row), Distinct(rows), NEW q \in QueryType
  PROVE  /\ PageOf(q) \in Seq(Row) /\ Distinct(PageOf(q)) /\ IdsOf(PageOf(q)) \subseteq IdsOf(rows)
         /\ Len(Found(q)) \in Nat
<1> DEFINE P == {i \in DOMAIN rows : Matches(rows[i], q)}
           found == Found(q)
           n == IF q.offset + q.limit < Len(found) THEN q.offset + q.limit ELSE Len(found)
<1>1. P \in SUBSET (DOMAIN rows) /\ found = Kept(rows, P)
  BY DEF Found
<1> HIDE DEF P
<1>2. found \in Seq(Row) /\ Distinct(found) /\ IdsOf(found) = {rows[i].id : i \in P}
  BY <1>1, KeptRows
<1>3. IdsOf(found) \subseteq IdsOf(rows) /\ Len(found) \in Nat
  <2>1. {rows[i].id : i \in P} \subseteq IdsOf(rows)
    BY <1>1 DEF IdsOf
  <2> HIDE DEF found
  <2>2. Len(found) \in Nat
    BY <1>2
  <2>3. QED
    BY <1>2, <2>1, <2>2
<1>4. PageOf(q) = SubSeq(found, q.offset + 1, n)
  BY DEF PageOf
<1> HIDE DEF found
<1>5. q.offset + 1 \in Nat \ {0} /\ n \in Nat /\ n <= Len(found)
  BY <1>3 DEF QueryType
<1> HIDE DEF n
<1>6. QED
  BY <1>2, <1>3, <1>4, <1>5, SliceDistinct DEF found

-----------------------------------------------------------------------------
(* The server and the rest of the world.                                   *)

\* The pages do not see whether a request has been answered.
Alike(cs, ds) ==
  /\ DOMAIN ds = DOMAIN cs /\ Len(ds) = Len(cs) /\ (ds = <<>> <=> cs = <<>>)
  /\ \A k \in DOMAIN cs :
       /\ ds[k].op = cs[k].op /\ ds[k].query = cs[k].query /\ ds[k].row = cs[k].row
       /\ ds[k].passed = cs[k].passed

LEMMA AlikeIs ==
  ASSUME NEW cs, NEW ds, Alike(cs, ds)
  PROVE  /\ \A op : (Has(ds, op) <=> Has(cs, op)) /\ (NoneAwaited(ds, op) <=> NoneAwaited(cs, op))
         /\ \A op : InOrder(cs, op) => InOrder(ds, op)
         /\ \A op : \A d \in Newest(ds, op) : \E c \in Newest(cs, op) : d.query = c.query /\ d.row = c.row
         /\ Creates(ds) <=> Creates(cs)
<1>1. \A op, k : Awaited(ds, op, k) <=> Awaited(cs, op, k)
  BY DEF Alike, Awaited
<1>2. \A op : (Has(ds, op) <=> Has(cs, op)) /\ (NoneAwaited(ds, op) <=> NoneAwaited(cs, op))
  BY <1>1 DEF Alike, Has, NoneAwaited
<1>3. \A op : InOrder(cs, op) => InOrder(ds, op)
  BY <1>1 DEF Alike, InOrder
<1>4. \A op, k : Latest(ds, op, k) <=> Latest(cs, op, k)
  BY <1>1 DEF Alike, Latest
<1>5. ASSUME NEW op, NEW d \in Newest(ds, op)
      PROVE  \E c \in Newest(cs, op) : d.query = c.query /\ d.row = c.row
  <2>1. PICK k \in DOMAIN ds : Latest(ds, op, k) /\ d = ds[k]
    BY DEF Newest
  <2>2. cs[k] \in Newest(cs, op)
    BY <1>4, <2>1 DEF Alike, Newest
  <2>3. QED
    BY <2>1, <2>2 DEF Alike
<1>6. Creates(ds) <=> Creates(cs)
  BY DEF Alike, Creates
<1>7. QED
  BY <1>2, <1>3, <1>5, <1>6

LEMMA WebAlike ==
  ASSUME NEW cs, NEW ds, Alike(cs, ds), NEW u, NEW sh
  PROVE  /\ WebInv(u, cs, sh) => WebInv(u, ds, sh)
         /\ WebList(u, cs, sh) => WebList(u, ds, sh)
         /\ ThreatInv(u, cs, sh) => ThreatInv(u, ds, sh)
         /\ DashInv(u, cs, sh) => DashInv(u, ds, sh)
         /\ OneLoadInv(u, cs, sh) => OneLoadInv(u, ds, sh)
         /\ ShellInv(u, cs) => ShellInv(u, ds)
<1>1. /\ \A op : (Has(ds, op) <=> Has(cs, op)) /\ (NoneAwaited(ds, op) <=> NoneAwaited(cs, op))
      /\ \A op : InOrder(cs, op) => InOrder(ds, op)
      /\ \A op : \A d \in Newest(ds, op) : \E c \in Newest(cs, op) : d.query = c.query /\ d.row = c.row
  BY AlikeIs
<1>2. WebList(u, cs, sh) => WebList(u, ds, sh)
  BY <1>1 DEF WebList
<1>3. WebInv(u, cs, sh) => WebInv(u, ds, sh)
  BY <1>1, <1>2 DEF WebInv, WebFlags
<1>4. ThreatInv(u, cs, sh) => ThreatInv(u, ds, sh)
  BY <1>1 DEF ThreatInv, Alike
<1>5. DashInv(u, cs, sh) => DashInv(u, ds, sh)
  BY <1>1 DEF DashInv
<1>6. OneLoadInv(u, cs, sh) => OneLoadInv(u, ds, sh)
  BY DEF OneLoadInv, Alike
<1>7. ShellInv(u, cs) => ShellInv(u, ds)
  BY DEF ShellInv, Alike
<1>8. QED
  BY <1>2, <1>3, <1>4, <1>5, <1>6, <1>7

LEMMA AdminAlike ==
  ASSUME NEW cs, NEW ds, Alike(cs, ds), NEW u, NEW sh
  PROVE  /\ AdminInv(u, cs, sh) => AdminInv(u, ds, sh)
         /\ OnePage(u, cs) => OnePage(u, ds)
         /\ DialogInv(u, cs, sh) => DialogInv(u, ds, sh)
         /\ SettingsInv(u, cs, sh) => SettingsInv(u, ds, sh)
         /\ AdminSettingsInv(u, cs, sh) => AdminSettingsInv(u, ds, sh)
         /\ GovernanceInv(u, cs, sh) => GovernanceInv(u, ds, sh)
<1>1. /\ \A op : (Has(ds, op) <=> Has(cs, op)) /\ (NoneAwaited(ds, op) <=> NoneAwaited(cs, op))
      /\ \A op : InOrder(cs, op) => InOrder(ds, op)
      /\ \A op : \A d \in Newest(ds, op) : \E c \in Newest(cs, op) : d.query = c.query /\ d.row = c.row
      /\ Creates(ds) <=> Creates(cs)
  BY AlikeIs
<1>2. AdminInv(u, cs, sh) => AdminInv(u, ds, sh)
  BY <1>1 DEF AdminInv
<1>3. OnePage(u, cs) => OnePage(u, ds)
  BY DEF OnePage, Alike
<1>4. DialogInv(u, cs, sh) => DialogInv(u, ds, sh)
  BY <1>1 DEF DialogInv
<1>5. SettingsInv(u, cs, sh) => SettingsInv(u, ds, sh)
  BY <1>1 DEF SettingsInv
<1>6. AdminSettingsInv(u, cs, sh) => AdminSettingsInv(u, ds, sh)
  BY <1>1 DEF AdminSettingsInv, Alike
<1>7. GovernanceInv(u, cs, sh) => GovernanceInv(u, ds, sh)
  BY <1>1 DEF GovernanceInv
<1>8. QED
  BY <1>2, <1>3, <1>4, <1>5, <1>6, <1>7

\* What the page sees stays.
LEMMA PageSeesNothing ==
  ASSUME FrontEndInv, Alike(calls, calls'), page' = page, ui' = ui, shown' = shown, TabInv'
  PROVE  FrontEndInv'
<1>1. page \in Widgets => calls' = <<>>
  BY DEF FrontEndInv, Alike
<1>2. WebPages'
  BY WebAlike DEF FrontEndInv, WebPages
<1>3. FigurePages'
  <2>1. InOrder(calls, "list") => InOrder(calls', "list")
    BY AlikeIs
  <2>2. QED
    BY <2>1, WebAlike DEF FrontEndInv, FigurePages
<1>4. AdminPages'
  BY AdminAlike DEF FrontEndInv, AdminPages
<1>5. FormPages'
  BY AdminAlike DEF FrontEndInv, FormPages
<1>6. LandingPages'
  BY DEF FrontEndInv, LandingPages
<1>7. QED
  BY <1>1, <1>2, <1>3, <1>4, <1>5, <1>6 DEF FrontEndInv

LEMMA AnsweredIs ==
  ASSUME calls \in Seq(CallType), NEW i \in DOMAIN calls,
         NEW ok \in BOOLEAN, NEW answer \in Seq(Row), NEW total \in Nat, Answered(i, ok, answer, total)
  PROVE  /\ Alike(calls, calls') /\ calls' \in Seq(CallType)
         /\ \A k \in DOMAIN calls : k # i => calls'[k] = calls[k]
         /\ calls'[i].op = calls[i].op /\ calls'[i].row = calls[i].row /\ calls'[i].passed = calls[i].passed
         /\ calls'[i].done /\ calls'[i].ok = ok /\ calls'[i].answer = answer
<1> DEFINE c == [calls[i] EXCEPT !.done = TRUE, !.ok = ok, !.answer = answer, !.total = total]
<1>1. DOMAIN calls = 1 .. Len(calls) /\ Len(calls) \in Nat /\ calls[i] \in CallType
  OBVIOUS
<1>2. /\ c \in CallType /\ c.op = calls[i].op /\ c.row = calls[i].row /\ c.passed = calls[i].passed
      /\ c.query = calls[i].query /\ c.done /\ c.ok = ok /\ c.answer = answer
  BY <1>1 DEF CallType
<1>3. calls' = [calls EXCEPT ![i] = c]
  BY <1>1 DEF Answered, CallType
<1> HIDE DEF c
<1>4. calls' \in Seq(CallType) /\ Len(calls') = Len(calls)
  BY <1>2, <1>3, ExceptSeq
<1>5. DOMAIN calls' = DOMAIN calls /\ calls'[i] = c /\ \A k \in DOMAIN calls : k # i => calls'[k] = calls[k]
  BY <1>3
<1>6. calls # <<>> /\ calls' # <<>>
  BY <1>1, <1>4
<1>7. Alike(calls, calls')
  BY <1>2, <1>4, <1>5, <1>6 DEF Alike
<1>8. QED
  BY <1>2, <1>4, <1>5, <1>7

\* The conditions under which an answer, with what it does to the rows, is sound.
LEMMA AnsweredKeeps ==
  ASSUME TabInv, NEW i \in DOMAIN calls,
         NEW ok \in BOOLEAN, NEW answer \in Seq(Row), NEW total \in Nat, Answered(i, ok, answer, total),
         shown' = shown, left' = left, rows' \in Seq(Row), Distinct(rows'),
         gone \subseteq gone', gone' \in SUBSET Ids, IdsOf(rows') \cap gone' = {},
         calls[i].op = "create" /\ ok => Len(answer) = 1,
         calls[i].op = "save" /\ ok => calls[i].row \in Row,
         calls[i].op = "delete" => calls[i].row.id \in gone',
         calls[i].op = "list" => Distinct(answer) /\ IdsOf(answer) \cap shown.told = {}
  PROVE  TabInv' /\ Alike(calls, calls')
<1>1. /\ calls \in Seq(CallType) /\ \A k \in DOMAIN calls : Sound(calls[k], shown.told, gone)
      /\ shown.told \subseteq gone
  BY DEF TabInv, Requests, ServerInv
<1>2. /\ Alike(calls, calls') /\ calls' \in Seq(CallType)
      /\ \A k \in DOMAIN calls : k # i => calls'[k] = calls[k]
      /\ calls'[i].op = calls[i].op /\ calls'[i].row = calls[i].row /\ calls'[i].passed = calls[i].passed
      /\ calls'[i].done /\ calls'[i].ok = ok /\ calls'[i].answer = answer
  BY <1>1, AnsweredIs
<1>3. \A k \in DOMAIN calls : k # i => Sound(calls'[k], shown.told, gone')
  BY <1>1, <1>2 DEF Sound
<1>4. Sound(calls'[i], shown.told, gone')
  BY <1>1, <1>2 DEF Sound
<1>5. Requests(calls, shown.told)'
  BY <1>2, <1>3, <1>4 DEF Requests, Alike
<1>6. ServerInv'
  BY <1>1 DEF TabInv, ServerInv
<1>7. QED
  BY <1>2, <1>5, <1>6 DEF TabInv

LEMMA ServeKeeps ==
  ASSUME TabInv, Serve
  PROVE  TabInv' /\ Alike(calls, calls')
<1>1. PICK i \in DOMAIN calls :
        \/ ServeList(i) \/ ServeDetail(i) \/ ServeOther(i)
        \/ ServeCreate(i) \/ ServeSave(i) \/ ServeDelete(i)
  BY DEF Serve
<1> DEFINE c == calls[i]
<1>2. c \in CallType /\ Sound(c, shown.told, gone)
  BY DEF TabInv, Requests
<1>3. /\ rows \in Seq(Row) /\ Distinct(rows) /\ gone \in SUBSET Ids /\ IdsOf(rows) \cap gone = {}
      /\ shown.told \subseteq gone /\ shown' = shown /\ left' = left
  BY DEF TabInv, ServerInv, Serve
<1>4. /\ c.query \in QueryType /\ c.row \in AnyRow /\ <<>> \in Seq(Row) /\ IdsOf(rows) \subseteq Ids
      /\ c.row.id \in Ids /\ c.row.tag \in Tags => c.row \in Row
  <2>1. c.query \in QueryType /\ c.row \in AnyRow
    BY <1>2 DEF CallType
  <2> HIDE DEF c
  <2>2. <<>> \in Seq(Row)
    OBVIOUS
  <2>3. QED
    BY <1>3, <2>1, <2>2, RowIs, RowsIds
<1>5. CASE ServeList(i)
  <2>1. /\ PageOf(c.query) \in Seq(Row) /\ Distinct(PageOf(c.query))
        /\ IdsOf(PageOf(c.query)) \subseteq IdsOf(rows) /\ Len(Found(c.query)) \in Nat
    BY <1>3, <1>4, PageIs
  <2>2. /\ c.op = "list" /\ rows' = rows /\ gone' = gone
        /\ Answered(i, TRUE, PageOf(c.query), Len(Found(c.query)))
    BY <1>5 DEF ServeList
  <2>3. IdsOf(PageOf(c.query)) \cap shown.told = {}
    BY <1>3, <2>1
  <2>4. QED
    BY <1>3, <2>1, <2>2, <2>3, AnsweredKeeps
<1>6. CASE ServeDetail(i)
  <2>1. c.op = "detail" /\ rows' = rows /\ gone' = gone /\ Answered(i, c.row.id \in IdsOf(rows), <<>>, 0)
    BY <1>6 DEF ServeDetail
  <2>2. (c.row.id \in IdsOf(rows)) \in BOOLEAN
    OBVIOUS
  <2> HIDE DEF c
  <2>3. QED
    BY <1>3, <1>4, <2>1, <2>2, AnsweredKeeps DEF c
<1>7. CASE ServeOther(i)
  <2>1. /\ c.op \notin {"create", "save", "delete", "list"}
        /\ rows' = rows /\ gone' = gone /\ Answered(i, TRUE, <<>>, 0)
    BY <1>7 DEF ServeOther, OtherOperations
  <2>2. QED
    BY <1>3, <1>4, <2>1, AnsweredKeeps
<1>8. CASE ServeCreate(i)
  <2>0. c.op = "create" /\ gone' = gone
    BY <1>8 DEF ServeCreate
  <2>1. CASE FreshIds = {}
    <3>1. rows' = rows /\ Answered(i, FALSE, <<>>, 0)
      BY <1>8, <2>1 DEF ServeCreate
    <3>2. QED
      BY <1>3, <1>4, <2>0, <3>1, AnsweredKeeps
  <2>2. CASE FreshIds # {}
    <3> DEFINE row == [id |-> CHOOSE id \in FreshIds : TRUE, tag |-> c.row.tag]
    <3>1. rows' = <<row>> \o rows /\ Answered(i, TRUE, <<row>>, 0)
      BY <1>8, <2>2 DEF ServeCreate
    <3>2. row.id \in FreshIds
      BY <2>2
    <3>3. row \in Row /\ row.id \notin IdsOf(rows) /\ row.id \notin gone
      BY <1>2, <2>0, <3>2 DEF FreshIds, Sound, Row
    <3> HIDE DEF row
    <3>4. /\ rows' \in Seq(Row) /\ IdsOf(rows') = {row.id} \cup IdsOf(rows) /\ Distinct(rows')
      BY <1>3, <3>1, <3>3, PutFirst
    <3>5. <<row>> \in Seq(Row) /\ Len(<<row>>) = 1
      BY <3>3
    <3>6. IdsOf(rows') \cap gone' = {}
      BY <1>3, <2>0, <3>3, <3>4
    <3>7. QED
      BY <1>3, <2>0, <3>1, <3>4, <3>5, <3>6, AnsweredKeeps
  <2>3. QED
    BY <2>1, <2>2
<1>9. CASE ServeSave(i)
  <2>0. c.op = "save" /\ gone' = gone
    BY <1>9 DEF ServeSave
  <2>1. CASE c.row.id \in IdsOf(rows) /\ c.row.tag \in Tags
    <3>1. rows' = <<c.row>> \o Others(c.row.id) /\ Answered(i, TRUE, <<c.row>>, 0)
      BY <1>9, <2>1 DEF ServeSave
    <3>2. c.row \in Row /\ c.row.id \notin gone
      BY <1>3, <1>4, <2>1
    <3>3. /\ Others(c.row.id) \in Seq(Row) /\ Distinct(Others(c.row.id))
          /\ IdsOf(Others(c.row.id)) = IdsOf(rows) \ {c.row.id}
      BY <1>3, MinusIs DEF Others
    <3>4. /\ rows' \in Seq(Row) /\ IdsOf(rows') = {c.row.id} \cup IdsOf(Others(c.row.id)) /\ Distinct(rows')
      BY <3>1, <3>2, <3>3, PutFirst
    <3>5. <<c.row>> \in Seq(Row)
      BY <3>2
    <3>6. IdsOf(rows') \cap gone' = {}
      BY <1>3, <2>0, <3>2, <3>3, <3>4
    <3>7. QED
      BY <1>3, <2>0, <3>1, <3>2, <3>4, <3>5, <3>6, AnsweredKeeps
  <2>2. CASE ~ (c.row.id \in IdsOf(rows) /\ c.row.tag \in Tags)
    <3>1. rows' = rows /\ Answered(i, FALSE, <<>>, 0)
      BY <1>9, <2>2 DEF ServeSave
    <3>2. QED
      BY <1>3, <1>4, <2>0, <3>1, AnsweredKeeps
  <2>3. QED
    BY <2>1, <2>2
<1>10. CASE ServeDelete(i)
  <2>1. /\ c.op = "delete" /\ rows' = Others(c.row.id) /\ gone' = gone \cup {c.row.id}
        /\ Answered(i, c.row.id \in IdsOf(rows), <<>>, 0) /\ (c.row.id \in IdsOf(rows)) \in BOOLEAN
    BY <1>10 DEF ServeDelete
  <2>2. c.row.id \in Ids
    BY <1>2, <2>1 DEF Sound
  <2>3. /\ rows' \in Seq(Row) /\ Distinct(rows') /\ IdsOf(rows') = IdsOf(rows) \ {c.row.id}
    BY <1>3, <2>1, MinusIs DEF Others
  <2>4. gone' \in SUBSET Ids /\ IdsOf(rows') \cap gone' = {} /\ gone \subseteq gone' /\ c.row.id \in gone'
    BY <1>3, <2>1, <2>2, <2>3
  <2> HIDE DEF c
  <2>5. QED
    BY <1>3, <1>4, <2>1, <2>3, <2>4, AnsweredKeeps DEF c
<1>11. QED
  BY <1>1, <1>5, <1>6, <1>7, <1>8, <1>9, <1>10

LEMMA SpendIs ==
  ASSUME left \in 0 .. MaxSteps, Spend
  PROVE  left' \in 0 .. MaxSteps
  BY TabAssumption DEF Spend

LEMMA WorldKeeps ==
  ASSUME TabInv, World
  PROVE  TabInv'
<1>1. /\ rows \in Seq(Row) /\ Distinct(rows) /\ gone \in SUBSET Ids /\ IdsOf(rows) \cap gone = {}
      /\ shown \in ShownType /\ shown.told \subseteq gone /\ shown' = shown /\ calls' = calls
      /\ left' \in 0 .. MaxSteps
  BY SpendIs DEF TabInv, ServerInv, World
<1>2. /\ rows' \in Seq(Row) /\ Distinct(rows') /\ gone' \in SUBSET Ids /\ IdsOf(rows') \cap gone' = {}
      /\ gone \subseteq gone'
  <2>1. CASE \E id \in FreshIds : rows' = <<[id |-> id, tag |-> "on"]>> \o rows /\ gone' = gone
    <3>1. PICK id \in FreshIds : rows' = <<[id |-> id, tag |-> "on"]>> \o rows /\ gone' = gone
      BY <2>1
    <3> DEFINE row == [id |-> id, tag |-> "on"]
    <3>2. row \in Row /\ row.id \notin IdsOf(rows) /\ row.id \notin gone
      BY DEF FreshIds, Row, Tags
    <3>3. rows' = <<row>> \o rows
      BY <3>1
    <3> HIDE DEF row
    <3>4. rows' \in Seq(Row) /\ IdsOf(rows') = {row.id} \cup IdsOf(rows) /\ Distinct(rows')
      BY <1>1, <3>2, <3>3, PutFirst
    <3>5. QED
      BY <1>1, <3>1, <3>2, <3>4
  <2>2. CASE rows # <<>> /\ rows' = Tail(rows) /\ gone' = gone \cup {rows[1].id}
    <3> DEFINE n == Len(rows)
    <3>1. n \in Nat /\ 1 \in 1 .. n /\ DOMAIN rows = 1 .. n /\ rows[1] \in Row
      BY <1>1, <2>2
    <3>2. /\ rows' \in Seq(Row) /\ Len(rows') = n - 1 /\ \A k \in 1 .. Len(rows') : rows'[k] = rows[k + 1]
      BY <1>1, <2>2, HeadTailProperties
    <3>3. DOMAIN rows' = 1 .. n - 1
      BY <3>2
    <3> HIDE DEF n
    <3>4. \A k \in DOMAIN rows' : k + 1 \in DOMAIN rows /\ k + 1 # 1 /\ rows'[k] = rows[k + 1]
      BY <3>1, <3>2, <3>3
    <3>5. \A k \in DOMAIN rows' : rows'[k].id # rows[1].id
      BY <1>1, <3>1, <3>4 DEF Distinct
    <3> DEFINE f == [k \in DOMAIN rows' |-> k + 1]
    <3>6. /\ \A k \in DOMAIN rows' : f[k] \in DOMAIN rows /\ rows'[k] = rows[f[k]]
          /\ \A j, k \in DOMAIN rows' : f[j] = f[k] => j = k
      BY <3>3, <3>4
    <3> HIDE DEF f
    <3>7. Distinct(rows') /\ IdsOf(rows') \subseteq IdsOf(rows)
      BY <1>1, <3>6, PartDistinct
    <3>8. rows[1].id \notin IdsOf(rows') /\ rows[1].id \in Ids
      BY <3>1, <3>5 DEF IdsOf, Row
    <3>9. QED
      BY <1>1, <2>2, <3>2, <3>7, <3>8
  <2>3. QED
    BY <2>1, <2>2 DEF World
<1>3. Requests(calls, shown.told)'
  BY <1>1, <1>2 DEF TabInv, Requests, Sound
<1>4. QED
  BY <1>1, <1>2, <1>3 DEF TabInv, ServerInv

-----------------------------------------------------------------------------
(* What every step of a page has to keep.                                  *)

LEMMA TabKept ==
  ASSUME TabInv, rows' = rows, gone' = gone, left' \in 0 .. MaxSteps,
         shown' \in ShownType, shown'.told \subseteq gone, Requests(calls', shown'.told)
  PROVE  TabInv'
  BY DEF TabInv, ServerInv, Requests, Sound

LEMMA EndsIs ==
  ASSUME left \in 0 .. MaxSteps, NEW i \in DOMAIN calls, NEW ok \in BOOLEAN, Ends(i, ok)
  PROVE  left' \in 0 .. MaxSteps /\ (ok => calls[i].done /\ calls[i].ok)
  BY TabAssumption DEF Ends

LEMMA QueryIs ==
  /\ AnyQuery \in QueryType
  /\ \A u : u.offset \in Nat /\ u.limit \in Nat /\ u.filter \in AnyFilter /\ u.search \in AnyId
              => Query(u) \in QueryType
  /\ \A u : /\ Query(u).offset = u.offset /\ Query(u).limit = u.limit
            /\ Query(u).filter = u.filter /\ Query(u).search = u.search
<1>1. Cardinality(Ids) \in Nat
  BY TabAssumption, FS_CardinalityType
<1>2. QED
  BY <1>1 DEF AnyQuery, QueryType, Query, AnyFilter, AnyId

LEMMA CallIs ==
  ASSUME NEW op \in RowOperations \cup OtherOperations, NEW query \in QueryType, NEW sel \in AnyId,
         NEW row \in AnyRow, NEW items \in Seq(Row)
  PROVE  /\ Call(op, query, sel, row, items) \in CallType
         /\ Call(op, query, sel, row, items).op = op /\ Call(op, query, sel, row, items).query = query
         /\ Call(op, query, sel, row, items).row = row /\ ~Call(op, query, sel, row, items).passed
         /\ \A told, deleted :
              (op = "create" => row.tag \in Tags) /\ (op = "delete" => row.id \in Ids)
                => Sound(Call(op, query, sel, row, items), told, deleted)
<1> DEFINE c == Call(op, query, sel, row, items)
<1>1. c \in CallType
  <2>1. <<>> \in Seq(Row)
    OBVIOUS
  <2>2. QED
    BY <2>1 DEF Call, CallType
<1>2. c.op = op /\ c.query = query /\ c.row = row /\ ~c.passed /\ ~c.done
  BY DEF Call
<1> HIDE DEF c
<1>3. \A told, deleted :
        (op = "create" => row.tag \in Tags) /\ (op = "delete" => row.id \in Ids) => Sound(c, told, deleted)
  BY <1>2 DEF Sound
<1>4. QED
  BY <1>1, <1>2, <1>3 DEF c

LEMMA RowCallIs ==
  ASSUME NEW op \in RowOperations \cup OtherOperations, NEW row \in AnyRow
  PROVE  /\ RowCall(op, row) \in CallType /\ RowCall(op, row).op = op /\ RowCall(op, row).row = row
         /\ ~RowCall(op, row).passed /\ RowCall(op, row).query = AnyQuery
         /\ \A told, deleted :
              (op = "create" => row.tag \in Tags) /\ (op = "delete" => row.id \in Ids)
                => Sound(RowCall(op, row), told, deleted)
<1> DEFINE none == <<>>
           c == RowCall(op, row)
<1>1. none \in Seq(Row) /\ Nobody \in AnyId /\ AnyQuery \in QueryType
  BY QueryIs DEF AnyId
<1>2. c = Call(op, AnyQuery, Nobody, row, none)
  BY DEF RowCall
<1> HIDE DEF none, c
<1>3. c \in CallType /\ c.op = op /\ c.query = AnyQuery /\ c.row = row /\ ~c.passed
  BY <1>1, <1>2, CallIs
<1>4. \A told, deleted :
        (op = "create" => row.tag \in Tags) /\ (op = "delete" => row.id \in Ids) => Sound(c, told, deleted)
  BY <1>1, <1>2, CallIs
<1>5. QED
  BY <1>3, <1>4 DEF c

-----------------------------------------------------------------------------
(* The pages of the web application with a list.                           *)

LEMMA WebUiIs ==
  ASSUME NEW u \in WebUi
  PROVE  /\ u.items \in Seq(Row) /\ u.total \in Nat /\ u.offset \in Nat /\ u.limit \in Nat
         /\ u.filter \in AnyFilter /\ u.search \in AnyId /\ u.sel \in AnyId /\ u.draft \in AnyRow
         /\ Query(u) \in QueryType
  BY QueryIs DEF WebUi

LEMMA ListCallIs ==
  ASSUME NEW u \in WebUi
  PROVE  /\ ListCall(u) \in CallType /\ ListCall(u).op = "list" /\ ListCall(u).query = Query(u)
         /\ ~ListCall(u).passed /\ \A told : Sound(ListCall(u), told, gone)
<1> DEFINE none == <<>>
           op == "list"
           c == ListCall(u)
<1>1. /\ Query(u) \in QueryType /\ u.sel \in AnyId /\ NoRow \in AnyRow /\ none \in Seq(Row)
      /\ op \in RowOperations \cup OtherOperations
  BY WebUiIs, RowIs DEF RowOperations
<1>2. c = Call(op, Query(u), u.sel, NoRow, none) /\ op \notin {"create", "delete"} /\ op = "list"
  BY DEF ListCall
<1> HIDE DEF none, op, c
<1>3. c \in CallType /\ c.op = op /\ c.query = Query(u) /\ ~c.passed
  BY <1>1, <1>2, CallIs
<1>4. \A told, deleted : Sound(c, told, deleted)
  BY <1>1, <1>2, CallIs
<1>5. QED
  BY <1>2, <1>3, <1>4 DEF c

\* What a handler leaves for the render.
Ready(u, cs, sh) ==
  /\ u \in WebUi /\ WebFlags(u, cs) /\ InOrder(cs, "list")
  /\ Reloads(u) \/ WebList(u, cs, sh)

LEMMA Reloaded ==
  ASSUME NEW u, NEW cs, NEW sh, Ready(u, cs, sh), Requests(cs, sh.told),
         NEW v \in WebUi, v.items = u.items, Query(v) = Query(u), v.loading = (u.loading \/ Reloads(u)),
         v.refreshing = u.refreshing, v.saving = u.saving, v.creating = u.creating,
         v.deleting = u.deleting
  PROVE  LET ds == IF Reloads(u) THEN Append(cs, ListCall(u)) ELSE cs
         IN  WebInv(v, ds, sh) /\ Requests(ds, sh.told)
<1>1. CASE Reloads(u)
  <2> DEFINE c == ListCall(u)
             ds == Append(cs, c)
  <2>1. /\ c \in CallType /\ c.op = "list" /\ c.query = Query(u) /\ ~c.passed
        /\ Sound(c, sh.told, gone)
    BY ListCallIs DEF Ready
  <2> HIDE DEF c
  <2>2. /\ Requests(ds, sh.told)
        /\ \A op : Has(ds, op) <=> Has(cs, op) \/ c.op = op
        /\ \A op : InOrder(cs, op) => InOrder(ds, op)
        /\ Newest(ds, c.op) = {c} /\ ~NoneAwaited(ds, c.op)
    BY <2>1, Sent
  <2> HIDE DEF ds
  <2>3. WebFlags(v, ds)
    BY <2>1, <2>2 DEF WebFlags, Ready
  <2>4. WebList(v, ds, sh)
    BY <2>1, <2>2 DEF WebList
  <2>5. WebInv(v, ds, sh)
    BY <2>1, <2>2, <2>3, <2>4 DEF WebInv, Ready
  <2>6. QED
    BY <1>1, <2>2, <2>5 DEF ds, c
<1>2. CASE ~Reloads(u)
  <2>1. WebFlags(v, cs)
    BY <1>2 DEF WebFlags, Ready, WebUi
  <2>2. WebList(v, cs, sh)
    BY <1>2 DEF WebList, Ready, Genuine
  <2>3. WebInv(v, cs, sh)
    BY <2>1, <2>2 DEF WebInv, Ready
  <2>4. QED
    BY <1>2, <2>3
<1>3. QED
  BY <1>1, <1>2

LEMMA RenderKeeps ==
  ASSUME ui \in WebUi, NEW u, NEW cs, NEW sh, Ready(u, cs, sh), Requests(cs, sh.told),
         NEW replaced \in BOOLEAN, Render(u, cs, replaced)
  PROVE  /\ WebInv(ui', calls', sh) /\ Requests(calls', sh.told)
         /\ DraftInv(ui) /\ u.draft = ui.draft => DraftInv(ui')
<1> DEFINE draft == IF Refills(u, replaced) THEN SelectedRow(u) ELSE u.draft
           loading == u.loading \/ Reloads(u)
<1>1. u \in WebUi /\ u.items \in Seq(Row) /\ u.draft \in AnyRow /\ ui.items \in Seq(Row) /\ u.loading \in BOOLEAN
  BY WebUiIs DEF Ready, WebUi
<1>2. SelectedRow(u) # NoRow => SelectedRow(u) \in AnyRow /\ SelectedRow(u).id = u.sel
  BY <1>1, SelectedIs, RowIs
<1>3. draft \in AnyRow /\ loading \in BOOLEAN
  BY <1>1, <1>2 DEF Refills, Reloads
<1>4. ui' = [u EXCEPT !.loading = loading, !.draft = draft]
  BY <1>1 DEF Render, WebUi
<1> HIDE DEF draft, loading
<1>5. /\ ui' \in WebUi /\ ui'.loading = loading /\ ui'.draft = draft
      /\ ui'.items = u.items /\ ui'.sel = u.sel /\ Query(ui') = Query(u) /\ ui'.refreshing = u.refreshing
      /\ ui'.saving = u.saving /\ ui'.creating = u.creating /\ ui'.deleting = u.deleting
  BY <1>1, <1>3, <1>4 DEF WebUi, Query
<1>6. calls' = IF Reloads(u) THEN Append(cs, ListCall(u)) ELSE cs
  BY DEF Render
<1>7. WebInv(ui', calls', sh) /\ Requests(calls', sh.told)
  BY <1>5, <1>6, Reloaded DEF loading
<1>8. ASSUME DraftInv(ui), u.draft = ui.draft PROVE DraftInv(ui')
  <2>1. SelectedRow(ui') = SelectedRow(u)
    BY <1>5, SelectedSame
  <2>2. CASE Refills(u, replaced)
    BY <1>2, <1>5, <2>1, <2>2 DEF DraftInv, draft
  <2>3. CASE ~Refills(u, replaced)
    <3>1. SelectedRow(u) # NoRow => SelectedRow(u) = SelectedRow(ui)
      BY <2>3 DEF Refills
    <3>2. SelectedRow(ui) # NoRow => SelectedRow(ui).id = ui.sel
      BY <1>1, SelectedIs
    <3>3. draft = ui.draft
      BY <1>8, <2>3 DEF draft
    <3>4. QED
      BY <1>2, <1>5, <1>8, <2>1, <3>1, <3>2, <3>3 DEF DraftInv
  <2>4. QED
    BY <2>2, <2>3
<1>9. QED
  BY <1>7, <1>8

\* The Refresh button.
LEMMA RefreshReady ==
  ASSUME TabInv, WebInv(ui, calls, shown)
  PROVE  LET u == [ui EXCEPT !.refreshing = TRUE]
             cs == Append(calls, ListCall(ui))
         IN  Ready(u, cs, shown) /\ Requests(cs, shown.told) /\ u.draft = ui.draft /\ u.sel = ui.sel
             /\ u.detail = ui.detail /\ u.detailLoading = ui.detailLoading
<1> DEFINE u == [ui EXCEPT !.refreshing = TRUE]
           c == ListCall(ui)
           cs == Append(calls, c)
<1>1. ui \in WebUi /\ WebFlags(ui, calls) /\ InOrder(calls, "list") /\ Requests(calls, shown.told)
  BY DEF WebInv, TabInv
<1>2. /\ u \in WebUi /\ Query(u) = Query(ui) /\ u.items = ui.items /\ u.loading = ui.loading
      /\ u.saving = ui.saving /\ u.creating = ui.creating /\ u.deleting = ui.deleting
      /\ u.draft = ui.draft /\ u.sel = ui.sel /\ u.detail = ui.detail /\ u.detailLoading = ui.detailLoading
  BY <1>1 DEF WebUi, Query
<1>3. c \in CallType /\ c.op = "list" /\ c.query = Query(ui) /\ ~c.passed /\ Sound(c, shown.told, gone)
  BY <1>1, ListCallIs
<1> HIDE DEF u, c
<1>4. /\ Requests(cs, shown.told)
      /\ \A op : Has(cs, op) <=> Has(calls, op) \/ c.op = op
      /\ \A op : InOrder(calls, op) => InOrder(cs, op)
      /\ Newest(cs, c.op) = {c} /\ ~NoneAwaited(cs, c.op)
  BY <1>1, <1>3, Sent
<1> HIDE DEF cs
<1>5. WebFlags(u, cs)
  BY <1>1, <1>2, <1>3, <1>4 DEF WebFlags
<1>6. WebList(u, cs, shown)
  BY <1>2, <1>3, <1>4 DEF WebList
<1>7. Ready(u, cs, shown)
  BY <1>1, <1>2, <1>3, <1>4, <1>5, <1>6 DEF Ready
<1>8. QED
  BY <1>2, <1>4, <1>7 DEF u, cs, c

\* The user turns the pages, filters or selects: either the effect loads the
\* list again, or what it loads is as it was.
LEMMA MoveReady ==
  ASSUME TabInv, WebInv(ui, calls, shown), NEW u \in WebUi, u.items = ui.items,
         u.loading = ui.loading, u.refreshing = ui.refreshing, u.saving = ui.saving,
         u.creating = ui.creating, u.deleting = ui.deleting
  PROVE  Ready(u, calls, shown) /\ Requests(calls, shown.told)
<1>1. ui \in WebUi /\ WebFlags(ui, calls) /\ InOrder(calls, "list") /\ WebList(ui, calls, shown)
  BY DEF WebInv
<1>2. WebFlags(u, calls)
  BY <1>1 DEF WebFlags
<1>3. ~Reloads(u) => WebList(u, calls, shown)
  BY <1>1 DEF Reloads, WebList, Genuine
<1>4. QED
  BY <1>1, <1>2, <1>3 DEF Ready, TabInv

LEMMA TurnedIs ==
  ASSUME NEW u \in WebUi, NEW way
  PROVE  LET v == Turned(u, way)
         IN  /\ v \in WebUi /\ v.items = u.items /\ v.loading = u.loading /\ v.refreshing = u.refreshing
             /\ v.saving = u.saving /\ v.creating = u.creating /\ v.deleting = u.deleting
             /\ v.draft = u.draft /\ v.sel = u.sel
             /\ v.detail = u.detail /\ v.detailLoading = u.detailLoading
<1> DEFINE n == IF way = "next" THEN u.offset + u.limit
                ELSE IF u.offset > u.limit THEN u.offset - u.limit ELSE 0
<1>1. n \in Nat
  BY WebUiIs
<1>2. Turned(u, way) = [u EXCEPT !.offset = n]
  BY WebUiIs DEF Turned, WebUi
<1> HIDE DEF n
<1>3. QED
  BY <1>1, <1>2 DEF WebUi

LEMMA ListedIs ==
  ASSUME NEW u \in WebUi, NEW c \in CallType
  PROVE  LET v == Listed(u, c)
         IN  /\ v \in WebUi /\ v.items = c.answer /\ ~v.loading /\ ~v.refreshing /\ Query(v) = Query(u)
             /\ v.saving = u.saving /\ v.creating = u.creating /\ v.deleting = u.deleting
             /\ v.draft = u.draft /\ v.detail = u.detail /\ v.detailLoading = u.detailLoading
<1> DEFINE sel == IF c.sel \in IdsOf(c.answer) \cup {Nobody} /\ (c.sel = Nobody => c.answer = <<>>)
                    THEN u.sel
                  ELSE IF c.answer = <<>> THEN Nobody ELSE c.answer[1].id
<1>1. c.answer \in Seq(Row) /\ c.total \in Nat
  BY DEF CallType
<1>2. c.answer # <<>> => c.answer[1].id \in Ids
  <2>1. c.answer # <<>> => 1 \in DOMAIN c.answer
    BY <1>1, EmptySeq
  <2>2. QED
    BY <1>1, <2>1, RowsIds
<1>3. sel \in AnyId
  BY <1>2, WebUiIs DEF AnyId
<1>4. Listed(u, c) = [u EXCEPT !.items = c.answer, !.total = c.total, !.loading = FALSE,
                               !.refreshing = FALSE, !.sel = sel]
  BY DEF Listed, WebUi
<1> HIDE DEF sel
<1>5. QED
  BY <1>1, <1>3, <1>4 DEF WebUi, Query

LEMMA UnlistedIs ==
  ASSUME NEW u \in WebUi
  PROVE  LET v == Unlisted(u)
         IN  /\ v \in WebUi /\ v.items = u.items /\ ~v.loading /\ ~v.refreshing /\ Query(v) = Query(u)
             /\ v.saving = u.saving /\ v.creating = u.creating /\ v.deleting = u.deleting
             /\ v.draft = u.draft /\ v.sel = u.sel
             /\ v.detail = u.detail /\ v.detailLoading = u.detailLoading
  BY DEF Unlisted, WebUi, Query

\* What the list was answered to.
LEMMA ShownAfterIs ==
  ASSUME shown \in ShownType, NEW c \in CallType, NEW ok \in BOOLEAN
  PROVE  LET sh == ShownAfter(c, ok)
         IN  /\ sh \in ShownType /\ sh.told = shown.told /\ sh.detail = shown.detail
             /\ sh.query = IF ok THEN c.query ELSE shown.query
             /\ sh.list = IF ok THEN IF c.passed THEN "late" ELSE "current"
                                ELSE IF c.passed THEN shown.list ELSE "failed"
<1>1. c.query \in QueryType /\ c.passed \in BOOLEAN
  BY DEF CallType
<1>2. QED
  BY <1>1 DEF ShownAfter, ShownType

\* A list request ends.
LEMMA LoadedReady ==
  ASSUME TabInv, WebInv(ui, calls, shown), NEW i \in DOMAIN calls, NEW ok \in BOOLEAN,
         ok => calls[i].done /\ calls[i].ok, calls[i].op = "list"
  PROVE  LET u == IF ok THEN Listed(ui, calls[i]) ELSE Unlisted(ui)
             sh == ShownAfter(calls[i], ok)
         IN  /\ Ready(u, Passing(i), sh) /\ Requests(Passing(i), sh.told)
             /\ sh \in ShownType /\ sh.told = shown.told /\ sh.detail = shown.detail
             /\ u.draft = ui.draft /\ u.detail = ui.detail /\ u.detailLoading = ui.detailLoading
<1> DEFINE c == calls[i]
           cs == Passing(i)
           u == IF ok THEN Listed(ui, c) ELSE Unlisted(ui)
           sh == ShownAfter(c, ok)
<1>1. /\ ui \in WebUi /\ WebFlags(ui, calls) /\ InOrder(calls, "list") /\ WebList(ui, calls, shown)
      /\ Requests(calls, shown.told) /\ shown \in ShownType
      /\ calls \in Seq(CallType) /\ c \in CallType /\ Sound(c, shown.told, gone)
  BY DEF WebInv, TabInv, ServerInv, Requests
<1>2. /\ u \in WebUi /\ Query(u) = Query(ui) /\ ~u.loading /\ ~u.refreshing
      /\ u.items = IF ok THEN c.answer ELSE ui.items
      /\ u.saving = ui.saving /\ u.creating = ui.creating /\ u.deleting = ui.deleting
      /\ u.draft = ui.draft /\ u.detail = ui.detail /\ u.detailLoading = ui.detailLoading
  BY <1>1, ListedIs, UnlistedIs
<1>3. /\ sh \in ShownType /\ sh.told = shown.told /\ sh.detail = shown.detail
      /\ sh.query = IF ok THEN c.query ELSE shown.query
      /\ sh.list = IF ok THEN IF c.passed THEN "late" ELSE "current"
                         ELSE IF c.passed THEN shown.list ELSE "failed"
  BY <1>1, ShownAfterIs
<1> HIDE DEF u, sh
<1>4. /\ InOrder(cs, "list") /\ Newest(cs, "list") \subseteq Newest(calls, "list")
      /\ NoneAwaited(cs, "list") =>
           IF c.passed THEN NoneAwaited(calls, "list") ELSE c \in Newest(calls, "list")
  BY <1>1, EndedSame
<1>5. Rest(i, cs)
  BY <1>1, RestIs
<1> HIDE DEF cs
<1>6. Requests(cs, sh.told) /\ \A op : Has(calls, op) /\ op # "list" => Has(cs, op)
  BY <1>1, <1>3, <1>5, EndedSound, EndedHas
<1>7. WebFlags(u, cs)
  BY <1>1, <1>2, <1>6 DEF WebFlags
<1>8. WebList(u, cs, sh)
  <2>1. \A d \in Newest(cs, "list") : d.query = Query(u)
    BY <1>1, <1>2, <1>4 DEF WebList
  <2>2. ASSUME NoneAwaited(cs, "list"), sh.list = "current"
        PROVE  sh.query = Query(u) /\ Distinct(u.items) /\ IdsOf(u.items) \cap sh.told = {}
    <3>1. CASE ok
      <4>1. ~c.passed /\ sh.query = c.query /\ u.items = c.answer
        BY <1>2, <1>3, <2>2, <3>1
      <4>2. c.query = Query(u)
        BY <1>1, <1>2, <1>4, <2>2, <4>1 DEF WebList
      <4>3. Distinct(c.answer) /\ IdsOf(c.answer) \cap shown.told = {}
        BY <1>1, <3>1, <4>1 DEF Sound
      <4>4. QED
        BY <1>3, <4>1, <4>2, <4>3
    <3>2. CASE ~ok
      BY <1>1, <1>2, <1>3, <1>4, <2>2, <3>2 DEF WebList, Genuine
    <3>3. QED
      BY <3>1, <3>2
  <2>3. QED
    BY <2>1, <2>2 DEF WebList, Genuine
<1>9. Ready(u, cs, sh)
  BY <1>1, <1>2, <1>4, <1>7, <1>8 DEF Ready
<1>10. QED
  BY <1>2, <1>3, <1>6, <1>9 DEF u, sh, cs

\* A row is created, saved or deleted: the request is sent.
LEMMA SentKeeps ==
  ASSUME TabInv, WebInv(ui, calls, shown), NEW v \in WebUi,
         v.items = ui.items, Query(v) = Query(ui), v.sel = ui.sel, v.draft = ui.draft,
         v.loading = ui.loading, v.refreshing = ui.refreshing,
         NEW c \in CallType, c.op \in {"create", "save", "delete"}, ~c.passed, Sound(c, shown.told, gone),
         v.saving => ui.saving \/ c.op = "save", v.creating => ui.creating \/ c.op = "create",
         v.deleting => ui.deleting \/ c.op = "delete"
  PROVE  /\ WebInv(v, Append(calls, c), shown) /\ Requests(Append(calls, c), shown.told)
         /\ DraftInv(ui) => DraftInv(v)
<1> DEFINE cs == Append(calls, c)
<1>1. /\ ui \in WebUi /\ WebFlags(ui, calls) /\ InOrder(calls, "list") /\ WebList(ui, calls, shown)
      /\ Requests(calls, shown.told)
  BY DEF WebInv, TabInv
<1>2. /\ Requests(cs, shown.told)
      /\ \A op : Has(cs, op) <=> Has(calls, op) \/ c.op = op
      /\ \A op : InOrder(calls, op) => InOrder(cs, op)
      /\ \A op : op # c.op =>
           Newest(cs, op) = Newest(calls, op) /\ (NoneAwaited(cs, op) => NoneAwaited(calls, op))
  BY <1>1, Sent
<1> HIDE DEF cs
<1>3. WebFlags(v, cs)
  BY <1>1, <1>2 DEF WebFlags, WebUi
<1>4. Newest(cs, "list") = Newest(calls, "list") /\ (NoneAwaited(cs, "list") => NoneAwaited(calls, "list"))
  BY <1>2
<1>5. WebList(v, cs, shown)
  BY <1>1, <1>4 DEF WebList, Genuine
<1>6. SelectedRow(v) = SelectedRow(ui)
  BY SelectedSame
<1>7. QED
  BY <1>1, <1>2, <1>3, <1>5, <1>6 DEF WebInv, DraftInv, cs

\* The user types into a form.
LEMMA TypedKeeps ==
  ASSUME WebInv(ui, calls, shown), NEW v \in WebUi,
         v.items = ui.items, Query(v) = Query(ui), v.sel = ui.sel, v.draft.id = ui.draft.id,
         v.loading = ui.loading, v.refreshing = ui.refreshing, v.saving = ui.saving,
         v.creating = ui.creating, v.deleting = ui.deleting
  PROVE  WebInv(v, calls, shown) /\ (DraftInv(ui) => DraftInv(v))
<1>1. SelectedRow(v) = SelectedRow(ui)
  BY SelectedSame
<1>2. QED
  BY <1>1 DEF WebInv, WebFlags, WebList, Genuine, DraftInv

\* Such a request ends, the rows on the page being those of a list still, or not.
LEMMA EndedReady ==
  ASSUME TabInv, WebInv(ui, calls, shown), NEW i \in DOMAIN calls,
         calls[i].op \in {"create", "save", "delete"}, NEW cs \in {Without(i), Passing(i)},
         NEW u \in WebUi, Query(u) = Query(ui), u.loading = ui.loading, u.refreshing = ui.refreshing,
         u.saving => ui.saving /\ calls[i].op # "save",
         u.creating => ui.creating /\ calls[i].op # "create",
         u.deleting => ui.deleting /\ calls[i].op # "delete",
         NEW sh, sh.told = shown.told, sh.query = shown.query,
         Reloads(u) \/ (sh.list = "current" => shown.list = "current" /\ IdsOf(u.items) = IdsOf(ui.items)
                                               /\ (Distinct(ui.items) => Distinct(u.items)))
  PROVE  Ready(u, cs, sh) /\ Requests(cs, sh.told)
<1>1. /\ ui \in WebUi /\ WebFlags(ui, calls) /\ InOrder(calls, "list") /\ WebList(ui, calls, shown)
      /\ Requests(calls, shown.told) /\ calls \in Seq(CallType)
  BY DEF WebInv, TabInv, Requests
<1>2. /\ InOrder(cs, "list") /\ Newest(cs, "list") \subseteq Newest(calls, "list")
      /\ NoneAwaited(cs, "list") => NoneAwaited(calls, "list")
  BY <1>1, EndedOther
<1>3. Rest(i, cs)
  BY <1>1, RestIs
<1>4. Requests(cs, sh.told) /\ \A op : Has(calls, op) /\ op # calls[i].op => Has(cs, op)
  BY <1>1, <1>3, EndedSound, EndedHas
<1>5. WebFlags(u, cs)
  BY <1>1, <1>4 DEF WebFlags
<1>6. Reloads(u) \/ WebList(u, cs, sh)
  BY <1>1, <1>2 DEF WebList, Genuine
<1>7. QED
  BY <1>2, <1>4, <1>5, <1>6 DEF Ready

\* A deletion ends, which overtakes the lists on their way.
LEMMA DeletedReady ==
  ASSUME TabInv, WebInv(ui, calls, shown), NEW i \in DOMAIN calls, calls[i].op = "delete",
         calls[i].done,
         NEW u \in WebUi, u.loading = ui.loading, u.refreshing = ui.refreshing,
         u.saving = ui.saving, u.creating = ui.creating, ~u.deleting
  PROVE  LET sh == Patched(u, {calls[i].row.id})
         IN  /\ Ready(u, Overtaken(i), sh) /\ Requests(Overtaken(i), sh.told)
             /\ sh \in ShownType /\ sh.told \subseteq gone
<1> DEFINE sh == Patched(u, {calls[i].row.id})
<1>1. /\ ui \in WebUi /\ WebFlags(ui, calls) /\ Requests(calls, shown.told) /\ calls \in Seq(CallType)
      /\ shown \in ShownType /\ shown.told \subseteq gone /\ gone \in SUBSET Ids
      /\ Sound(calls[i], shown.told, gone)
  BY DEF WebInv, TabInv, ServerInv, Requests
<1>2. calls[i].row.id \in gone
  BY <1>1 DEF Sound
<1>3. /\ sh \in ShownType /\ sh.told \subseteq gone /\ sh.told = shown.told \cup {calls[i].row.id}
      /\ sh.list = IF Reloads(u) THEN shown.list ELSE "patched"
  BY <1>1, <1>2 DEF Patched, ShownType
<1> HIDE DEF sh
<1>4. /\ \A k \in DOMAIN Overtaken(i) : Overtaken(i)[k].op = "list" => Overtaken(i)[k].passed
      /\ InOrder(Overtaken(i), "list") /\ Newest(Overtaken(i), "list") = {} /\ Rest(i, Overtaken(i))
  BY <1>1, EndedTold, RestIs
<1>5. Requests(Overtaken(i), sh.told) /\ \A op : Has(calls, op) /\ op # "delete" => Has(Overtaken(i), op)
  BY <1>1, <1>3, <1>4, EndedSound, EndedHas
<1>6. WebFlags(u, Overtaken(i))
  BY <1>1, <1>5 DEF WebFlags
<1>7. Reloads(u) \/ WebList(u, Overtaken(i), sh)
  BY <1>3, <1>4 DEF WebList, Genuine
<1>8. QED
  BY <1>3, <1>4, <1>5, <1>6, <1>7 DEF Ready, sh

LEMMA SavedIs ==
  ASSUME NEW u \in WebUi, NEW row \in Row
  PROVE  LET v == Saved(u, row)
         IN  /\ v \in WebUi /\ Query(v) = Query(u) /\ v.loading = u.loading /\ v.refreshing = u.refreshing
             /\ ~v.saving /\ v.creating = u.creating /\ v.deleting = u.deleting
             /\ v.draft = u.draft /\ v.sel = u.sel
             /\ IdsOf(v.items) = IdsOf(u.items) /\ (Distinct(u.items) => Distinct(v.items))
<1> DEFINE items == [i \in DOMAIN u.items |-> IF u.items[i].id = row.id THEN row ELSE u.items[i]]
           v == Saved(u, row)
<1>1. /\ u.items \in Seq(Row) /\ DOMAIN u.items = 1 .. Len(u.items) /\ Len(u.items) \in Nat
      /\ \A i \in DOMAIN u.items : u.items[i] \in Row
  BY WebUiIs
<1>2. items \in Seq(Row)
  <2>1. \A i \in 1 .. Len(u.items) : (IF u.items[i].id = row.id THEN row ELSE u.items[i]) \in Row
    BY <1>1
  <2>2. QED
    BY <1>1, <2>1, IsASeq
<1>3. DOMAIN items = DOMAIN u.items /\ \A i \in DOMAIN u.items : items[i].id = u.items[i].id
  OBVIOUS
<1>4. v = [u EXCEPT !.saving = FALSE, !.items = items]
  BY DEF Saved, WebUi
<1> HIDE DEF items, v
<1>5. /\ v \in WebUi /\ Query(v) = Query(u) /\ v.loading = u.loading /\ v.refreshing = u.refreshing
      /\ ~v.saving /\ v.creating = u.creating /\ v.deleting = u.deleting
      /\ v.draft = u.draft /\ v.sel = u.sel /\ v.items = items
  BY <1>2, <1>4 DEF WebUi, Query
<1>6. IdsOf(items) = IdsOf(u.items) /\ (Distinct(u.items) => Distinct(items))
  BY <1>3 DEF IdsOf, Distinct
<1>7. QED
  BY <1>5, <1>6 DEF v

LEMMA DeletedIs ==
  ASSUME NEW u \in WebUi, NEW c \in CallType
  PROVE  LET v == Deleted(u, c)
         IN  /\ v \in WebUi /\ Query(v) = Query(u) /\ v.loading = u.loading /\ v.refreshing = u.refreshing
             /\ v.saving = u.saving /\ v.creating = u.creating /\ ~v.deleting /\ v.draft = u.draft
<1> DEFINE items == Minus(c.items, c.row.id)
           sel == IF items = <<>> THEN Nobody ELSE items[1].id
           total == IF u.total > 0 THEN u.total - 1 ELSE 0
<1>1. items \in Seq(Row)
  <2>1. c.items \in Seq(Row)
    BY DEF CallType
  <2>2. QED
    BY <2>1, MinusIs
<1>2. total \in Nat
  BY WebUiIs
<1>3. Deleted(u, c) = [u EXCEPT !.deleting = FALSE, !.items = items, !.total = total, !.sel = sel]
  BY DEF Deleted, WebUi
<1> HIDE DEF items
<1>4. sel \in AnyId
  <2>1. items # <<>> => 1 \in DOMAIN items
    BY <1>1, EmptySeq
  <2>2. QED
    BY <1>1, <2>1, RowsIds DEF AnyId
<1> HIDE DEF sel, total
<1>5. QED
  BY <1>1, <1>2, <1>3, <1>4 DEF WebUi, Query

\* What a step of one of these pages keeps, and the context of a step.
WebKept == TabInv' /\ WebInv(ui', calls', shown') /\ (DraftInv(ui) => DraftInv(ui'))
InTab == TabInv /\ rows' = rows /\ gone' = gone /\ left' \in 0 .. MaxSteps

LEMMA RenderedKept ==
  ASSUME InTab, ui \in WebUi, NEW u, NEW cs, NEW replaced \in BOOLEAN, Render(u, cs, replaced),
         Ready(u, cs, shown'), Requests(cs, shown'.told), u.draft = ui.draft,
         shown' \in ShownType, shown'.told \subseteq gone
  PROVE  WebKept
<1>1. /\ WebInv(ui', calls', shown') /\ Requests(calls', shown'.told)
      /\ DraftInv(ui) => DraftInv(ui')
  BY RenderKeeps
<1>2. TabInv'
  BY <1>1, TabKept DEF InTab
<1>3. QED
  BY <1>1, <1>2 DEF WebKept

LEMMA TabIs ==
  ASSUME TabInv
  PROVE  /\ Requests(calls, shown.told) /\ calls \in Seq(CallType)
         /\ shown \in ShownType /\ shown.told \subseteq gone /\ left \in 0 .. MaxSteps
         /\ \A i \in DOMAIN calls : calls[i] \in CallType /\ Sound(calls[i], shown.told, gone)
  BY DEF TabInv, ServerInv, Requests

LEMMA WebRefreshStep ==
  ASSUME InTab, WebInv(ui, calls, shown), shown' = shown,
         Render([ui EXCEPT !.refreshing = TRUE], Append(calls, ListCall(ui)), FALSE)
  PROVE  WebKept
<1> DEFINE u == [ui EXCEPT !.refreshing = TRUE]
           cs == Append(calls, ListCall(ui))
<1>1. Ready(u, cs, shown) /\ Requests(cs, shown.told) /\ u.draft = ui.draft
  BY RefreshReady DEF InTab
<1>2. Render(u, cs, FALSE) /\ ui \in WebUi /\ shown \in ShownType /\ shown.told \subseteq gone
  BY TabIs DEF InTab, WebInv
<1> HIDE DEF u, cs
<1>3. QED
  BY <1>1, <1>2, RenderedKept

LEMMA WebMoveStep ==
  ASSUME InTab, WebInv(ui, calls, shown), shown' = shown, NEW u \in WebUi, Render(u, calls, FALSE),
         u.items = ui.items, u.loading = ui.loading, u.refreshing = ui.refreshing, u.saving = ui.saving,
         u.creating = ui.creating, u.deleting = ui.deleting, u.draft = ui.draft
  PROVE  WebKept
<1>1. Ready(u, calls, shown) /\ Requests(calls, shown.told)
  BY MoveReady DEF InTab
<1>2. ui \in WebUi /\ shown \in ShownType /\ shown.told \subseteq gone
  BY TabIs DEF InTab, WebInv
<1>3. QED
  BY <1>1, <1>2, RenderedKept

LEMMA WebFilterStep ==
  ASSUME InTab, WebInv(ui, calls, shown), shown' = shown, NEW f \in AnyFilter,
         NEW u, u = [ui EXCEPT !.offset = 0, !.filter = f], Render(u, calls, FALSE)
  PROVE  WebKept
<1>1. ui \in WebUi
  BY DEF WebInv
<1>2. /\ u \in WebUi /\ u.items = ui.items /\ u.loading = ui.loading /\ u.refreshing = ui.refreshing
      /\ u.saving = ui.saving /\ u.creating = ui.creating /\ u.deleting = ui.deleting
      /\ u.draft = ui.draft
  BY <1>1 DEF WebUi
<1>3. QED
  BY <1>2, WebMoveStep

\* A row or a button under the list.
LEMMA PickedIs ==
  ASSUME ui \in WebUi, NEW c
  PROVE  LET u == IF c \in Ids THEN [ui EXCEPT !.sel = c] ELSE Turned(ui, c)
         IN  /\ u \in WebUi /\ u.items = ui.items /\ u.loading = ui.loading
             /\ u.refreshing = ui.refreshing /\ u.saving = ui.saving
             /\ u.creating = ui.creating /\ u.deleting = ui.deleting /\ u.draft = ui.draft
             /\ u.detail = ui.detail /\ u.detailLoading = ui.detailLoading
<1>1. CASE c \in Ids
  BY <1>1 DEF WebUi, AnyId
<1>2. CASE c \notin Ids
  BY <1>2, TurnedIs
<1>3. QED
  BY <1>1, <1>2

LEMMA WebPickStep ==
  ASSUME InTab, WebInv(ui, calls, shown), shown' = shown, NEW c,
         Render(IF c \in Ids THEN [ui EXCEPT !.sel = c] ELSE Turned(ui, c), calls, FALSE)
  PROVE  WebKept
<1> DEFINE u == IF c \in Ids THEN [ui EXCEPT !.sel = c] ELSE Turned(ui, c)
<1>1. /\ u \in WebUi /\ u.items = ui.items /\ u.loading = ui.loading /\ u.refreshing = ui.refreshing
      /\ u.saving = ui.saving /\ u.creating = ui.creating /\ u.deleting = ui.deleting
      /\ u.draft = ui.draft
  BY PickedIs DEF WebInv
<1>2. Render(u, calls, FALSE)
  OBVIOUS
<1> HIDE DEF u
<1>3. QED
  BY <1>1, <1>2, WebMoveStep

LEMMA WebLoadedStep ==
  ASSUME InTab, WebInv(ui, calls, shown), NEW i \in DOMAIN calls, NEW ok \in BOOLEAN,
         ok => calls[i].done /\ calls[i].ok, calls[i].op = "list",
         Render(IF ok THEN Listed(ui, calls[i]) ELSE Unlisted(ui), Passing(i), ok),
         shown' = ShownAfter(calls[i], ok)
  PROVE  WebKept
<1> DEFINE u == IF ok THEN Listed(ui, calls[i]) ELSE Unlisted(ui)
           cs == Passing(i)
<1>1. /\ Ready(u, cs, shown') /\ Requests(cs, shown'.told)
      /\ shown' \in ShownType /\ shown'.told = shown.told /\ u.draft = ui.draft
  BY LoadedReady DEF InTab
<1>2. Render(u, cs, ok) /\ ui \in WebUi /\ shown.told \subseteq gone
  BY TabIs DEF InTab, WebInv
<1> HIDE DEF u, cs
<1>3. QED
  BY <1>1, <1>2, RenderedKept

LEMMA WebSavedStep ==
  ASSUME InTab, WebInv(ui, calls, shown), NEW i \in DOMAIN calls, NEW ok \in BOOLEAN,
         ok => calls[i].done /\ calls[i].ok, calls[i].op = "save",
         IF ok THEN Render(Saved(ui, calls[i].row), Passing(i), calls[i].row.id = ui.sel)
               ELSE Render([ui EXCEPT !.saving = FALSE], Without(i), FALSE),
         shown' = shown
  PROVE  WebKept
<1>1. /\ ui \in WebUi /\ shown \in ShownType /\ shown.told \subseteq gone
      /\ calls[i] \in CallType /\ Sound(calls[i], shown.told, gone)
  BY TabIs DEF InTab, WebInv
<1>2. CASE ok
  <2> DEFINE u == Saved(ui, calls[i].row)
             again == (calls[i].row.id = ui.sel)
  <2>1. calls[i].row \in Row
    BY <1>1, <1>2 DEF Sound
  <2>2. /\ u \in WebUi /\ Query(u) = Query(ui) /\ u.loading = ui.loading /\ u.refreshing = ui.refreshing
        /\ ~u.saving /\ u.creating = ui.creating /\ u.deleting = ui.deleting
        /\ u.draft = ui.draft
        /\ IdsOf(u.items) = IdsOf(ui.items) /\ (Distinct(ui.items) => Distinct(u.items))
    BY <1>1, <2>1, SavedIs
  <2>3. Render(u, Passing(i), again) /\ again \in BOOLEAN
    BY <1>2
  <2> HIDE DEF u, again
  <2>4. Ready(u, Passing(i), shown) /\ Requests(Passing(i), shown.told)
    BY <2>2, EndedReady DEF InTab
  <2>5. QED
    BY <1>1, <2>2, <2>3, <2>4, RenderedKept
<1>3. CASE ~ok
  <2> DEFINE u == [ui EXCEPT !.saving = FALSE]
  <2>2. /\ u \in WebUi /\ Query(u) = Query(ui) /\ u.loading = ui.loading /\ u.refreshing = ui.refreshing
        /\ ~u.saving /\ u.creating = ui.creating /\ u.deleting = ui.deleting
        /\ u.draft = ui.draft /\ u.items = ui.items
    BY <1>1 DEF WebUi, Query
  <2>3. Render(u, Without(i), FALSE)
    BY <1>3
  <2> HIDE DEF u
  <2>4. Ready(u, Without(i), shown) /\ Requests(Without(i), shown.told)
    BY <2>2, EndedReady DEF InTab
  <2>5. QED
    BY <1>1, <2>2, <2>3, <2>4, RenderedKept
<1>4. QED
  BY <1>2, <1>3

LEMMA WebDeletedStep ==
  ASSUME InTab, WebInv(ui, calls, shown), NEW i \in DOMAIN calls, NEW ok \in BOOLEAN,
         ok => calls[i].done /\ calls[i].ok, calls[i].op = "delete",
         NEW u, u = IF ok THEN Deleted(ui, calls[i]) ELSE [ui EXCEPT !.deleting = FALSE],
         Render(u, IF ok THEN Overtaken(i) ELSE Without(i), ok /\ calls[i].passed),
         shown' = IF ok THEN Patched(u, {calls[i].row.id}) ELSE shown
  PROVE  WebKept
<1> DEFINE again == (ok /\ calls[i].passed)
<1>1. /\ ui \in WebUi /\ shown \in ShownType /\ shown.told \subseteq gone /\ calls[i] \in CallType
      /\ calls[i].passed \in BOOLEAN
  BY TabIs DEF InTab, WebInv, CallType
<1>2. CASE ok
  <2>1. /\ u \in WebUi /\ Query(u) = Query(ui) /\ u.loading = ui.loading /\ u.refreshing = ui.refreshing
        /\ u.saving = ui.saving /\ u.creating = ui.creating /\ ~u.deleting /\ u.draft = ui.draft
    BY <1>1, <1>2, DeletedIs
  <2>2. Render(u, Overtaken(i), again) /\ again \in BOOLEAN /\ shown' = Patched(u, {calls[i].row.id})
    BY <1>1, <1>2
  <2> HIDE DEF again
  <2>3. /\ Ready(u, Overtaken(i), shown') /\ Requests(Overtaken(i), shown'.told)
        /\ shown' \in ShownType /\ shown'.told \subseteq gone
    BY <1>2, <2>1, <2>2, DeletedReady DEF InTab
  <2>4. QED
    BY <1>1, <2>1, <2>2, <2>3, RenderedKept
<1>3. CASE ~ok
  <2>1. /\ u \in WebUi /\ Query(u) = Query(ui) /\ u.loading = ui.loading /\ u.refreshing = ui.refreshing
        /\ u.saving = ui.saving /\ u.creating = ui.creating /\ ~u.deleting /\ u.draft = ui.draft
        /\ u.items = ui.items
    BY <1>1, <1>3 DEF WebUi, Query
  <2>2. Render(u, Without(i), again) /\ again \in BOOLEAN /\ shown' = shown
    BY <1>1, <1>3
  <2> HIDE DEF again
  <2>3. Ready(u, Without(i), shown) /\ Requests(Without(i), shown.told)
    BY <2>1, EndedReady DEF InTab
  <2>4. QED
    BY <1>1, <2>1, <2>2, <2>3, RenderedKept
<1>4. QED
  BY <1>2, <1>3

\* The request of a handler that only lowers a button.
LEMMA WebSentStep ==
  ASSUME InTab, WebInv(ui, calls, shown), shown' = shown, ui' \in WebUi,
         ui'.items = ui.items, Query(ui') = Query(ui), ui'.sel = ui.sel, ui'.draft = ui.draft,
         ui'.loading = ui.loading, ui'.refreshing = ui.refreshing,
         NEW c \in CallType, c.op \in {"create", "save", "delete"}, ~c.passed, Sound(c, shown.told, gone),
         ui'.saving => ui.saving \/ c.op = "save", ui'.creating => ui.creating \/ c.op = "create",
         ui'.deleting => ui.deleting \/ c.op = "delete", calls' = Append(calls, c)
  PROVE  WebKept
<1>1. /\ WebInv(ui', Append(calls, c), shown) /\ Requests(Append(calls, c), shown.told)
      /\ DraftInv(ui) => DraftInv(ui')
  BY SentKeeps DEF InTab
<1>2. TabInv'
  BY <1>1, TabIs, TabKept DEF InTab
<1>3. QED
  BY <1>1, <1>2 DEF WebKept

LEMMA WebTypedStep ==
  ASSUME InTab, WebInv(ui, calls, shown), shown' = shown, calls' = calls, ui' \in WebUi,
         ui'.items = ui.items, Query(ui') = Query(ui), ui'.sel = ui.sel, ui'.draft.id = ui.draft.id,
         ui'.loading = ui.loading, ui'.refreshing = ui.refreshing, ui'.saving = ui.saving,
         ui'.creating = ui.creating, ui'.deleting = ui.deleting
  PROVE  WebKept
<1>1. WebInv(ui', calls', shown') /\ (DraftInv(ui) => DraftInv(ui'))
  BY TypedKeeps
<1>2. TabInv'
  BY TabIs, TabKept DEF InTab
<1>3. QED
  BY <1>1, <1>2 DEF WebKept

-----------------------------------------------------------------------------
(* Policies, agents and audit logs.                                        *)

LEMMA SaveSent ==
  ASSUME InTab, WebInv(ui, calls, shown), shown' = shown, ui' = [ui EXCEPT !.saving = TRUE],
         calls' = Append(calls, RowCall("save", [ui.draft EXCEPT !.id = ui.sel]))
  PROVE  WebKept
<1> DEFINE row == [ui.draft EXCEPT !.id = ui.sel]
           op == "save"
           c == RowCall(op, row)
<1>1. ui \in WebUi /\ ui.draft \in AnyRow /\ ui.sel \in AnyId
  BY WebUiIs DEF WebInv
<1>2. row \in AnyRow /\ op \in RowOperations \cup OtherOperations /\ op = "save" /\ op \notin {"create", "delete"}
  BY <1>1 DEF AnyRow, RowOperations
<1>3. calls' = Append(calls, c)
  OBVIOUS
<1> HIDE DEF row, op
<1>4. c \in CallType /\ c.op = op /\ ~c.passed /\ Sound(c, shown.told, gone)
  BY <1>2, RowCallIs
<1> HIDE DEF c
<1>5. /\ ui' \in WebUi /\ ui'.items = ui.items /\ Query(ui') = Query(ui) /\ ui'.sel = ui.sel
      /\ ui'.draft = ui.draft /\ ui'.loading = ui.loading /\ ui'.refreshing = ui.refreshing
      /\ ui'.creating = ui.creating /\ ui'.deleting = ui.deleting
  BY <1>1 DEF WebUi, Query
<1>6. QED
  BY <1>2, <1>3, <1>4, <1>5, WebSentStep

LEMMA DeleteSent ==
  ASSUME InTab, WebInv(ui, calls, shown), shown' = shown, ui' = [ui EXCEPT !.deleting = TRUE],
         SelectedRow(ui) # NoRow,
         calls' = Append(calls, Call("delete", AnyQuery, ui.sel, SelectedRow(ui), ui.items))
  PROVE  WebKept
<1> DEFINE row == SelectedRow(ui)
           op == "delete"
           c == Call(op, AnyQuery, ui.sel, row, ui.items)
<1>1. ui \in WebUi /\ ui.items \in Seq(Row) /\ ui.sel \in AnyId
  BY WebUiIs DEF WebInv
<1>2. /\ row \in AnyRow /\ row.id \in Ids
      /\ op \in RowOperations \cup OtherOperations /\ op = "delete" /\ op # "create"
  BY <1>1, SelectedIs, RowIs DEF RowOperations
<1>3. calls' = Append(calls, c)
  OBVIOUS
<1> HIDE DEF row, op
<1>4. c \in CallType /\ c.op = op /\ ~c.passed /\ Sound(c, shown.told, gone)
  BY <1>1, <1>2, QueryIs, CallIs
<1> HIDE DEF c
<1>5. /\ ui' \in WebUi /\ ui'.items = ui.items /\ Query(ui') = Query(ui) /\ ui'.sel = ui.sel
      /\ ui'.draft = ui.draft /\ ui'.loading = ui.loading /\ ui'.refreshing = ui.refreshing
      /\ ui'.creating = ui.creating /\ ui'.saving = ui.saving
  BY <1>1 DEF WebUi, Query
<1>6. QED
  BY <1>2, <1>3, <1>4, <1>5, WebSentStep

LEMMA CreateSent ==
  ASSUME InTab, WebInv(ui, calls, shown), handleCreatePolicy
  PROVE  WebKept
<1> DEFINE row == [NoRow EXCEPT !.tag = ui.form]
           op == "create"
           c == RowCall(op, row)
<1>0. ui' = [ui EXCEPT !.creating = TRUE] /\ shown' = shown /\ ui.form # Blank
  BY DEF handleCreatePolicy
<1>1. ui \in WebUi /\ ui.form \in Tags
  BY <1>0 DEF WebInv, WebUi
<1>2. /\ row \in AnyRow /\ row.tag \in Tags
      /\ op \in RowOperations \cup OtherOperations /\ op = "create" /\ op # "delete"
  BY <1>1 DEF AnyRow, RowOperations, NoRow, AnyId
<1>3. calls' = Append(calls, c)
  BY DEF handleCreatePolicy
<1> HIDE DEF row, op
<1>4. c \in CallType /\ c.op = op /\ ~c.passed /\ Sound(c, shown.told, gone)
  BY <1>2, RowCallIs
<1> HIDE DEF c
<1>5. /\ ui' \in WebUi /\ ui'.items = ui.items /\ Query(ui') = Query(ui) /\ ui'.sel = ui.sel
      /\ ui'.draft = ui.draft /\ ui'.loading = ui.loading /\ ui'.refreshing = ui.refreshing
      /\ ui'.saving = ui.saving /\ ui'.deleting = ui.deleting
  BY <1>0, <1>1 DEF WebUi, Query
<1>6. QED
  BY <1>0, <1>2, <1>3, <1>4, <1>5, WebSentStep

\* The new row is put before the others: the list is that of no answer then.
LEMMA CreatedStep ==
  ASSUME InTab, WebInv(ui, calls, shown), NEW i \in DOMAIN calls, NEW ok \in BOOLEAN,
         ok => calls[i].done /\ calls[i].ok, PolicyCreated(i, ok)
  PROVE  WebKept
<1> DEFINE c == calls[i]
           u == IF ok THEN [ui EXCEPT !.creating = FALSE, !.items = c.answer \o @, !.total = @ + 1,
                                      !.sel = c.answer[1].id, !.form = Blank]
                      ELSE [ui EXCEPT !.creating = FALSE]
<1>1. /\ ui \in WebUi /\ ui.items \in Seq(Row) /\ ui.total \in Nat /\ shown \in ShownType
      /\ shown.told \subseteq gone /\ c \in CallType /\ Sound(c, shown.told, gone)
  BY TabIs, WebUiIs DEF InTab, WebInv
<1>2. c.op = "create" /\ Render(u, Without(i), FALSE) /\ shown' = IF ok THEN Patched(u, {}) ELSE shown
  BY DEF PolicyCreated
<1>3. ok => c.answer \o ui.items \in Seq(Row) /\ c.answer[1].id \in AnyId
  <2>1. c.answer \in Seq(Row)
    BY <1>1 DEF CallType
  <2>2. ok => Len(c.answer) = 1
    BY <1>1, <1>2 DEF Sound
  <2>3. ok => c.answer[1] \in Row
    BY <2>1, <2>2
  <2>4. c.answer \o ui.items \in Seq(Row)
    BY <1>1, <2>1, ConcatProperties
  <2>5. QED
    BY <2>3, <2>4, RowIs DEF AnyId
<1> HIDE DEF c
<1>4. /\ u \in WebUi /\ Query(u) = Query(ui) /\ u.loading = ui.loading /\ u.refreshing = ui.refreshing
      /\ u.saving = ui.saving /\ ~u.creating /\ u.deleting = ui.deleting /\ u.draft = ui.draft
      /\ ~ok => u.items = ui.items
  <2>1. CASE ok
    <3> DEFINE items == c.answer \o ui.items
               sel == c.answer[1].id
               total == ui.total + 1
    <3>1. items \in Seq(Row) /\ sel \in AnyId /\ total \in Nat
      BY <1>1, <1>3, <2>1
    <3>2. u = [ui EXCEPT !.creating = FALSE, !.items = items, !.total = total, !.sel = sel, !.form = Blank]
      BY <1>1, <2>1 DEF WebUi
    <3> HIDE DEF items, sel, total, u
    <3>3. QED
      BY <1>1, <2>1, <3>1, <3>2 DEF WebUi, Query
  <2>2. CASE ~ok
    <3>1. u = [ui EXCEPT !.creating = FALSE]
      BY <2>2
    <3> HIDE DEF u
    <3>2. QED
      BY <1>1, <2>2, <3>1 DEF WebUi, Query
  <2>3. QED
    BY <2>1, <2>2
<1> HIDE DEF u
<1>5. /\ shown' \in ShownType /\ shown'.told = shown.told /\ shown'.query = shown.query
      /\ ok => shown'.list = IF Reloads(u) THEN shown.list ELSE "patched"
  BY <1>1, <1>2 DEF Patched, ShownType
<1>6. Ready(u, Without(i), shown') /\ Requests(Without(i), shown'.told)
  <2>1. calls[i].op = "create"
    BY <1>2 DEF c
  <2>2. Reloads(u) \/ (shown'.list = "current" => shown.list = "current" /\ u.items = ui.items)
    BY <1>2, <1>4, <1>5
  <2>3. QED
    BY <1>4, <1>5, <2>1, <2>2, EndedReady DEF InTab
<1>7. QED
  BY <1>1, <1>2, <1>4, <1>5, <1>6, RenderedKept

LEMMA PolicyStep ==
  ASSUME InTab, WebInv(ui, calls, shown), PolicyUser \/ PolicyAnswer
  PROVE  WebKept
<1>0. ui \in WebUi
  BY DEF WebInv
<1>1. CASE PolicyRefresh
  BY <1>1, WebRefreshStep DEF PolicyRefresh
<1>2. CASE PolicyPick
  BY <1>2, WebPickStep DEF PolicyPick
<1>3. ASSUME NEW f \in {All, "on", "off"}, PolicyFilter(f) PROVE WebKept
  <2>1. f \in AnyFilter
    BY DEF AnyFilter, Tags
  <2>2. Render([ui EXCEPT !.offset = 0, !.filter = f], calls, FALSE) /\ shown' = shown
    BY <1>3, Zenon DEF PolicyFilter
  <2>3. QED
    BY <2>1, <2>2, WebFilterStep, Zenon
<1>4. ASSUME NEW t \in Tags \cup {Blank}, PolicyType(t) PROVE WebKept
  <2>1. ui.draft \in AnyRow
    BY <1>0, WebUiIs
  <2>2. ui' = [ui EXCEPT !.form = t] \/ ui' = [ui EXCEPT !.draft = [ui.draft EXCEPT !.tag = t]]
    BY <1>0, <1>4 DEF PolicyType, WebUi
  <2>3. [ui.draft EXCEPT !.tag = t] \in AnyRow /\ [ui.draft EXCEPT !.tag = t].id = ui.draft.id
    BY <2>1 DEF AnyRow
  <2>4. /\ ui' \in WebUi /\ ui'.items = ui.items /\ Query(ui') = Query(ui) /\ ui'.sel = ui.sel
        /\ ui'.draft.id = ui.draft.id /\ ui'.loading = ui.loading /\ ui'.refreshing = ui.refreshing
        /\ ui'.saving = ui.saving /\ ui'.creating = ui.creating /\ ui'.deleting = ui.deleting
    BY <1>0, <2>2, <2>3 DEF WebUi, Query
  <2>5. calls' = calls /\ shown' = shown
    BY <1>4 DEF PolicyType
  <2>6. QED
    BY <2>4, <2>5, WebTypedStep
<1>5. CASE handleCreatePolicy
  BY <1>5, CreateSent
<1>6. CASE handleSavePolicy
  BY <1>6, SaveSent DEF handleSavePolicy
<1>7. CASE handleDeletePolicy
  BY <1>7, DeleteSent DEF handleDeletePolicy, PolicyEditForm
<1>8. ASSUME NEW i \in DOMAIN calls, NEW ok \in BOOLEAN, Ends(i, ok),
             PolicyLoaded(i, ok) \/ PolicyCreated(i, ok) \/ PolicySaved(i, ok) \/ PolicyDeleted(i, ok)
      PROVE  WebKept
  <2>1. ok => calls[i].done /\ calls[i].ok
    BY <1>8, EndsIs, TabIs DEF InTab
  <2>2. CASE PolicyLoaded(i, ok)
    BY <2>1, <2>2, WebLoadedStep DEF PolicyLoaded
  <2>3. CASE PolicyCreated(i, ok)
    BY <2>1, <2>3, CreatedStep
  <2>4. CASE PolicySaved(i, ok)
    BY <2>1, <2>4, WebSavedStep DEF PolicySaved
  <2>5. CASE PolicyDeleted(i, ok)
    BY <2>1, <2>5, WebDeletedStep DEF PolicyDeleted
  <2>6. QED
    BY <1>8, <2>2, <2>3, <2>4, <2>5
<1>9. QED
  BY <1>1, <1>2, <1>3, <1>4, <1>5, <1>6, <1>7, <1>8 DEF PolicyUser, PolicyAnswer

LEMMA AgentStep ==
  ASSUME InTab, WebInv(ui, calls, shown), AgentUser \/ AgentAnswer
  PROVE  WebKept
<1>0. ui \in WebUi
  BY DEF WebInv
<1>1. CASE AgentRefresh
  BY <1>1, WebRefreshStep DEF AgentRefresh
<1>2. CASE AgentPick
  BY <1>2, WebPickStep DEF AgentPick
<1>3. ASSUME NEW f \in {All, "on", "off"}, AgentFilter(f) PROVE WebKept
  <2>1. f \in AnyFilter
    BY DEF AnyFilter, Tags
  <2>2. Render([ui EXCEPT !.offset = 0, !.filter = f], calls, FALSE) /\ shown' = shown
    BY <1>3, Zenon DEF AgentFilter
  <2>3. QED
    BY <2>1, <2>2, WebFilterStep, Zenon
<1>4. ASSUME NEW t \in Tags \cup {Blank}, AgentType(t) PROVE WebKept
  <2>1. ui.draft \in AnyRow
    BY <1>0, WebUiIs
  <2>2. ui' = [ui EXCEPT !.draft = [ui.draft EXCEPT !.tag = t]]
    BY <1>0, <1>4 DEF AgentType, WebUi
  <2>3. [ui.draft EXCEPT !.tag = t] \in AnyRow /\ [ui.draft EXCEPT !.tag = t].id = ui.draft.id
    BY <2>1 DEF AnyRow
  <2>4. /\ ui' \in WebUi /\ ui'.items = ui.items /\ Query(ui') = Query(ui) /\ ui'.sel = ui.sel
        /\ ui'.draft.id = ui.draft.id /\ ui'.loading = ui.loading /\ ui'.refreshing = ui.refreshing
        /\ ui'.saving = ui.saving /\ ui'.creating = ui.creating /\ ui'.deleting = ui.deleting
    BY <1>0, <2>2, <2>3 DEF WebUi, Query
  <2>5. calls' = calls /\ shown' = shown
    BY <1>4 DEF AgentType
  <2>6. QED
    BY <2>4, <2>5, WebTypedStep
<1>5. CASE AgentSave
  BY <1>5, SaveSent DEF AgentSave
<1>6. CASE AgentDelete
  BY <1>6, DeleteSent DEF AgentDelete, AgentPanel
<1>7. ASSUME NEW i \in DOMAIN calls, NEW ok \in BOOLEAN, Ends(i, ok),
             AgentLoaded(i, ok) \/ AgentSaved(i, ok) \/ AgentDeleted(i, ok)
      PROVE  WebKept
  <2>1. ok => calls[i].done /\ calls[i].ok
    BY <1>7, EndsIs, TabIs DEF InTab
  <2>2. CASE AgentLoaded(i, ok)
    BY <2>1, <2>2, WebLoadedStep DEF AgentLoaded
  <2>3. CASE AgentSaved(i, ok)
    BY <2>1, <2>3, WebSavedStep DEF AgentSaved
  <2>4. CASE AgentDeleted(i, ok)
    BY <2>1, <2>4, WebDeletedStep DEF AgentDeleted
  <2>5. QED
    BY <1>7, <2>2, <2>3, <2>4
<1>8. QED
  BY <1>1, <1>2, <1>3, <1>4, <1>5, <1>6, <1>7 DEF AgentUser, AgentAnswer

LEMMA AuditStep ==
  ASSUME InTab, WebInv(ui, calls, shown), AuditUser \/ AuditAnswer
  PROVE  WebKept
<1>0. ui \in WebUi
  BY DEF WebInv
<1>1. CASE AuditRefresh
  BY <1>1, WebRefreshStep DEF AuditRefresh
<1>2. CASE AuditPick
  BY <1>2, WebPickStep DEF AuditPick
<1>3. CASE AuditFilter
  <2>1. PICK u \in AuditFilters(ui) : Render(u, calls, FALSE) /\ shown' = shown
    BY <1>3 DEF AuditFilter
  <2>2. Cardinality(Ids) \in Nat
    BY TabAssumption, FS_CardinalityType
  <2> DEFINE Moved(v) ==
        /\ v \in WebUi /\ v.items = ui.items /\ v.loading = ui.loading /\ v.refreshing = ui.refreshing
        /\ v.saving = ui.saving /\ v.creating = ui.creating /\ v.deleting = ui.deleting
        /\ v.draft = ui.draft
  <2>3. Moved(u)
    <3>1. ASSUME NEW id \in AnyId PROVE Moved([ui EXCEPT !.offset = 0, !.search = id])
      BY <1>0 DEF WebUi
    <3>2. ASSUME NEW f \in AnyFilter PROVE Moved([ui EXCEPT !.offset = 0, !.filter = f])
      BY <1>0 DEF WebUi
    <3>3. ASSUME NEW n \in Nat PROVE Moved([ui EXCEPT !.offset = 0, !.limit = n])
      BY <1>0 DEF WebUi
    <3> HIDE DEF Moved
    <3>4. /\ \A f \in {All, "on"} : f \in AnyFilter
          /\ \A n \in 1 .. Cardinality(Ids) : n \in Nat
      BY <2>2 DEF AnyFilter, Tags
    <3>5. QED
      BY <2>1, <3>1, <3>2, <3>3, <3>4, Zenon DEF AuditFilters, AnyId
  <2>4. QED
    BY <2>1, <2>3, WebMoveStep
<1>4. ASSUME NEW i \in DOMAIN calls, NEW ok \in BOOLEAN, Ends(i, ok), AuditLoaded(i, ok)
      PROVE  WebKept
  <2>1. ok => calls[i].done /\ calls[i].ok
    BY <1>4, EndsIs, TabIs DEF InTab
  <2>2. QED
    BY <1>4, <2>1, WebLoadedStep DEF AuditLoaded
<1>5. QED
  BY <1>1, <1>2, <1>3, <1>4 DEF AuditUser, AuditAnswer

-----------------------------------------------------------------------------
(* The Threat Center: investigations are dropped and asked for again.      *)

LEMMA DropIs ==
  ASSUME NEW cs, NEW told, Requests(cs, told)
  PROVE  LET ds == DropInvestigations(cs)
         IN  /\ Requests(ds, told) /\ ~Has(ds, "detail")
             /\ \A op : op # "detail" => (Has(ds, op) <=> Has(cs, op))
             /\ InOrder(cs, "list") => InOrder(ds, "list")
             /\ Newest(ds, "list") \subseteq Newest(cs, "list")
             /\ NoneAwaited(ds, "list") => NoneAwaited(cs, "list")
<1> DEFINE P == {i \in DOMAIN cs : cs[i].op # "detail"}
           ds == Kept(cs, P)
           f == [k \in DOMAIN ds |-> Nth(P, k)]
<1>1. cs \in Seq(CallType) /\ P \in SUBSET (DOMAIN cs) /\ DOMAIN cs \subseteq Nat
  BY DEF Requests
<1>2. P = {i \in DOMAIN cs : cs[i].op # "detail"} /\ DropInvestigations(cs) = ds
  BY DEF DropInvestigations
<1> HIDE DEF P
<1>3. /\ ds \in Seq(CallType)
      /\ \A k \in DOMAIN ds : Nth(P, k) \in P /\ ds[k] = cs[Nth(P, k)]
      /\ \A j, k \in DOMAIN ds : j < k => Nth(P, j) < Nth(P, k)
      /\ \A i \in P : \E k \in DOMAIN ds : Nth(P, k) = i
  BY <1>1, KeptIs
<1>4. DOMAIN ds \subseteq Nat
  BY <1>3
<1> HIDE DEF ds
<1>5. /\ \A k \in DOMAIN ds : f[k] \in DOMAIN cs /\ f[k] \in P /\ ds[k] = cs[f[k]] /\ cs[f[k]].op # "detail"
      /\ \A j, k \in DOMAIN ds : j < k => f[j] < f[k]
      /\ \A i \in P : \E k \in DOMAIN ds : f[k] = i
  BY <1>2, <1>3
<1> HIDE DEF f
<1>6. Requests(ds, told) /\ ~Has(ds, "detail")
  BY <1>3, <1>5 DEF Requests, Has
<1>7. \A op : op # "detail" => (Has(ds, op) <=> Has(cs, op))
  BY <1>2, <1>5 DEF Has
<1>8. \A k \in DOMAIN ds : Awaited(ds, "list", k) <=> Awaited(cs, "list", f[k])
  BY <1>5 DEF Awaited
<1>9. \A m \in DOMAIN cs : Awaited(cs, "list", m) => \E k \in DOMAIN ds : f[k] = m
  BY <1>2, <1>5 DEF Awaited
<1>10. InOrder(cs, "list") => InOrder(ds, "list")
  BY <1>5, <1>8 DEF InOrder
<1>11. NoneAwaited(ds, "list") => NoneAwaited(cs, "list")
  BY <1>8, <1>9 DEF NoneAwaited
<1>12. ASSUME NEW c \in Newest(ds, "list") PROVE c \in Newest(cs, "list")
  <2>1. PICK k \in DOMAIN ds : Latest(ds, "list", k) /\ c = ds[k]
    BY DEF Newest
  <2>2. Awaited(cs, "list", f[k]) /\ f[k] \in DOMAIN cs /\ c = cs[f[k]]
    BY <1>5, <1>8, <2>1 DEF Latest
  <2>3. ASSUME NEW m \in DOMAIN cs, Awaited(cs, "list", m) PROVE m <= f[k]
    <3>1. PICK j \in DOMAIN ds : f[j] = m
      BY <1>9, <2>3
    <3>2. j <= k
      BY <1>8, <2>1, <2>3, <3>1 DEF Latest
    <3>3. j = k \/ j < k
      BY <1>4, <3>2
    <3>4. f[j] = f[k] \/ f[j] < f[k]
      BY <1>5, <3>3
    <3>5. f[k] \in Nat /\ m \in Nat
      BY <1>1, <2>2
    <3>6. QED
      BY <3>1, <3>4, <3>5
  <2>4. Latest(cs, "list", f[k])
    BY <2>2, <2>3 DEF Latest
  <2>5. QED
    BY <2>2, <2>4 DEF Newest
<1>13. QED
  BY <1>2, <1>6, <1>7, <1>10, <1>11, <1>12

LEMMA DetailCallIs ==
  ASSUME NEW id \in AnyId
  PROVE  /\ DetailCall(id) \in CallType /\ DetailCall(id).op = "detail" /\ DetailCall(id).row.id = id
         /\ ~DetailCall(id).passed /\ \A told : Sound(DetailCall(id), told, gone)
<1> DEFINE row == [NoRow EXCEPT !.id = id]
           op == "detail"
<1>1. /\ row \in AnyRow /\ row.id = id /\ op \in RowOperations \cup OtherOperations
      /\ op \notin {"create", "delete"} /\ op = "detail" /\ DetailCall(id) = RowCall(op, row)
  BY DEF AnyRow, NoRow, RowOperations, DetailCall
<1> HIDE DEF row, op
<1>2. /\ RowCall(op, row) \in CallType /\ RowCall(op, row).op = op /\ RowCall(op, row).row = row
      /\ ~RowCall(op, row).passed
      /\ \A told, deleted : Sound(RowCall(op, row), told, deleted)
  BY <1>1, RowCallIs
<1>3. QED
  BY <1>1, <1>2

ThreatKept == TabInv' /\ WebInv(ui', calls', shown') /\ ThreatInv(ui', calls', shown')

\* What a handler leaves for the render, as far as the investigation goes.
Investigating(u, cs, sh) ==
  /\ \A k \in DOMAIN cs : cs[k].op = "detail" => cs[k].row.id = ui.sel
  /\ u.sel = ui.sel =>
       /\ u.detailLoading /\ u.sel # Nobody => Has(cs, "detail")
       /\ ~Has(cs, "detail") /\ sh.detail # "failed" => u.detail = u.sel

LEMMA ThreatRenderKeeps ==
  ASSUME InTab, ui \in WebUi, NEW u, NEW cs, ThreatRender(u, cs),
         Ready(u, cs, shown'), Requests(cs, shown'.told), Investigating(u, cs, shown'),
         shown' \in ShownType, shown'.told \subseteq gone
  PROVE  ThreatKept
<1> DEFINE kept == IF u.sel = ui.sel THEN cs ELSE DropInvestigations(cs)
           listing == IF Reloads(u) THEN Append(kept, ListCall(u)) ELSE kept
           loading == u.loading \/ Reloads(u)
           detail == IF u.sel = Nobody THEN Nobody ELSE u.detail
           detailLoading == u.detailLoading \/ u.sel \notin {ui.sel, Nobody}
           told == shown'.told
<1>1. u \in WebUi /\ u.loading \in BOOLEAN /\ u.detail \in AnyId /\ u.detailLoading \in BOOLEAN /\ u.sel \in AnyId
  BY DEF Ready, WebUi
<1>2. ui' = [u EXCEPT !.loading = loading, !.detail = detail, !.detailLoading = detailLoading]
  BY <1>1 DEF ThreatRender, WebUi
<1>3. calls' = IF u.sel \in {ui.sel, Nobody} THEN listing ELSE Append(listing, DetailCall(u.sel))
  BY DEF ThreatRender
<1>4. loading \in BOOLEAN /\ detail \in AnyId /\ detailLoading \in BOOLEAN
  BY <1>1 DEF Reloads, AnyId
<1> HIDE DEF loading, detail, detailLoading
<1>5. /\ ui' \in WebUi /\ ui'.loading = loading /\ ui'.detail = detail /\ ui'.detailLoading = detailLoading
      /\ ui'.items = u.items /\ ui'.sel = u.sel /\ Query(ui') = Query(u) /\ ui'.refreshing = u.refreshing
      /\ ui'.saving = u.saving /\ ui'.creating = u.creating /\ ui'.deleting = u.deleting
  BY <1>1, <1>2, <1>4 DEF WebUi, Query
<1>6. /\ Ready(u, kept, shown') /\ Requests(kept, told)
      /\ Has(kept, "detail") <=> u.sel = ui.sel /\ Has(cs, "detail")
      /\ \A k \in DOMAIN kept : kept[k].op = "detail" => kept[k].row.id = u.sel
  <2>1. CASE u.sel = ui.sel
    <3>1. kept = cs
      BY <2>1
    <3> HIDE DEF kept
    <3>2. QED
      BY <2>1, <3>1 DEF Investigating
  <2>2. CASE u.sel # ui.sel
    <3> DEFINE ds == DropInvestigations(cs)
    <3>1. kept = ds
      BY <2>2
    <3>2. /\ Requests(ds, told) /\ ~Has(ds, "detail")
          /\ \A op : op # "detail" => (Has(ds, op) <=> Has(cs, op))
          /\ InOrder(cs, "list") => InOrder(ds, "list")
          /\ Newest(ds, "list") \subseteq Newest(cs, "list")
          /\ NoneAwaited(ds, "list") => NoneAwaited(cs, "list")
      BY DropIs
    <3> HIDE DEF kept, ds
    <3>3. WebFlags(u, ds)
      BY <3>2 DEF Ready, WebFlags
    <3>4. WebList(u, cs, shown') => WebList(u, ds, shown')
      BY <3>2 DEF WebList
    <3>5. Ready(u, ds, shown')
      BY <3>2, <3>3, <3>4 DEF Ready
    <3>6. \A k \in DOMAIN ds : ds[k].op # "detail"
      BY <3>2 DEF Has
    <3>7. QED
      BY <2>2, <3>1, <3>2, <3>5, <3>6
  <2>3. QED
    BY <2>1, <2>2
<1> HIDE DEF kept
<1>7. WebInv(ui', listing, shown') /\ Requests(listing, told)
  BY <1>5, <1>6, Reloaded DEF loading
<1>8. /\ Has(listing, "detail") <=> Has(kept, "detail")
      /\ \A k \in DOMAIN listing : listing[k].op = "detail" => listing[k].row.id = u.sel
  <2>1. CASE Reloads(u)
    <3> DEFINE c == ListCall(u)
    <3>1. listing = Append(kept, c)
      BY <2>1
    <3>2. c \in CallType /\ c.op = "list"
      BY <1>1, ListCallIs
    <3> HIDE DEF c, listing
    <3>3. kept \in Seq(CallType)
      BY <1>6 DEF Requests
    <3>4. /\ DOMAIN listing = DOMAIN kept \cup {Len(kept) + 1}
          /\ \A k \in DOMAIN kept : listing[k] = kept[k]
          /\ listing[Len(kept) + 1] = c
      BY <3>1, <3>2, <3>3, AppendIs
    <3>5. QED
      BY <1>6, <3>2, <3>4 DEF Has
  <2>2. CASE ~Reloads(u)
    <3>1. listing = kept
      BY <2>2
    <3> HIDE DEF listing
    <3>2. QED
      BY <1>6, <3>1
  <2>3. QED
    BY <2>1, <2>2
<1> HIDE DEF listing
<1>9. CASE u.sel \in {ui.sel, Nobody}
  <2>1. calls' = listing
    BY <1>3, <1>9
  <2>2. ThreatInv(ui', listing, shown')
    BY <1>5, <1>6, <1>8, <1>9 DEF ThreatInv, Investigating, detail, detailLoading
  <2>3. TabInv'
    BY <1>7, <2>1, TabKept DEF InTab
  <2>4. QED
    BY <1>7, <2>1, <2>2, <2>3 DEF ThreatKept
<1>10. CASE u.sel \notin {ui.sel, Nobody}
  <2> DEFINE c == DetailCall(u.sel)
             ds == Append(listing, c)
  <2>1. calls' = ds
    BY <1>3, <1>10
  <2>2. /\ c \in CallType /\ c.op = "detail" /\ c.row.id = u.sel /\ ~c.passed /\ Sound(c, told, gone)
    BY <1>1, DetailCallIs
  <2> HIDE DEF c, told
  <2>3. /\ Requests(ds, told)
        /\ \A op : Has(ds, op) <=> Has(listing, op) \/ c.op = op
        /\ \A op : InOrder(listing, op) => InOrder(ds, op)
        /\ \A op : op # c.op =>
              /\ Newest(ds, op) = Newest(listing, op)
              /\ NoneAwaited(ds, op) => NoneAwaited(listing, op)
    BY <1>7, <2>2, Sent
  <2>4. \A k \in DOMAIN ds : ds[k].op = "detail" => ds[k].row.id = u.sel
    <3>1. listing \in Seq(CallType)
      BY <1>7 DEF Requests
    <3>2. /\ DOMAIN ds = DOMAIN listing \cup {Len(listing) + 1}
          /\ \A k \in DOMAIN listing : ds[k] = listing[k]
          /\ ds[Len(listing) + 1] = c
      BY <2>2, <3>1, AppendIs
    <3> HIDE DEF ds
    <3>3. QED
      BY <1>8, <2>2, <3>2
  <2> HIDE DEF ds
  <2>5. ThreatInv(ui', ds, shown')
    BY <1>5, <2>2, <2>3, <2>4 DEF ThreatInv
  <2>6. WebFlags(ui', ds)
    BY <1>7, <2>3 DEF WebInv, WebFlags
  <2>7. WebInv(ui', ds, shown')
    BY <1>7, <2>2, <2>3, <2>6 DEF WebInv, WebList
  <2>8. TabInv'
    BY <2>1, <2>3, TabKept DEF InTab, told
  <2>9. QED
    BY <2>1, <2>5, <2>7, <2>8 DEF ThreatKept
<1>11. QED
  BY <1>9, <1>10

LEMMA ThreatStep ==
  ASSUME InTab, WebInv(ui, calls, shown), ThreatInv(ui, calls, shown), ThreatUser \/ ThreatAnswer
  PROVE  ThreatKept
<1>0. /\ ui \in WebUi /\ shown \in ShownType /\ shown.told \subseteq gone /\ TabInv
      /\ Requests(calls, shown.told)
  BY TabIs DEF InTab, WebInv
<1>1. CASE ThreatRefresh
  <2> DEFINE u == [ui EXCEPT !.refreshing = TRUE]
             c == ListCall(ui)
             cs == Append(calls, c)
  <2>1. /\ Ready(u, cs, shown) /\ Requests(cs, shown.told) /\ u.sel = ui.sel
        /\ u.detail = ui.detail /\ u.detailLoading = ui.detailLoading
    BY <1>0, RefreshReady
  <2>2. ThreatRender(u, cs) /\ shown' = shown
    BY <1>1 DEF ThreatRefresh
  <2>3. c \in CallType /\ c.op = "list"
    BY <1>0, ListCallIs
  <2> HIDE DEF u, c
  <2>4. /\ DOMAIN cs = DOMAIN calls \cup {Len(calls) + 1}
        /\ \A k \in DOMAIN calls : cs[k] = calls[k]
        /\ cs[Len(calls) + 1] = c
    BY <1>0, <2>3, AppendIs DEF Requests
  <2> HIDE DEF cs
  <2>5. Investigating(u, cs, shown)
    BY <2>1, <2>3, <2>4 DEF Investigating, ThreatInv, Has
  <2>6. QED
    BY <1>0, <2>1, <2>2, <2>5, ThreatRenderKeeps
<1>2. ASSUME NEW u \in WebUi, ThreatRender(u, calls), shown' = shown, u.items = ui.items,
             u.loading = ui.loading, u.refreshing = ui.refreshing, u.saving = ui.saving,
             u.creating = ui.creating, u.deleting = ui.deleting,
             u.detail = ui.detail, u.detailLoading = ui.detailLoading
      PROVE  ThreatKept
  <2>1. Ready(u, calls, shown)
    BY <1>0, <1>2, MoveReady
  <2>2. Investigating(u, calls, shown)
    BY <1>2 DEF Investigating, ThreatInv
  <2>3. QED
    BY <1>0, <1>2, <2>1, <2>2, ThreatRenderKeeps
<1>3. ASSUME NEW f \in {All, "on", "off"}, ThreatFilter(f) PROVE ThreatKept
  <2>1. f \in AnyFilter
    BY DEF AnyFilter, Tags
  <2> DEFINE u == [ui EXCEPT !.offset = 0, !.filter = f]
  <2>2. ThreatRender(u, calls) /\ shown' = shown
    BY <1>3, Zenon DEF ThreatFilter
  <2>3. /\ u \in WebUi /\ u.items = ui.items /\ u.loading = ui.loading /\ u.refreshing = ui.refreshing
        /\ u.saving = ui.saving /\ u.creating = ui.creating /\ u.deleting = ui.deleting
        /\ u.detail = ui.detail /\ u.detailLoading = ui.detailLoading
    BY <1>0, <2>1 DEF WebUi
  <2> HIDE DEF u
  <2>4. QED
    BY <1>2, <2>2, <2>3
<1>4. CASE ThreatPick
  <2>1. PICK c \in ThreatList(ui) :
          ThreatRender(IF c \in Ids THEN [ui EXCEPT !.sel = c] ELSE Turned(ui, c), calls) /\ shown' = shown
    BY <1>4, Zenon DEF ThreatPick
  <2> DEFINE u == IF c \in Ids THEN [ui EXCEPT !.sel = c] ELSE Turned(ui, c)
  <2>2. /\ u \in WebUi /\ u.items = ui.items /\ u.loading = ui.loading /\ u.refreshing = ui.refreshing
        /\ u.saving = ui.saving /\ u.creating = ui.creating /\ u.deleting = ui.deleting
        /\ u.detail = ui.detail /\ u.detailLoading = ui.detailLoading
    BY <1>0, PickedIs
  <2>3. ThreatRender(u, calls) /\ shown' = shown
    BY <2>1, Zenon
  <2> HIDE DEF u
  <2>4. QED
    BY <1>2, <2>2, <2>3
<1>5. ASSUME NEW i \in DOMAIN calls, NEW ok \in BOOLEAN, ok => calls[i].done /\ calls[i].ok,
             ThreatLoaded(i, ok)
      PROVE  ThreatKept
  <2> DEFINE u == IF ok THEN Listed(ui, calls[i]) ELSE Unlisted(ui)
             cs == Passing(i)
  <2>1. calls[i].op = "list" /\ ThreatRender(u, cs) /\ shown' = ShownAfter(calls[i], ok)
    BY <1>5 DEF ThreatLoaded
  <2>2. /\ Ready(u, cs, shown') /\ Requests(cs, shown'.told)
        /\ shown' \in ShownType /\ shown'.told = shown.told /\ shown'.detail = shown.detail
        /\ u.detail = ui.detail /\ u.detailLoading = ui.detailLoading
    BY <1>0, <1>5, <2>1, LoadedReady
  <2> HIDE DEF u
  <2>3. Rest(i, cs)
    BY <1>0, RestIs DEF Requests
  <2> HIDE DEF cs
  <2>4. /\ Has(calls, "detail") <=> Has(cs, "detail")
        /\ \A k \in DOMAIN cs : \E j \in DOMAIN calls : j # i /\ cs[k] \in {calls[j], Late(calls[j])}
        /\ \A j \in DOMAIN calls : calls[j] \in CallType
    BY <1>0, <2>1, <2>3, EndedHas, Ended
  <2>5. Investigating(u, cs, shown')
    BY <2>2, <2>4, LateIs DEF Investigating, ThreatInv
  <2>6. QED
    BY <1>0, <2>1, <2>2, <2>5, ThreatRenderKeeps
<1>6. ASSUME NEW i \in DOMAIN calls, NEW ok \in BOOLEAN, ThreatInvestigated(i, ok)
      PROVE  ThreatKept
  <2> DEFINE detail == IF ok THEN calls[i].row.id ELSE ui.detail
             u == [ui EXCEPT !.detail = detail, !.detailLoading = FALSE]
             cs == Without(i)
  <2>1. calls[i] \in CallType /\ calls[i].op = "detail" /\ calls[i].row.id = ui.sel
    BY <1>0, <1>6, TabIs DEF ThreatInvestigated, ThreatInv
  <2>2. ThreatRender(u, cs)
    BY <1>0, <1>6 DEF ThreatInvestigated, WebUi
  <2>3. /\ shown' \in ShownType /\ shown'.told = shown.told /\ shown'.query = shown.query
        /\ shown'.list = shown.list /\ shown'.detail = IF ok THEN "current" ELSE "failed"
    BY <1>0, <1>6 DEF ThreatInvestigated, ShownType
  <2>4. detail \in AnyId /\ (ok => detail = ui.sel)
    BY <1>0, <2>1, WebUiIs DEF WebUi
  <2> HIDE DEF detail
  <2>5. /\ u \in WebUi /\ u.items = ui.items /\ Query(u) = Query(ui) /\ u.sel = ui.sel
        /\ u.loading = ui.loading /\ u.refreshing = ui.refreshing /\ u.saving = ui.saving
        /\ u.creating = ui.creating /\ u.deleting = ui.deleting /\ u.detail = detail /\ ~u.detailLoading
    BY <1>0, <2>4 DEF WebUi, Query
  <2> HIDE DEF u
  <2>6. /\ Rest(i, cs) /\ cs \in {Without(i), Passing(i)}
    BY <1>0, RestIs DEF Requests
  <2>7. /\ InOrder(calls, "list") => InOrder(cs, "list")
        /\ Newest(cs, "list") \subseteq Newest(calls, "list")
        /\ NoneAwaited(cs, "list") => NoneAwaited(calls, "list")
    BY <1>0, <2>1, <2>6, EndedOther
  <2> HIDE DEF cs
  <2>8. /\ \A op : Has(calls, op) /\ op # "detail" => Has(cs, op)
        /\ \A k \in DOMAIN cs : \E j \in DOMAIN calls : j # i /\ cs[k] \in {calls[j], Late(calls[j])}
        /\ \A j \in DOMAIN calls : calls[j] \in CallType
        /\ Requests(cs, shown.told)
    BY <1>0, <2>1, <2>6, EndedHas, Ended, EndedSound
  <2>9. Investigating(u, cs, shown')
    BY <2>3, <2>4, <2>5, <2>8, LateIs DEF Investigating, ThreatInv
  <2>10. WebFlags(u, cs)
    BY <2>5, <2>8 DEF WebInv, WebFlags
  <2>11. Ready(u, cs, shown')
    BY <2>3, <2>5, <2>7, <2>10 DEF Ready, WebInv, WebList, Genuine
  <2>12. QED
    BY <1>0, <2>2, <2>3, <2>8, <2>9, <2>11, ThreatRenderKeeps
<1>7. QED
  <2>1. ASSUME NEW i \in DOMAIN calls, NEW ok \in BOOLEAN, Ends(i, ok)
        PROVE  ok => calls[i].done /\ calls[i].ok
    BY <1>0, <2>1, EndsIs, TabIs
  <2>2. QED
    BY <1>1, <1>3, <1>4, <1>5, <1>6, <2>1 DEF ThreatUser, ThreatAnswer

-----------------------------------------------------------------------------
(* The lists of the admin panel: a list is asked for or ends, a dialog is  *)
(* opened or closed.                                                       *)

LEMMA AdminUiIs ==
  ASSUME NEW u \in AdminUi
  PROVE  /\ u.items \in Seq(Row) /\ u.total \in Nat /\ u.offset \in Nat /\ u.limit \in Nat
         /\ u.filter \in AnyFilter /\ u.search \in AnyId /\ u.sel \in AnyId /\ u.detail \in AnyId
         /\ u.loading \in BOOLEAN /\ u.exporting \in BOOLEAN /\ Query(u) \in QueryType
  BY QueryIs DEF AdminUi

LEMMA AskedIs ==
  ASSUME NEW query \in QueryType, NEW sel \in AnyId, NEW c, c = Call("list", query, sel, NoRow, <<>>)
  PROVE  /\ c \in CallType /\ c.op = "list" /\ c.query = query /\ c.row = NoRow /\ ~c.passed
         /\ \A told : Sound(c, told, gone)
<1> DEFINE none == <<>>
           op == "list"
<1>1. /\ NoRow \in AnyRow /\ none \in Seq(Row) /\ op \in RowOperations \cup OtherOperations
      /\ c = Call(op, query, sel, NoRow, none) /\ op \notin {"create", "delete"} /\ op = "list"
  BY RowIs DEF RowOperations
<1> HIDE DEF none, op
<1>2. c \in CallType /\ c.op = op /\ c.query = query /\ c.row = NoRow /\ ~c.passed
  BY <1>1, CallIs
<1>3. \A told, deleted : Sound(c, told, deleted)
  BY <1>1, CallIs
<1>4. QED
  BY <1>1, <1>2, <1>3

LEMMA AskingIs ==
  ASSUME NEW u \in AdminUi, NEW offset \in Nat
  PROVE  LET c == Asking(u, offset)
         IN  /\ c \in CallType /\ c.op = "list" /\ c.query.limit = u.limit /\ c.query.filter = u.filter
             /\ c.query.offset = offset /\ ~c.passed /\ \A told : Sound(c, told, gone)
<1> DEFINE query == [Query(u) EXCEPT !.offset = offset]
           c == Asking(u, offset)
<1>1. Query(u) \in QueryType /\ u.sel \in AnyId /\ Query(u).limit = u.limit /\ Query(u).filter = u.filter
  BY AdminUiIs, QueryIs
<1>2. query \in QueryType /\ query.limit = u.limit /\ query.filter = u.filter /\ query.offset = offset
  BY <1>1 DEF QueryType
<1>3. c = Call("list", query, u.sel, NoRow, <<>>)
  BY Zenon DEF Asking
<1> HIDE DEF query, c
<1>4. QED
  BY <1>1, <1>2, <1>3, AskedIs DEF c

LEMMA AgentServiceIs ==
  ASSUME NEW u \in AdminUi
  PROVE  LET c == agentService(u)
         IN  /\ c \in CallType /\ c.op = "list" /\ c.query.limit = u.limit /\ c.query.filter = u.filter
             /\ c.query.offset = u.offset /\ ~c.passed /\ \A told : Sound(c, told, gone)
<1> DEFINE query == [Query(u) EXCEPT !.search = Nobody]
           c == agentService(u)
<1>1. /\ Query(u) \in QueryType /\ u.sel \in AnyId /\ Query(u).limit = u.limit
      /\ Query(u).filter = u.filter /\ Query(u).offset = u.offset
  BY AdminUiIs, QueryIs
<1>2. query \in QueryType /\ query.limit = u.limit /\ query.filter = u.filter /\ query.offset = u.offset
  BY <1>1 DEF QueryType, AnyId
<1>3. c = Call("list", query, u.sel, NoRow, <<>>)
  BY Zenon DEF agentService
<1> HIDE DEF query, c
<1>4. QED
  BY <1>1, <1>2, <1>3, AskedIs DEF c

AdminKept ==
  /\ TabInv' /\ AdminInv(ui', calls', shown')
  /\ page \in {"fleet", "intel"} => OnePage(ui', calls')
  /\ page \in {"organizations", "intel"} => DialogInv(ui', calls', shown')
InAdmin ==
  /\ InTab /\ AdminInv(ui, calls, shown)
  /\ page \in {"fleet", "intel"} => OnePage(ui, calls)
  /\ page \in {"organizations", "intel"} => DialogInv(ui, calls, shown)

\* A list is asked for.
LEMMA AdminAsked ==
  ASSUME InAdmin, shown' = shown, NEW c \in CallType, c.op = "list", ~c.passed, Sound(c, shown.told, gone),
         calls' = Append(calls, c), c.query.limit = ui.limit, c.query.filter = ui'.filter,
         page \in {"fleet", "intel"} => c.query.offset = 0,
         ui' \in AdminUi, ui'.items = ui.items, ui'.limit = ui.limit, ui'.offset = ui.offset,
         ui'.exporting = ui.exporting, ui'.sel = ui.sel, ui'.detail = ui.detail
  PROVE  AdminKept
<1>1. AdminInv(ui, calls, shown) /\ Requests(calls, shown.told) /\ shown \in ShownType /\ shown.told \subseteq gone
  BY TabIs DEF InAdmin, InTab
<1>2. /\ Requests(calls', shown.told)
      /\ \A op : Has(calls', op) <=> Has(calls, op) \/ c.op = op
      /\ \A op : InOrder(calls, op) => InOrder(calls', op)
      /\ Newest(calls', c.op) = {c} /\ ~NoneAwaited(calls', c.op)
      /\ \A op : op # c.op =>
            /\ Newest(calls', op) = Newest(calls, op)
            /\ NoneAwaited(calls', op) => NoneAwaited(calls, op)
  BY <1>1, Sent
<1>3. TabInv'
  BY <1>1, <1>2, TabKept DEF InAdmin, InTab
<1>4. AdminInv(ui', calls', shown')
  BY <1>1, <1>2 DEF AdminInv, Genuine
<1>5. ASSUME page \in {"organizations", "intel"} PROVE DialogInv(ui', calls', shown')
  <2>1. DialogInv(ui, calls, shown)
    BY <1>5 DEF InAdmin
  <2>2. QED
    BY <1>2, <2>1 DEF DialogInv
<1>6. ASSUME page \in {"fleet", "intel"} PROVE OnePage(ui', calls')
  <2>1. OnePage(ui, calls) /\ calls \in Seq(CallType)
    BY <1>1, <1>6 DEF InAdmin, Requests
  <2>2. /\ DOMAIN calls' = DOMAIN calls \cup {Len(calls) + 1}
        /\ \A k \in DOMAIN calls : calls'[k] = calls[k]
        /\ calls'[Len(calls) + 1] = c
    BY <2>1, AppendIs
  <2>3. QED
    BY <1>6, <2>1, <2>2 DEF OnePage
<1>7. QED
  BY <1>3, <1>4, <1>5, <1>6 DEF AdminKept

\* What is asked for is a dialog's, or an export.
LEMMA AdminSent ==
  ASSUME InAdmin, shown' = shown, NEW c \in CallType, c.op \in {"detail", "export"}, ~c.passed,
         Sound(c, shown.told, gone), calls' = Append(calls, c),
         ui' \in AdminUi, ui'.items = ui.items, ui'.limit = ui.limit, ui'.offset = ui.offset,
         ui'.filter = ui.filter, ui'.loading = ui.loading,
         ui'.exporting => ui.exporting \/ c.op = "export",
         page \in {"organizations", "intel"} => c.op = "detail" /\ ui'.sel = c.row.id
  PROVE  AdminKept
<1>1. AdminInv(ui, calls, shown) /\ Requests(calls, shown.told) /\ shown \in ShownType /\ shown.told \subseteq gone
  BY TabIs DEF InAdmin, InTab
<1>2. /\ Requests(calls', shown.told)
      /\ \A op : Has(calls', op) <=> Has(calls, op) \/ c.op = op
      /\ \A op : InOrder(calls, op) => InOrder(calls', op)
      /\ Newest(calls', c.op) = {c} /\ ~NoneAwaited(calls', c.op)
      /\ \A op : op # c.op =>
            /\ Newest(calls', op) = Newest(calls, op)
            /\ NoneAwaited(calls', op) => NoneAwaited(calls, op)
  <2> DEFINE ds == Append(calls, c)
  <2>1. /\ Requests(ds, shown.told)
        /\ \A op : Has(ds, op) <=> Has(calls, op) \/ c.op = op
        /\ \A op : InOrder(calls, op) => InOrder(ds, op)
        /\ Newest(ds, c.op) = {c} /\ ~NoneAwaited(ds, c.op)
        /\ \A op : op # c.op =>
              /\ Newest(ds, op) = Newest(calls, op)
              /\ NoneAwaited(ds, op) => NoneAwaited(calls, op)
    BY <1>1, Sent
  <2>2. calls' = ds
    OBVIOUS
  <2> HIDE DEF ds
  <2>3. QED
    BY <2>1, <2>2
<1>3. TabInv'
  BY <1>1, <1>2, TabKept DEF InAdmin, InTab
<1>4. AdminInv(ui', calls', shown')
  <2>1. /\ InOrder(calls', "list") /\ Newest(calls', "list") = Newest(calls, "list")
        /\ NoneAwaited(calls', "list") => NoneAwaited(calls, "list")
    BY <1>1, <1>2 DEF AdminInv
  <2>2. (ui'.loading => Has(calls', "list")) /\ (ui'.exporting => Has(calls', "export"))
    BY <1>1, <1>2 DEF AdminInv
  <2>3. QED
    BY <1>1, <2>1, <2>2 DEF AdminInv, Genuine
<1>5. ASSUME page \in {"organizations", "intel"} PROVE DialogInv(ui', calls', shown')
  <2>1. DialogInv(ui, calls, shown) /\ c.op = "detail" /\ ui'.sel = c.row.id
    BY <1>5 DEF InAdmin
  <2>2. QED
    BY <1>2, <2>1 DEF DialogInv
<1>6. ASSUME page \in {"fleet", "intel"} PROVE OnePage(ui', calls')
  <2>1. OnePage(ui, calls) /\ calls \in Seq(CallType)
    BY <1>1, <1>6 DEF InAdmin, Requests
  <2>2. /\ DOMAIN calls' = DOMAIN calls \cup {Len(calls) + 1}
        /\ \A k \in DOMAIN calls : calls'[k] = calls[k]
        /\ calls'[Len(calls) + 1] = c
    BY <2>1, AppendIs
  <2>3. QED
    BY <1>6, <2>1, <2>2 DEF OnePage
<1>7. QED
  BY <1>3, <1>4, <1>5, <1>6 DEF AdminKept

\* Nothing is asked for: a dialog is closed, or opened without a request; a
\* search is typed.
LEMMA AdminStill ==
  ASSUME InAdmin, shown' = shown, calls' = calls,
         ui' \in AdminUi, ui'.items = ui.items, ui'.limit = ui.limit, ui'.offset = ui.offset,
         ui'.filter = ui.filter, ui'.loading = ui.loading, ui'.exporting = ui.exporting,
         page \in {"organizations", "intel"} =>
           ui'.detail = ui.detail /\ ui'.sel \in {ui.sel, Nobody}
  PROVE  AdminKept
<1>1. AdminInv(ui, calls, shown) /\ Requests(calls, shown.told) /\ shown \in ShownType /\ shown.told \subseteq gone
  BY TabIs DEF InAdmin, InTab
<1>2. TabInv'
  BY <1>1, TabKept DEF InAdmin, InTab
<1>3. AdminInv(ui', calls', shown')
  BY <1>1 DEF AdminInv, Genuine
<1>4. ASSUME page \in {"organizations", "intel"} PROVE DialogInv(ui', calls', shown')
  BY <1>4 DEF InAdmin, DialogInv
<1>5. page \in {"fleet", "intel"} => OnePage(ui', calls')
  BY DEF InAdmin, OnePage
<1>6. QED
  BY <1>2, <1>3, <1>4, <1>5 DEF AdminKept

LEMMA ListEndedIs ==
  ASSUME shown \in ShownType, NEW i \in DOMAIN calls, calls[i] \in CallType, NEW ok \in BOOLEAN,
         ListEnded(i, ok)
  PROVE  /\ shown' \in ShownType /\ shown'.told = shown.told /\ shown'.detail = shown.detail
         /\ shown'.query = IF ok THEN calls[i].query ELSE shown.query
         /\ shown'.list = IF ok THEN IF calls[i].passed THEN "late" ELSE "current"
                          ELSE IF calls[i].passed THEN shown.list ELSE "failed"
<1> DEFINE c == calls[i]
<1>1. shown' = IF ok THEN [shown EXCEPT !.query = c.query, !.list = IF c.passed THEN "late" ELSE "current"]
                     ELSE [shown EXCEPT !.list = IF c.passed THEN @ ELSE "failed"]
  BY DEF ListEnded
<1>2. c.query \in QueryType /\ c.passed \in BOOLEAN
  BY DEF CallType
<1> HIDE DEF c
<1>3. QED
  <2>1. CASE ok
    BY <1>1, <1>2, <2>1 DEF ShownType, c
  <2>2. CASE ~ok
    BY <1>1, <1>2, <2>2 DEF ShownType, c
  <2>3. QED
    BY <2>1, <2>2

\* A list ends: its rows are shown, and the offset that was asked for.
LEMMA AdminLoaded ==
  ASSUME InAdmin, NEW i \in DOMAIN calls, NEW ok \in BOOLEAN, ok => calls[i].done /\ calls[i].ok,
         calls[i].op = "list", calls' = Passing(i), ListEnded(i, ok),
         ui' \in AdminUi, ~ui'.loading, ui'.items = IF ok THEN calls[i].answer ELSE ui.items,
         ui'.offset = (IF ok THEN calls[i].query.offset ELSE ui.offset),
         ui'.limit = ui.limit, ui'.filter = ui.filter, ui'.exporting = ui.exporting,
         ui'.sel = ui.sel, ui'.detail = ui.detail
  PROVE  AdminKept
<1> DEFINE c == calls[i]
<1>1. /\ AdminInv(ui, calls, shown) /\ Requests(calls, shown.told) /\ shown \in ShownType
      /\ shown.told \subseteq gone /\ c \in CallType /\ Sound(c, shown.told, gone) /\ calls \in Seq(CallType)
  BY TabIs DEF InAdmin, InTab
<1>2. /\ shown' \in ShownType /\ shown'.told = shown.told /\ shown'.detail = shown.detail
      /\ shown'.query = IF ok THEN c.query ELSE shown.query
      /\ shown'.list = IF ok THEN IF c.passed THEN "late" ELSE "current"
                             ELSE IF c.passed THEN shown.list ELSE "failed"
  BY <1>1, ListEndedIs
<1>3. /\ InOrder(calls', "list") /\ Newest(calls', "list") \subseteq Newest(calls, "list")
      /\ NoneAwaited(calls', "list") =>
           IF c.passed THEN NoneAwaited(calls, "list") ELSE c \in Newest(calls, "list")
  BY <1>1, EndedSame DEF AdminInv
<1>4. Rest(i, calls')
  BY <1>1, RestIs
<1>5. /\ Requests(calls', shown'.told) /\ \A op : Has(calls, op) /\ op # "list" => Has(calls', op)
      /\ \A k \in DOMAIN calls' : \E j \in DOMAIN calls : j # i /\ calls'[k] \in {calls[j], Late(calls[j])}
      /\ \A j \in DOMAIN calls : calls[j] \in CallType
  BY <1>1, <1>2, <1>4, EndedSound, EndedHas, Ended
<1>6. TabInv'
  BY <1>1, <1>2, <1>5, TabKept DEF InAdmin, InTab
<1>7. AdminInv(ui', calls', shown')
  <2>1. Genuine(ui', shown')
    <3>1. CASE ok
      BY <1>1, <1>2, <3>1 DEF Genuine, Sound
    <3>2. CASE ~ok
      BY <1>1, <1>2, <3>2 DEF Genuine, AdminInv
    <3>3. QED
      BY <3>1, <3>2
  <2>2. ASSUME NoneAwaited(calls', "list"), shown'.list = "current"
        PROVE  shown'.query.limit = ui'.limit /\ shown'.query.filter = ui'.filter
    <3>1. CASE ok
      <4>1. ~c.passed /\ shown'.query = c.query
        BY <1>2, <2>2, <3>1
      <4>2. c \in Newest(calls, "list")
        BY <1>3, <2>2, <4>1
      <4>3. QED
        BY <1>1, <4>1, <4>2 DEF AdminInv
    <3>2. CASE ~ok
      <4>1. c.passed /\ shown'.query = shown.query /\ shown.list = "current"
        BY <1>2, <2>2, <3>2
      <4>2. NoneAwaited(calls, "list")
        BY <1>3, <2>2, <4>1
      <4>3. QED
        BY <1>1, <4>1, <4>2 DEF AdminInv
    <3>3. QED
      BY <3>1, <3>2
  <2>3. /\ ui'.exporting => Has(calls', "export")
        /\ \A d \in Newest(calls', "list") : d.query.limit = ui'.limit /\ d.query.filter = ui'.filter
        /\ ui'.offset = shown'.query.offset
    BY <1>1, <1>2, <1>3, <1>5 DEF AdminInv
  <2>4. QED
    BY <1>3, <2>1, <2>2, <2>3 DEF AdminInv
<1>8. ASSUME page \in {"organizations", "intel"} PROVE DialogInv(ui', calls', shown')
  <2>1. DialogInv(ui, calls, shown)
    BY <1>8 DEF InAdmin
  <2>2. /\ InOrder(calls, "detail") => InOrder(calls', "detail")
        /\ Newest(calls', "detail") \subseteq Newest(calls, "detail")
        /\ NoneAwaited(calls', "detail") => NoneAwaited(calls, "detail")
    BY <1>1, EndedOther
  <2>3. QED
    BY <1>2, <2>1, <2>2 DEF DialogInv
<1>9. ASSUME page \in {"fleet", "intel"} PROVE OnePage(ui', calls')
  BY <1>5, <1>9, LateIs DEF InAdmin, OnePage
<1>10. QED
  BY <1>6, <1>7, <1>8, <1>9 DEF AdminKept

\* An export ends, or the request of a dialog.
LEMMA AdminEnded ==
  ASSUME InAdmin, NEW i \in DOMAIN calls, calls[i].op \in {"detail", "export"},
         calls' \in {Without(i), Passing(i)},
         shown' \in ShownType, shown'.told = shown.told, shown'.query = shown.query, shown'.list = shown.list,
         ui' \in AdminUi, ui'.items = ui.items, ui'.limit = ui.limit, ui'.offset = ui.offset,
         ui'.filter = ui.filter, ui'.loading = ui.loading,
         ui'.exporting => ui.exporting /\ calls[i].op # "export",
         page \in {"organizations", "intel"} =>
           /\ calls[i].op = "detail" /\ calls' = Passing(i) /\ ui'.sel = ui.sel
           /\ ui'.detail \in {calls[i].row.id, Nobody}
           /\ calls[i].passed => shown'.detail = "late"
  PROVE  AdminKept
<1>1. /\ AdminInv(ui, calls, shown) /\ Requests(calls, shown.told) /\ shown \in ShownType
      /\ shown.told \subseteq gone /\ calls \in Seq(CallType)
  BY TabIs DEF InAdmin, InTab
<1>2. Rest(i, calls')
  BY <1>1, RestIs
<1>3. /\ Requests(calls', shown'.told) /\ \A op : Has(calls, op) /\ op # calls[i].op => Has(calls', op)
      /\ \A k \in DOMAIN calls' : \E j \in DOMAIN calls : j # i /\ calls'[k] \in {calls[j], Late(calls[j])}
      /\ \A j \in DOMAIN calls : calls[j] \in CallType
  BY <1>1, <1>2, EndedSound, EndedHas, Ended
<1>4. TabInv'
  BY <1>1, <1>3, TabKept DEF InAdmin, InTab
<1>5. /\ InOrder(calls, "list") => InOrder(calls', "list")
      /\ Newest(calls', "list") \subseteq Newest(calls, "list")
      /\ NoneAwaited(calls', "list") => NoneAwaited(calls, "list")
  BY <1>1, EndedOther
<1>6. AdminInv(ui', calls', shown')
  <2>1. (ui'.loading => Has(calls', "list")) /\ (ui'.exporting => Has(calls', "export"))
    BY <1>1, <1>3 DEF AdminInv
  <2>2. QED
    BY <1>1, <1>5, <2>1 DEF AdminInv, Genuine
<1>7. ASSUME page \in {"organizations", "intel"} PROVE DialogInv(ui', calls', shown')
  <2>1. DialogInv(ui, calls, shown) /\ calls[i].op = "detail" /\ calls' = Passing(i)
    BY <1>7 DEF InAdmin
  <2>2. /\ InOrder(calls', "detail") /\ Newest(calls', "detail") \subseteq Newest(calls, "detail")
        /\ NoneAwaited(calls', "detail") =>
             IF calls[i].passed THEN NoneAwaited(calls, "detail") ELSE calls[i] \in Newest(calls, "detail")
    BY <1>1, <2>1, EndedSame DEF DialogInv
  <2>3. ASSUME NoneAwaited(calls', "detail"), shown'.detail # "late"
        PROVE  ui'.sel = Nobody \/ ui'.detail \in {ui'.sel, Nobody}
    <3>1. calls[i] \in Newest(calls, "detail")
      BY <1>7, <2>2, <2>3
    <3>2. QED
      BY <1>7, <2>1, <3>1 DEF DialogInv
  <2>4. QED
    BY <1>7, <2>1, <2>2, <2>3 DEF DialogInv
<1>8. ASSUME page \in {"fleet", "intel"} PROVE OnePage(ui', calls')
  BY <1>3, <1>8, LateIs DEF InAdmin, OnePage
<1>9. QED
  BY <1>4, <1>6, <1>7, <1>8 DEF AdminKept

\* The list function is called, for an offset of a page that has several.
LEMMA LoadingStep ==
  ASSUME InAdmin, NEW offset \in Nat, page \in {"fleet", "intel"} => offset = 0, NEW f \in AnyFilter,
         NEW u, u = [ui EXCEPT !.filter = f], Loading(u, offset)
  PROVE  AdminKept
<1> DEFINE c == Asking(u, offset)
<1>1. ui \in AdminUi
  BY DEF InAdmin, AdminInv
<1>2. u \in AdminUi /\ u.filter = f /\ u.limit = ui.limit
  BY <1>1 DEF AdminUi
<1>3. /\ c \in CallType /\ c.op = "list" /\ c.query.limit = ui.limit /\ c.query.filter = f
      /\ c.query.offset = offset /\ ~c.passed /\ Sound(c, shown.told, gone)
  BY <1>2, AskingIs
<1>4. ui' = [u EXCEPT !.loading = TRUE] /\ calls' = Append(calls, c) /\ shown' = shown
  BY DEF Loading
<1> HIDE DEF c
<1>5. /\ ui' \in AdminUi /\ ui'.items = ui.items /\ ui'.limit = ui.limit /\ ui'.offset = ui.offset
      /\ ui'.filter = f /\ ui'.exporting = ui.exporting /\ ui'.sel = ui.sel /\ ui'.detail = ui.detail
  BY <1>1, <1>4 DEF AdminUi
<1>6. QED
  BY <1>3, <1>4, <1>5, AdminAsked

LEMMA ReloadingStep ==
  ASSUME InAdmin, NEW offset \in Nat, page \in {"fleet", "intel"} => offset = 0, Loading(ui, offset)
  PROVE  AdminKept
<1>1. ui \in AdminUi
  BY DEF InAdmin, AdminInv
<1>2. ui.filter \in AnyFilter /\ ui = [ui EXCEPT !.filter = ui.filter]
  BY <1>1 DEF AdminUi
<1>3. QED
  BY <1>2, LoadingStep

LEMMA SearchStep ==
  ASSUME InAdmin, NEW id \in AnyId, Search(id)
  PROVE  AdminKept
<1>1. ui \in AdminUi
  BY DEF InAdmin, AdminInv
<1>2. ui' = [ui EXCEPT !.search = id] /\ calls' = calls /\ shown' = shown
  BY DEF Search
<1>3. /\ ui' \in AdminUi /\ ui'.items = ui.items /\ ui'.limit = ui.limit /\ ui'.offset = ui.offset
      /\ ui'.filter = ui.filter /\ ui'.loading = ui.loading /\ ui'.exporting = ui.exporting
      /\ ui'.sel = ui.sel /\ ui'.detail = ui.detail
  BY <1>1, <1>2 DEF AdminUi
<1>4. QED
  BY <1>2, <1>3, AdminStill

\* A dialog without a request is opened; any dialog is closed.
LEMMA SelectStep ==
  ASSUME InAdmin, NEW id \in AnyId, page \in {"organizations", "intel"} => id = Nobody,
         ui' = [ui EXCEPT !.sel = id], calls' = calls, shown' = shown
  PROVE  AdminKept
<1>1. ui \in AdminUi
  BY DEF InAdmin, AdminInv
<1>2. /\ ui' \in AdminUi /\ ui'.items = ui.items /\ ui'.limit = ui.limit /\ ui'.offset = ui.offset
      /\ ui'.filter = ui.filter /\ ui'.loading = ui.loading /\ ui'.exporting = ui.exporting
      /\ ui'.sel = id /\ ui'.detail = ui.detail
  BY <1>1 DEF AdminUi
<1>3. QED
  BY <1>2, AdminStill

LEMMA CloseStep ==
  ASSUME InAdmin, Close
  PROVE  AdminKept
<1>1. Nobody \in AnyId
  BY DEF AnyId
<1>2. QED
  BY <1>1, SelectStep DEF Close

\* The answer with the offset it was asked with, or that of the page.
LEMMA LoadedStep ==
  ASSUME InAdmin, NEW i \in DOMAIN calls, NEW ok \in BOOLEAN, ok => calls[i].done /\ calls[i].ok,
         calls[i].op = "list", calls' = Passing(i), ListEnded(i, ok),
         ui' = IF ok THEN [ui EXCEPT !.items = calls[i].answer, !.total = calls[i].total,
                                     !.offset = calls[i].query.offset, !.loading = FALSE]
                     ELSE [ui EXCEPT !.loading = FALSE]
  PROVE  AdminKept
<1> DEFINE answer == calls[i].answer
           total == calls[i].total
           offset == calls[i].query.offset
<1>1. ui \in AdminUi /\ calls[i] \in CallType
  BY TabIs DEF InAdmin, AdminInv, InTab
<1>2. answer \in Seq(Row) /\ total \in Nat /\ offset \in Nat
  BY <1>1 DEF CallType, QueryType
<1>3. ui' = IF ok THEN [ui EXCEPT !.items = answer, !.total = total, !.offset = offset, !.loading = FALSE]
                  ELSE [ui EXCEPT !.loading = FALSE]
  OBVIOUS
<1> HIDE DEF answer, total, offset
<1>4. /\ ui' \in AdminUi /\ ~ui'.loading /\ ui'.items = IF ok THEN answer ELSE ui.items
      /\ ui'.offset = (IF ok THEN offset ELSE ui.offset)
      /\ ui'.limit = ui.limit /\ ui'.filter = ui.filter /\ ui'.exporting = ui.exporting
      /\ ui'.sel = ui.sel /\ ui'.detail = ui.detail
  <2>1. CASE ok
    <3>1. ui' = [ui EXCEPT !.items = answer, !.total = total, !.offset = offset, !.loading = FALSE]
      BY <1>3, <2>1
    <3>2. QED
      BY <1>1, <1>2, <2>1, <3>1 DEF AdminUi
  <2>2. CASE ~ok
    <3>1. ui' = [ui EXCEPT !.loading = FALSE]
      BY <1>3, <2>2
    <3>2. QED
      BY <1>1, <2>2, <3>1 DEF AdminUi
  <2>3. QED
    BY <2>1, <2>2
<1>5. QED
  BY <1>4, AdminLoaded DEF answer, offset

LEMMA LoadedOnePageStep ==
  ASSUME InAdmin, page \in {"fleet", "intel"},
         NEW i \in DOMAIN calls, NEW ok \in BOOLEAN, ok => calls[i].done /\ calls[i].ok,
         calls[i].op = "list", calls' = Passing(i), ListEnded(i, ok),
         ui' = [ui EXCEPT !.items = IF ok THEN calls[i].answer ELSE @, !.loading = FALSE]
  PROVE  AdminKept
<1> DEFINE items == IF ok THEN calls[i].answer ELSE ui.items
<1>1. ui \in AdminUi /\ calls[i] \in CallType /\ ui.offset = 0 /\ calls[i].query.offset = 0
  BY TabIs DEF InAdmin, AdminInv, InTab, OnePage
<1>2. items \in Seq(Row)
  BY <1>1, AdminUiIs DEF CallType
<1>3. ui' = [ui EXCEPT !.items = items, !.loading = FALSE]
  BY <1>1 DEF AdminUi
<1> HIDE DEF items
<1>4. /\ ui' \in AdminUi /\ ~ui'.loading /\ ui'.items = items /\ ui'.offset = 0
      /\ ui'.limit = ui.limit /\ ui'.filter = ui.filter /\ ui'.exporting = ui.exporting
      /\ ui'.sel = ui.sel /\ ui'.detail = ui.detail
  BY <1>1, <1>2, <1>3 DEF AdminUi
<1>5. ui'.offset = (IF ok THEN calls[i].query.offset ELSE ui.offset)
  BY <1>1, <1>4
<1>6. QED
  BY <1>4, <1>5, AdminLoaded DEF items

\* A dialog is opened with a request of its own, and the request ends.
LEMMA DialogOpenedStep ==
  ASSUME InAdmin, NEW id \in Ids, NEW detail \in AnyId, shown' = shown,
         ui' = [ui EXCEPT !.sel = id, !.detail = detail],
         calls' = Append(calls, RowCall("detail", [NoRow EXCEPT !.id = id]))
  PROVE  AdminKept
<1> DEFINE row == [NoRow EXCEPT !.id = id]
           op == "detail"
           c == RowCall(op, row)
<1>1. /\ row \in AnyRow /\ row.id = id /\ op \in RowOperations \cup OtherOperations
      /\ op \notin {"create", "delete"} /\ op = "detail"
  BY DEF AnyRow, AnyId, NoRow, RowOperations
<1>2. calls' = Append(calls, c)
  OBVIOUS
<1> HIDE DEF row, op
<1>3. c \in CallType /\ c.op = "detail" /\ c.row.id = id /\ ~c.passed /\ Sound(c, shown.told, gone)
  BY <1>1, RowCallIs
<1> HIDE DEF c
<1>4. ui \in AdminUi /\ id \in AnyId
  BY DEF InAdmin, AdminInv, AnyId
<1>5. /\ ui' \in AdminUi /\ ui'.items = ui.items /\ ui'.limit = ui.limit /\ ui'.offset = ui.offset
      /\ ui'.filter = ui.filter /\ ui'.loading = ui.loading /\ ui'.exporting = ui.exporting
      /\ ui'.sel = id
  BY <1>4 DEF AdminUi
<1>6. QED
  BY <1>2, <1>3, <1>5, AdminSent

LEMMA DialogAnsweredStep ==
  ASSUME InAdmin, page \in {"organizations", "intel"}, NEW i \in DOMAIN calls, NEW ok \in BOOLEAN,
         calls[i].op = "detail", calls' = Passing(i), DetailEnded(i, ok),
         ui' = [ui EXCEPT !.detail = IF ok THEN calls[i].row.id ELSE Nobody]
  PROVE  AdminKept
<1> DEFINE detail == IF ok THEN calls[i].row.id ELSE Nobody
           text == IF calls[i].passed THEN "late" ELSE IF ok THEN "current" ELSE "failed"
<1>1. ui \in AdminUi /\ calls[i] \in CallType /\ shown \in ShownType
  BY TabIs DEF InAdmin, AdminInv, InTab
<1>2. detail \in AnyId /\ detail \in {calls[i].row.id, Nobody} /\ text \in {"late", "current", "failed"}
  BY <1>1 DEF CallType, AnyRow, AnyId
<1>3. ui' = [ui EXCEPT !.detail = detail] /\ shown' = [shown EXCEPT !.detail = text]
  BY DEF DetailEnded
<1>4. calls[i].passed => text = "late"
  OBVIOUS
<1> HIDE DEF detail, text
<1>5. /\ ui' \in AdminUi /\ ui'.items = ui.items /\ ui'.limit = ui.limit /\ ui'.offset = ui.offset
      /\ ui'.filter = ui.filter /\ ui'.loading = ui.loading /\ ui'.exporting = ui.exporting
      /\ ui'.sel = ui.sel /\ ui'.detail = detail
  BY <1>1, <1>2, <1>3 DEF AdminUi
<1>6. /\ shown' \in ShownType /\ shown'.told = shown.told /\ shown'.query = shown.query
      /\ shown'.list = shown.list /\ shown'.detail = text
  BY <1>1, <1>2, <1>3 DEF ShownType
<1>7. QED
  BY <1>2, <1>4, <1>5, <1>6, AdminEnded

LEMMA AdminTypes ==
  ASSUME InAdmin
  PROVE  /\ ui \in AdminUi /\ ui.items \in Seq(Row) /\ ui.offset \in Nat /\ ui.limit \in Nat /\ ui.sel \in AnyId
         /\ IdsOf(ui.items) \subseteq Ids /\ Ids \subseteq AnyId /\ Nobody \in AnyId
         /\ All \in AnyFilter /\ "on" \in AnyFilter /\ TabInv /\ left \in 0 .. MaxSteps
         /\ \A i \in DOMAIN calls, ok \in BOOLEAN : Ends(i, ok) => (ok => calls[i].done /\ calls[i].ok)
<1>1. ui \in AdminUi /\ TabInv /\ left \in 0 .. MaxSteps
  BY TabIs DEF InAdmin, AdminInv, InTab
<1>2. \A i \in DOMAIN calls, ok \in BOOLEAN : Ends(i, ok) => (ok => calls[i].done /\ calls[i].ok)
  BY <1>1, EndsIs
<1>3. ui.items \in Seq(Row) /\ ui.offset \in Nat /\ ui.limit \in Nat /\ ui.sel \in AnyId
  BY <1>1, AdminUiIs
<1>4. IdsOf(ui.items) \subseteq Ids
  BY <1>3, RowsIds
<1>5. QED
  BY <1>1, <1>2, <1>3, <1>4 DEF AnyId, AnyFilter, Tags

LEMMA OrgStep ==
  ASSUME InAdmin, page = "organizations", OrgUser \/ OrgAnswer
  PROVE  AdminKept
<1>0. /\ ui \in AdminUi /\ ui.offset \in Nat /\ ui.limit \in Nat
      /\ Ids \subseteq AnyId /\ Nobody \in AnyId /\ All \in AnyFilter /\ "on" \in AnyFilter
      /\ \A i \in DOMAIN calls, ok \in BOOLEAN : Ends(i, ok) => (ok => calls[i].done /\ calls[i].ok)
  BY AdminTypes
<1>1. ASSUME NEW offset \in Nat, Loading(ui, offset) PROVE AdminKept
  BY <1>1, ReloadingStep
<1>2. CASE loadOrganizations(ui.offset) \/ loadOrganizations(0)
  BY <1>0, <1>1, <1>2 DEF loadOrganizations
<1>3. ASSUME NEW f \in {All, "on"}, OrgStatus(f) PROVE AdminKept
  <2> DEFINE u == [ui EXCEPT !.filter = f]
  <2>1. Loading(u, 0) /\ f \in AnyFilter /\ u = [ui EXCEPT !.filter = f]
    BY <1>0, <1>3, Zenon DEF OrgStatus
  <2> HIDE DEF u
  <2>2. QED
    BY <2>1, LoadingStep
<1>4. ASSUME NEW id \in AnyId, Search(id) PROVE AdminKept
  BY <1>4, SearchStep
<1>5. ASSUME NEW id \in Ids, openOrganization(id) PROVE AdminKept
  <2> DEFINE detail == ui.detail
  <2>1. detail \in AnyId
    BY <1>0, AdminUiIs
  <2>2. /\ ui' = [ui EXCEPT !.sel = id, !.detail = detail] /\ shown' = shown
        /\ calls' = Append(calls, RowCall("detail", [NoRow EXCEPT !.id = id]))
    BY <1>0, <1>5 DEF openOrganization, apiMonitoringRequests, AdminUi
  <2> HIDE DEF detail
  <2>3. QED
    BY <2>1, <2>2, DialogOpenedStep, Zenon
<1>6. ASSUME NEW c, OrgTurn(c) PROVE AdminKept
  <2> DEFINE offset == IF c = "next" THEN ui.offset + ui.limit
                       ELSE IF ui.offset > ui.limit THEN ui.offset - ui.limit ELSE 0
  <2>1. offset \in Nat
    BY <1>0
  <2>2. Loading(ui, offset)
    BY <1>6, Zenon DEF OrgTurn, loadOrganizations
  <2> HIDE DEF offset
  <2>3. QED
    BY <1>1, <2>1, <2>2
<1>7. CASE Close
  BY <1>7, CloseStep
<1>8. ASSUME NEW i \in DOMAIN calls, NEW ok \in BOOLEAN, Ends(i, ok), OrgLoaded(i, ok) PROVE AdminKept
  <2>1. /\ ok => calls[i].done /\ calls[i].ok
        /\ calls[i].op = "list" /\ calls' = Passing(i) /\ ListEnded(i, ok)
        /\ ui' = IF ok THEN [ui EXCEPT !.items = calls[i].answer, !.total = calls[i].total,
                                           !.offset = calls[i].query.offset, !.loading = FALSE]
                           ELSE [ui EXCEPT !.loading = FALSE]
    BY <1>0, <1>8, Zenon DEF OrgLoaded
  <2>2. QED
    BY <2>1, LoadedStep, Zenon
<1>9. ASSUME NEW i \in DOMAIN calls, NEW ok \in BOOLEAN, OrgOpened(i, ok) PROVE AdminKept
  BY <1>9, DialogAnsweredStep DEF OrgOpened
<1>10. QED
  BY <1>2, <1>3, <1>4, <1>5, <1>6, <1>7, <1>8, <1>9, Zenon DEF OrgUser, OrgAnswer, AnyId

LEMMA FleetStep ==
  ASSUME InAdmin, page = "fleet", FleetUser \/ FleetAnswer
  PROVE  AdminKept
<1>0. /\ ui \in AdminUi /\ Ids \subseteq AnyId /\ Nobody \in AnyId /\ All \in AnyFilter /\ "on" \in AnyFilter
      /\ \A i \in DOMAIN calls, ok \in BOOLEAN : Ends(i, ok) => (ok => calls[i].done /\ calls[i].ok)
  BY AdminTypes
<1>1. ASSUME NEW f \in AnyFilter, NEW u, u = [ui EXCEPT !.filter = f], FleetLoad(u) PROVE AdminKept
  <2> DEFINE c == agentService(u)
  <2>1. u \in AdminUi /\ u.filter = f /\ u.limit = ui.limit /\ u.offset = 0
    BY <1>0, <1>1 DEF AdminUi, InAdmin, OnePage
  <2>2. /\ c \in CallType /\ c.op = "list" /\ c.query.limit = ui.limit /\ c.query.filter = f
        /\ c.query.offset = 0 /\ ~c.passed /\ Sound(c, shown.told, gone)
    BY <2>1, AgentServiceIs
  <2>3. ui' = [u EXCEPT !.loading = TRUE] /\ calls' = Append(calls, c) /\ shown' = shown
    BY <1>1 DEF FleetLoad
  <2> HIDE DEF c
  <2>4. /\ ui' \in AdminUi /\ ui'.items = ui.items /\ ui'.limit = ui.limit /\ ui'.offset = ui.offset
        /\ ui'.filter = f /\ ui'.exporting = ui.exporting /\ ui'.sel = ui.sel /\ ui'.detail = ui.detail
    BY <1>0, <1>1, <2>3 DEF AdminUi
  <2>5. QED
    BY <2>2, <2>3, <2>4, AdminAsked
<1>2. CASE FleetLoad(ui)
  <2>1. ui.filter \in AnyFilter /\ ui = [ui EXCEPT !.filter = ui.filter]
    BY <1>0 DEF AdminUi
  <2>2. QED
    BY <1>1, <1>2, <2>1
<1>3. ASSUME NEW f \in FleetFilters(ui), FleetLoad([ui EXCEPT !.filter = f]) PROVE AdminKept
  <2>1. f \in AnyFilter
    BY <1>0 DEF FleetFilters
  <2>2. QED
    BY <1>1, <1>3, <2>1, Zenon
<1>4. ASSUME NEW id \in AnyId, Search(id) PROVE AdminKept
  BY <1>4, SearchStep
<1>5. ASSUME NEW id \in FleetTable(ui), ui' = [ui EXCEPT !.sel = id], UNCHANGED <<calls, shown>> PROVE AdminKept
  <2>1. id \in AnyId
    BY <1>0, AdminTypes DEF FleetTable
  <2>2. QED
    BY <1>5, <2>1, SelectStep
<1>6. CASE Close
  BY <1>6, CloseStep
<1>7. ASSUME NEW i \in DOMAIN calls, NEW ok \in BOOLEAN, Ends(i, ok), FleetLoaded(i, ok) PROVE AdminKept
  <2>1. /\ ok => calls[i].done /\ calls[i].ok
        /\ calls[i].op = "list" /\ calls' = Passing(i) /\ ListEnded(i, ok)
        /\ ui' = [ui EXCEPT !.items = IF ok THEN calls[i].answer ELSE @, !.loading = FALSE]
    BY <1>0, <1>7, Zenon DEF FleetLoaded
  <2>2. QED
    BY <2>1, LoadedOnePageStep, Zenon
<1>8. QED
  BY <1>2, <1>3, <1>4, <1>5, <1>6, <1>7, Zenon DEF FleetUser, FleetAnswer, AnyId

LEMMA IntelStep ==
  ASSUME InAdmin, page = "intel", IntelUser \/ IntelAnswer
  PROVE  AdminKept
<1>0. /\ ui \in AdminUi /\ Ids \subseteq AnyId /\ Nobody \in AnyId /\ All \in AnyFilter /\ "on" \in AnyFilter
      /\ IdsOf(ui.items) \subseteq Ids
      /\ \A i \in DOMAIN calls, ok \in BOOLEAN : Ends(i, ok) => (ok => calls[i].done /\ calls[i].ok)
  BY AdminTypes
<1>1. CASE Loading(ui, 0)
  BY <1>1, ReloadingStep
<1>2. ASSUME NEW f \in IntelList(ui), f \notin Ids, Loading([ui EXCEPT !.filter = f], 0) PROVE AdminKept
  <2> DEFINE u == [ui EXCEPT !.filter = f]
  <2>1. f \in AnyFilter
    BY <1>0, <1>2 DEF IntelList
  <2>2. Loading(u, 0) /\ u = [ui EXCEPT !.filter = f]
    BY <1>2, Zenon
  <2> HIDE DEF u
  <2>3. QED
    BY <2>1, <2>2, LoadingStep
<1>3. ASSUME NEW id \in Ids, openInvestigation(id) PROVE AdminKept
  <2>1. /\ ui' = [ui EXCEPT !.sel = id, !.detail = Nobody] /\ shown' = shown
        /\ calls' = Append(calls, RowCall("detail", [NoRow EXCEPT !.id = id]))
    BY <1>3, Zenon DEF openInvestigation, investigation
  <2>2. QED
    BY <1>0, <2>1, DialogOpenedStep, Zenon
<1>4. CASE Close
  BY <1>4, CloseStep
<1>5. ASSUME NEW i \in DOMAIN calls, NEW ok \in BOOLEAN, Ends(i, ok), IntelLoaded(i, ok) PROVE AdminKept
  <2>1. /\ ok => calls[i].done /\ calls[i].ok
        /\ calls[i].op = "list" /\ calls' = Passing(i) /\ ListEnded(i, ok)
        /\ ui' = [ui EXCEPT !.items = IF ok THEN calls[i].answer ELSE @, !.loading = FALSE]
    BY <1>0, <1>5, Zenon DEF IntelLoaded
  <2>2. QED
    BY <2>1, LoadedOnePageStep, Zenon
<1>6. ASSUME NEW i \in DOMAIN calls, NEW ok \in BOOLEAN, IntelOpened(i, ok) PROVE AdminKept
  BY <1>6, DialogAnsweredStep DEF IntelOpened
<1>7. QED
  BY <1>1, <1>2, <1>3, <1>4, <1>5, <1>6, Zenon DEF IntelUser, IntelAnswer

LEMMA TrailStep ==
  ASSUME InAdmin, page = "trail", TrailUser \/ TrailAnswer
  PROVE  AdminKept
<1>0. /\ ui \in AdminUi /\ ui.offset \in Nat /\ ui.limit \in Nat
      /\ Ids \subseteq AnyId /\ Nobody \in AnyId /\ All \in AnyFilter /\ "on" \in AnyFilter
      /\ \A i \in DOMAIN calls, ok \in BOOLEAN : Ends(i, ok) => (ok => calls[i].done /\ calls[i].ok)
  BY AdminTypes
<1>1. ASSUME NEW offset \in Nat, Loading(ui, offset) PROVE AdminKept
  BY <1>1, ReloadingStep
<1>2. CASE handleExportCsv
  <2> DEFINE op == "export"
             c == RowCall(op, NoRow)
  <2>1. /\ NoRow \in AnyRow /\ op \in RowOperations \cup OtherOperations
        /\ op \notin {"create", "delete"} /\ op = "export"
    BY RowIs DEF OtherOperations
  <2>2. calls' = Append(calls, c) /\ shown' = shown /\ ui' = [ui EXCEPT !.exporting = TRUE]
    BY <1>2 DEF handleExportCsv, exportAuditCsv
  <2> HIDE DEF op
  <2>3. c \in CallType /\ c.op = "export" /\ ~c.passed /\ Sound(c, shown.told, gone)
    BY <2>1, RowCallIs
  <2> HIDE DEF c
  <2>4. /\ ui' \in AdminUi /\ ui'.items = ui.items /\ ui'.limit = ui.limit /\ ui'.offset = ui.offset
        /\ ui'.filter = ui.filter /\ ui'.loading = ui.loading
    BY <1>0, <2>2 DEF AdminUi
  <2>5. QED
    BY <2>2, <2>3, <2>4, AdminSent
<1>3. ASSUME NEW f \in {All, "on"}, Loading([ui EXCEPT !.filter = f], 0) PROVE AdminKept
  <2> DEFINE u == [ui EXCEPT !.filter = f]
  <2>1. Loading(u, 0) /\ f \in AnyFilter /\ u = [ui EXCEPT !.filter = f]
    BY <1>0, <1>3, Zenon
  <2> HIDE DEF u
  <2>2. QED
    BY <2>1, LoadingStep
<1>4. ASSUME NEW id \in AnyId, Search(id) PROVE AdminKept
  BY <1>4, SearchStep
<1>5. ASSUME NEW id \in Ids, ui' = [ui EXCEPT !.sel = id], UNCHANGED <<calls, shown>> PROVE AdminKept
  BY <1>0, <1>5, SelectStep
<1>6. ASSUME NEW c, TrailTurn(c) PROVE AdminKept
  <2> DEFINE offset == IF c = "next" THEN ui.offset + ui.limit
                       ELSE IF ui.offset > ui.limit THEN ui.offset - ui.limit ELSE 0
  <2>1. offset \in Nat
    BY <1>0
  <2>2. Loading(ui, offset)
    BY <1>6, Zenon DEF TrailTurn
  <2> HIDE DEF offset
  <2>3. QED
    BY <1>1, <2>1, <2>2
<1>7. CASE Close
  BY <1>7, CloseStep
<1>8. ASSUME NEW i \in DOMAIN calls, NEW ok \in BOOLEAN, Ends(i, ok), TrailLoaded(i, ok) PROVE AdminKept
  <2>1. /\ ok => calls[i].done /\ calls[i].ok
        /\ calls[i].op = "list" /\ calls' = Passing(i) /\ ListEnded(i, ok)
        /\ ui' = IF ok THEN [ui EXCEPT !.items = calls[i].answer, !.total = calls[i].total,
                                           !.offset = calls[i].query.offset, !.loading = FALSE]
                           ELSE [ui EXCEPT !.loading = FALSE]
    BY <1>0, <1>8, Zenon DEF TrailLoaded
  <2>2. QED
    BY <2>1, LoadedStep, Zenon
<1>9. ASSUME NEW i \in DOMAIN calls, NEW ok \in BOOLEAN, TrailExported(i, ok) PROVE AdminKept
  <2>1. /\ ui' \in AdminUi /\ ui'.items = ui.items /\ ui'.limit = ui.limit /\ ui'.offset = ui.offset
        /\ ui'.filter = ui.filter /\ ui'.loading = ui.loading /\ ~ui'.exporting
    BY <1>0, <1>9 DEF TrailExported, AdminUi
  <2>2. calls[i].op = "export" /\ calls' \in {Without(i), Passing(i)} /\ shown' = shown /\ shown \in ShownType
    BY <1>9, AdminTypes, TabIs DEF TrailExported
  <2>3. QED
    BY <2>1, <2>2, AdminEnded
<1>10. QED
  <2>1. 0 \in Nat
    OBVIOUS
  <2>2. QED
    BY <1>1, <1>2, <1>3, <1>4, <1>5, <1>6, <1>7, <1>8, <1>9, <2>1, Zenon DEF TrailUser, TrailAnswer, AnyId

-----------------------------------------------------------------------------
(* The pages with figures, and the frames.                                 *)

LEMMA NoRows ==
  <<>> \in Seq(Row) /\ Distinct(<<>>) /\ IdsOf(<<>>) = {}
  BY DEF Distinct, IdsOf

\* The figures are asked for.
LEMMA DashAsked ==
  ASSUME InTab, DashInv(ui, calls, shown), shown' = shown, NEW u, Query(u) \in QueryType,
         calls' = Append(calls, DashCall(u)), ui'.items = ui.items
  PROVE  /\ TabInv' /\ DashInv(ui', calls', shown')
         /\ InOrder(calls, "list") => InOrder(calls', "list")
         /\ \A c \in Newest(calls', "list") : c.query = Query(u)
         /\ ~NoneAwaited(calls', "list")
         /\ Len(calls') = Len(calls) + 1 /\ (calls = <<>> => \A k \in DOMAIN calls' : ~calls'[k].passed)
<1> DEFINE c == DashCall(u)
           q == Query(u)
           ds == Append(calls, c)
<1>1. Requests(calls, shown.told) /\ shown \in ShownType /\ shown.told \subseteq gone /\ calls \in Seq(CallType)
  BY TabIs DEF InTab
<1>2. Nobody \in AnyId /\ c = Call("list", q, Nobody, NoRow, <<>>) /\ q \in QueryType
  BY Zenon DEF DashCall, AnyId
<1>3. calls' = ds
  OBVIOUS
<1> HIDE DEF c, q
<1>4. c \in CallType /\ c.op = "list" /\ c.query = q /\ ~c.passed /\ Sound(c, shown.told, gone)
  BY <1>2, AskedIs
<1>5. /\ Requests(ds, shown.told)
      /\ \A op : Has(ds, op) <=> Has(calls, op) \/ c.op = op
      /\ \A op : InOrder(calls, op) => InOrder(ds, op)
      /\ Newest(ds, c.op) = {c} /\ ~NoneAwaited(ds, c.op)
  BY <1>1, <1>4, Sent
<1>6. /\ DOMAIN ds = DOMAIN calls \cup {Len(calls) + 1}
      /\ ds[Len(calls) + 1] = c
  BY <1>1, <1>4, AppendIs
<1>7. Len(ds) = Len(calls) + 1
  BY <1>1, <1>4, AppendProperties
<1> HIDE DEF ds
<1>8. TabInv'
  BY <1>1, <1>3, <1>5, TabKept DEF InTab
<1>9. DashInv(ui', calls', shown')
  BY <1>3, <1>4, <1>5 DEF DashInv, Genuine
<1>10. calls = <<>> => \A k \in DOMAIN ds : ~ds[k].passed
  <2>1. calls = <<>> => DOMAIN calls = {}
    OBVIOUS
  <2>2. QED
    BY <1>4, <1>6, <2>1
<1>11. QED
  BY <1>3, <1>4, <1>5, <1>7, <1>8, <1>9, <1>10 DEF q

\* The figures come, or do not.
LEMMA DashEndedKeeps ==
  ASSUME InTab, DashInv(ui, calls, shown), NEW i \in DOMAIN calls, NEW ok \in BOOLEAN,
         ok => calls[i].done /\ calls[i].ok, calls[i].op = "list", calls' = Passing(i), ListEnded(i, ok),
         ~ui'.loading, ~ui'.refreshing,
         IF ok THEN ui'.items = calls[i].answer ELSE ui'.items \in {ui.items, <<>>}
  PROVE  /\ TabInv' /\ DashInv(ui', calls', shown')
         /\ Query(ui') = Query(ui) /\ InOrder(calls, "list")
              /\ WebList(ui, calls, shown)
              => InOrder(calls', "list") /\ WebList(ui', calls', shown')
         /\ OneLoadInv(ui, calls, shown) => OneLoadInv(ui', calls', shown')
<1> DEFINE c == calls[i]
<1>1. /\ Requests(calls, shown.told) /\ shown \in ShownType
      /\ shown.told \subseteq gone /\ c \in CallType /\ Sound(c, shown.told, gone) /\ calls \in Seq(CallType)
  BY TabIs DEF InTab
<1>2. /\ shown' \in ShownType /\ shown'.told = shown.told /\ shown'.detail = shown.detail
      /\ shown'.query = IF ok THEN c.query ELSE shown.query
      /\ shown'.list = IF ok THEN IF c.passed THEN "late" ELSE "current"
                             ELSE IF c.passed THEN shown.list ELSE "failed"
  BY <1>1, ListEndedIs
<1>3. Rest(i, calls')
  BY <1>1, RestIs
<1>4. Requests(calls', shown'.told)
  BY <1>1, <1>2, <1>3, EndedSound
<1>5. TabInv'
  BY <1>1, <1>2, <1>4, TabKept DEF InTab
<1>6. Genuine(ui', shown')
  <2>1. CASE ok
    BY <1>1, <1>2, <2>1 DEF Genuine, Sound
  <2>2. CASE ~ok
    BY <1>1, <1>2, <2>2, NoRows DEF Genuine, DashInv
  <2>3. QED
    BY <2>1, <2>2
<1>7. ASSUME Query(ui') = Query(ui), InOrder(calls, "list"), WebList(ui, calls, shown)
      PROVE  InOrder(calls', "list") /\ WebList(ui', calls', shown')
  <2>1. /\ InOrder(calls', "list") /\ Newest(calls', "list") \subseteq Newest(calls, "list")
        /\ NoneAwaited(calls', "list") =>
             IF c.passed THEN NoneAwaited(calls, "list") ELSE c \in Newest(calls, "list")
    BY <1>1, <1>7, EndedSame
  <2>2. ASSUME NoneAwaited(calls', "list"), shown'.list = "current" PROVE shown'.query = Query(ui')
    <3>1. CASE ok
      <4>1. ~c.passed /\ shown'.query = c.query
        BY <1>2, <2>2, <3>1
      <4>2. QED
        BY <1>7, <2>1, <2>2, <4>1 DEF WebList
    <3>2. CASE ~ok
      BY <1>2, <1>7, <2>1, <2>2, <3>2 DEF WebList
    <3>3. QED
      BY <3>1, <3>2
  <2>3. QED
    BY <1>6, <1>7, <2>1, <2>2 DEF WebList
<1>8. ASSUME OneLoadInv(ui, calls, shown) PROVE OneLoadInv(ui', calls', shown')
  <2>1. Len(calls) = 1 /\ ~c.passed /\ shown.list # "late"
    <3>1. Len(calls) \in Nat /\ i \in 1 .. Len(calls)
      BY <1>1
    <3>2. Len(calls) <= 1 /\ shown.list # "late" /\ \A k \in DOMAIN calls : ~calls[k].passed
      BY <1>8 DEF OneLoadInv
    <3>3. ~c.passed
      BY <3>2
    <3> HIDE DEF c
    <3>4. \A n \in Nat : i \in 1 .. n /\ n <= 1 => n = 1
      OBVIOUS
    <3>5. QED
      BY <3>1, <3>2, <3>3, <3>4, Zenon
  <2>2. DOMAIN calls' = {} /\ calls' \in Seq(CallType)
    BY <1>3, <2>1 DEF Rest
  <2>3. Len(calls') = 0 /\ calls' = <<>>
    BY <2>2, EmptySeq
  <2>4. shown'.list # "late"
    BY <1>2, <2>1
  <2>5. QED
    BY <2>2, <2>3, <2>4 DEF OneLoadInv
<1>9. QED
  BY <1>5, <1>6, <1>7, <1>8 DEF DashInv

FiguresKept == TabInv' /\ FigurePages'
InFigures == InTab /\ FigurePages

LEMMA FigureTypes ==
  ASSUME InFigures
  PROVE  /\ ui \in DashUi => Query(ui) \in QueryType /\ ui.items \in Seq(Row)
         /\ ui \in FrameUi => Query(ui) \in QueryType /\ ui.items \in Seq(Row)
         /\ TabInv /\ Requests(calls, shown.told) /\ shown \in ShownType /\ shown.told \subseteq gone
         /\ calls \in Seq(CallType)
         /\ \A i \in DOMAIN calls, ok \in BOOLEAN : Ends(i, ok) => (ok => calls[i].done /\ calls[i].ok)
         /\ \A i \in DOMAIN calls : calls[i].answer \in Seq(Row)
<1>1. /\ TabInv /\ Requests(calls, shown.told) /\ shown \in ShownType /\ shown.told \subseteq gone
      /\ calls \in Seq(CallType) /\ left \in 0 .. MaxSteps
      /\ \A i \in DOMAIN calls : calls[i].answer \in Seq(Row)
  BY TabIs DEF InFigures, InTab, CallType
<1>2. \A i \in DOMAIN calls, ok \in BOOLEAN : Ends(i, ok) => (ok => calls[i].done /\ calls[i].ok)
  BY <1>1, EndsIs
<1>3. ui \in DashUi => Query(ui) \in QueryType /\ ui.items \in Seq(Row)
  BY QueryIs DEF DashUi
<1>4. ui \in FrameUi => Query(ui) \in QueryType /\ ui.items \in Seq(Row)
  BY QueryIs DEF FrameUi
<1>5. QED
  BY <1>1, <1>2, <1>3, <1>4

\* The dashboard, the analytics and the pages of one load: the answer.
LEMMA FiguresEnded ==
  ASSUME InFigures, page' = page, page \in OneLoadPages \cup {"dashboard", "analytics"},
         NEW i \in DOMAIN calls, NEW ok \in BOOLEAN, Ends(i, ok), DashEnded(i, ok, ui)
  PROVE  FiguresKept
<1> DEFINE answer == calls[i].answer
<1>1. ui \in DashUi /\ DashInv(ui, calls, shown) /\ (ok => calls[i].done /\ calls[i].ok) /\ answer \in Seq(Row)
  BY FigureTypes DEF InFigures, FigurePages, OneLoadPages, DashPages
<1>2. /\ calls[i].op = "list" /\ calls' = Passing(i) /\ ListEnded(i, ok)
      /\ ui' = IF ok THEN [ui EXCEPT !.items = answer, !.loaded = TRUE, !.loading = FALSE, !.refreshing = FALSE]
                     ELSE [ui EXCEPT !.loading = FALSE, !.refreshing = FALSE]
  BY Zenon DEF DashEnded, ListEnded
<1> HIDE DEF answer
<1>3. /\ ui' \in DashUi /\ ~ui'.loading /\ ~ui'.refreshing /\ Query(ui') = Query(ui)
      /\ IF ok THEN ui'.items = answer ELSE ui'.items = ui.items
  <2>1. CASE ok
    <3>1. ui' = [ui EXCEPT !.items = answer, !.loaded = TRUE, !.loading = FALSE, !.refreshing = FALSE]
      BY <1>2, <2>1
    <3>2. QED
      BY <1>1, <2>1, <3>1 DEF DashUi, Query
  <2>2. CASE ~ok
    <3>1. ui' = [ui EXCEPT !.loading = FALSE, !.refreshing = FALSE]
      BY <1>2, <2>2
    <3>2. QED
      BY <1>1, <2>2, <3>1 DEF DashUi, Query
  <2>3. QED
    BY <2>1, <2>2
<1>4. /\ TabInv' /\ DashInv(ui', calls', shown')
      /\ Query(ui') = Query(ui) /\ InOrder(calls, "list")
           /\ WebList(ui, calls, shown)
           => InOrder(calls', "list") /\ WebList(ui', calls', shown')
      /\ OneLoadInv(ui, calls, shown) => OneLoadInv(ui', calls', shown')
  BY <1>1, <1>2, <1>3, DashEndedKeeps DEF InFigures, answer
<1>5. FigurePages'
  BY <1>3, <1>4 DEF InFigures, FigurePages, OneLoadPages
<1>6. QED
  BY <1>4, <1>5 DEF FiguresKept

\* They ask: the dashboard and the analytics at any time, the others when they
\* do not load.
LEMMA FiguresAsked ==
  ASSUME InFigures, page' = page, page \in OneLoadPages \cup {"dashboard", "analytics"}, shown' = shown,
         NEW u \in DashUi, calls' = Append(calls, DashCall(u)), ui' \in DashUi, ui'.items = ui.items,
         page = "analytics" => Query(ui') = Query(u),
         page \in OneLoadPages => ~ui.loading /\ ui'.loading
  PROVE  FiguresKept
<1>1. ui \in DashUi /\ DashInv(ui, calls, shown) /\ Query(u) \in QueryType /\ calls \in Seq(CallType)
  BY FigureTypes, QueryIs DEF InFigures, FigurePages, OneLoadPages, DashPages, DashUi
<1>2. /\ TabInv' /\ DashInv(ui', calls', shown')
      /\ InOrder(calls, "list") => InOrder(calls', "list")
      /\ \A c \in Newest(calls', "list") : c.query = Query(u)
      /\ ~NoneAwaited(calls', "list")
      /\ Len(calls') = Len(calls) + 1 /\ (calls = <<>> => \A k \in DOMAIN calls' : ~calls'[k].passed)
  BY <1>1, DashAsked DEF InFigures
<1>3. ASSUME page = "analytics" PROVE InOrder(calls', "list") /\ WebList(ui', calls', shown')
  BY <1>2, <1>3 DEF InFigures, FigurePages, WebList
<1>4. ASSUME page \in OneLoadPages PROVE OneLoadInv(ui', calls', shown')
  <2>1. calls = <<>> /\ shown.list # "late"
    BY <1>4 DEF InFigures, FigurePages, OneLoadInv
  <2>2. Len(calls) = 0
    BY <2>1
  <2>3. QED
    BY <1>2, <1>4, <2>1, <2>2 DEF OneLoadInv
<1>5. FigurePages'
  BY <1>2, <1>3, <1>4 DEF FigurePages, OneLoadPages
<1>6. QED
  BY <1>2, <1>5 DEF FiguresKept

LEMMA OneLoadAsked ==
  ASSUME InFigures, page' = page, page \in OneLoadPages, ~ui.loading, shown' = shown,
         ui' = [ui EXCEPT !.loading = TRUE], calls' = Append(calls, DashCall(ui))
  PROVE  FiguresKept
<1>1. ui \in DashUi
  BY DEF InFigures, FigurePages
<1>2. ui' \in DashUi /\ ui'.items = ui.items /\ ui'.loading
  BY <1>1 DEF DashUi
<1>3. page # "analytics"
  BY DEF OneLoadPages
<1>4. QED
  BY <1>1, <1>2, <1>3, FiguresAsked

LEMMA SummaryStep ==
  ASSUME InFigures, page' = page, page = "dashboard", SummaryUser \/ SummaryTimer \/ SummaryAnswer
  PROVE  FiguresKept
<1>1. ui \in DashUi
  BY DEF InFigures, FigurePages
<1>2. CASE loadSummary(TRUE)
  <2>1. ui' = [ui EXCEPT !.refreshing = TRUE] /\ calls' = Append(calls, DashCall(ui)) /\ shown' = shown
    BY <1>2 DEF loadSummary, dashboardService
  <2>2. ui' \in DashUi /\ ui'.items = ui.items
    BY <1>1, <2>1 DEF DashUi
  <2>3. page \notin OneLoadPages
    BY DEF OneLoadPages
  <2>4. QED
    BY <1>1, <2>1, <2>2, <2>3, FiguresAsked
<1>3. CASE SummaryAnswer
  BY <1>3, FiguresEnded DEF SummaryAnswer
<1>4. QED
  BY <1>2, <1>3 DEF SummaryUser, SummaryTimer

LEMMA AnalyticsStep ==
  ASSUME InFigures, page' = page, page = "analytics", AnalyticsUser \/ AnalyticsAnswer
  PROVE  FiguresKept
<1>1. ui \in DashUi /\ page \notin OneLoadPages
  BY DEF InFigures, FigurePages, OneLoadPages
<1>2. ASSUME NEW u \in DashUi, u.items = ui.items, NEW busy \in DashUi, busy.items = ui.items,
             Query(busy) = Query(u), AnalyticsLoad(u, busy)
      PROVE  FiguresKept
  BY <1>1, <1>2, FiguresAsked DEF AnalyticsLoad, analyticsService
<1>3. ASSUME AnalyticsLoad(ui, [ui EXCEPT !.refreshing = TRUE]) PROVE FiguresKept
  <2> DEFINE busy == [ui EXCEPT !.refreshing = TRUE]
  <2>1. busy \in DashUi /\ busy.items = ui.items /\ Query(busy) = Query(ui)
    BY <1>1 DEF DashUi, Query
  <2>2. QED
    BY <1>1, <1>2, <1>3, <2>1, Zenon
<1>4. ASSUME NEW u \in AnalyticsFilters(ui), AnalyticsLoad(u, [u EXCEPT !.loading = TRUE]) PROVE FiguresKept
  <2> DEFINE Filtered(v) == v \in DashUi /\ v.items = ui.items
             busy == [u EXCEPT !.loading = TRUE]
  <2>1. Filtered(u)
    <3>1. ASSUME NEW id \in AnyId PROVE Filtered([ui EXCEPT !.search = id])
      BY <1>1 DEF DashUi
    <3>2. ASSUME NEW f \in AnyFilter PROVE Filtered([ui EXCEPT !.filter = f])
      BY <1>1 DEF DashUi
    <3> HIDE DEF Filtered
    <3>3. \A f \in {All, "on"} : f \in AnyFilter
      BY DEF AnyFilter, Tags
    <3>4. QED
      BY <1>4, <3>1, <3>2, <3>3, Zenon DEF AnalyticsFilters, AnyId
  <2>2. busy \in DashUi /\ busy.items = ui.items /\ Query(busy) = Query(u)
    BY <2>1 DEF DashUi, Query
  <2>3. AnalyticsLoad(u, busy)
    BY <1>4, Zenon
  <2> HIDE DEF busy
  <2>4. QED
    BY <1>2, <2>1, <2>2, <2>3
<1>5. CASE AnalyticsAnswer
  BY <1>5, FiguresEnded DEF AnalyticsAnswer
<1>6. QED
  BY <1>3, <1>4, <1>5, Zenon DEF AnalyticsUser

LEMMA OneLoadStep ==
  ASSUME InFigures, page' = page,
         \/ page = "overview" /\ (OverviewUser \/ OverviewAnswer)
         \/ page = "monitor" /\ (MonitorUser \/ MonitorAnswer)
         \/ page = "health" /\ (HealthUser \/ HealthAnswer)
  PROVE  FiguresKept
<1>1. page \in OneLoadPages
  BY DEF OneLoadPages
<1>2. CASE page = "overview"
  <2>1. OverviewUser \/ OverviewAnswer
    BY <1>2
  <2>2. CASE OverviewUser
    BY <1>1, <2>2, OneLoadAsked DEF OverviewUser, OverviewHeader, OverviewLoad, adminService
  <2>3. CASE OverviewAnswer
    BY <1>1, <2>3, FiguresEnded DEF OverviewAnswer
  <2>4. QED
    BY <2>1, <2>2, <2>3
<1>3. CASE page = "monitor"
  <2>1. MonitorUser \/ MonitorAnswer
    BY <1>3
  <2>2. CASE MonitorUser
    BY <1>1, <2>2, OneLoadAsked DEF MonitorUser, MonitorHeader, MonitorLoad, adminService
  <2>3. CASE MonitorAnswer
    BY <1>1, <2>3, FiguresEnded DEF MonitorAnswer
  <2>4. QED
    BY <2>1, <2>2, <2>3
<1>4. CASE page = "health"
  <2>1. HealthUser \/ HealthAnswer
    BY <1>4
  <2>2. CASE HealthUser
    <3>1. ~ui.loading
      BY <2>2 DEF HealthUser, HealthHeader
    <3>2. ui' = [ui EXCEPT !.loading = TRUE] /\ calls' = Append(calls, DashCall(ui)) /\ shown' = shown
      BY <2>2 DEF HealthUser, HealthLoad, healthService
    <3>3. QED
      BY <1>1, <3>1, <3>2, OneLoadAsked
  <2>3. CASE HealthAnswer
    BY <1>1, <2>3, FiguresEnded DEF HealthAnswer
  <2>4. QED
    BY <2>1, <2>2, <2>3
<1>5. QED
  BY <1>2, <1>3, <1>4

\* The frame of the web application.
LEMMA FrameStep ==
  ASSUME InFigures, page' = page, page = "frame", FrameUser \/ FramePoll \/ FrameAnswer
  PROVE  FiguresKept
<1>1. ui \in FrameUi /\ DashInv(ui, calls, shown) /\ ui.active \in navItems
  BY DEF InFigures, FigurePages, DashPages
<1>2. ASSUME TabInv', ui' \in FrameUi, DashInv(ui', calls', shown'), ui'.active \in navItems
      PROVE  FiguresKept
  BY <1>2 DEF FiguresKept, FigurePages, OneLoadPages, DashPages
<1>3. CASE FramePoll
  <2>1. Query(ui) \in QueryType
    BY <1>1, FigureTypes
  <2>2. calls' = Append(calls, DashCall(ui)) /\ ui' = ui /\ shown' = shown
    BY <1>3 DEF FramePoll, dashboardService
  <2>3. TabInv' /\ DashInv(ui', calls', shown')
    BY <1>1, <2>1, <2>2, DashAsked DEF InFigures
  <2>4. QED
    BY <1>1, <1>2, <2>2, <2>3
<1>4. ASSUME NEW i \in DOMAIN calls, NEW ok \in BOOLEAN, Ends(i, ok), DashEnded(i, ok, [ui EXCEPT !.items = <<>>])
      PROVE  FiguresKept
  <2> DEFINE answer == calls[i].answer
             none == <<>>
             failed == [ui EXCEPT !.items = none]
  <2>1. answer \in Seq(Row) /\ (ok => calls[i].done /\ calls[i].ok) /\ none \in Seq(Row)
    BY <1>4, FigureTypes
  <2>2. /\ calls[i].op = "list" /\ calls' = Passing(i) /\ ListEnded(i, ok)
        /\ ui' = IF ok THEN [ui EXCEPT !.items = answer, !.loaded = TRUE, !.loading = FALSE, !.refreshing = FALSE]
                       ELSE [failed EXCEPT !.loading = FALSE, !.refreshing = FALSE]
    BY <1>4, Zenon DEF DashEnded, ListEnded
  <2> HIDE DEF answer, none
  <2>3. failed \in FrameUi /\ failed.items = none /\ failed.active = ui.active
    BY <1>1, <2>1 DEF FrameUi
  <2> HIDE DEF failed
  <2>4. /\ ui' \in FrameUi /\ ~ui'.loading /\ ~ui'.refreshing /\ ui'.active = ui.active
        /\ IF ok THEN ui'.items = answer ELSE ui'.items = none
    <3>1. CASE ok
      <4>1. ui' = [ui EXCEPT !.items = answer, !.loaded = TRUE, !.loading = FALSE, !.refreshing = FALSE]
        BY <2>2, <3>1
      <4>2. QED
        BY <1>1, <2>1, <3>1, <4>1 DEF FrameUi
    <3>2. CASE ~ok
      <4>1. ui' = [failed EXCEPT !.loading = FALSE, !.refreshing = FALSE]
        BY <2>2, <3>2
      <4>2. QED
        BY <2>3, <3>2, <4>1 DEF FrameUi
    <3>3. QED
      BY <3>1, <3>2
  <2>5. TabInv' /\ DashInv(ui', calls', shown')
    BY <1>1, <2>1, <2>2, <2>4, DashEndedKeeps DEF InFigures, answer, none
  <2>6. QED
    BY <1>1, <1>2, <2>4, <2>5
<1>5. CASE FrameUser
  <2> DEFINE Clicked(v) == v \in FrameUi /\ v.items = ui.items /\ v.loading = ui.loading
                           /\ v.refreshing = ui.refreshing /\ v.active \in navItems
  <2>1. calls' = calls /\ shown' = shown
    BY <1>5 DEF FrameUser
  <2>2. ASSUME NEW path \in navItems PROVE Clicked([ui EXCEPT !.active = path])
    BY <1>1 DEF FrameUi
  <2>3. ASSUME NEW m \in Menus PROVE Clicked([ui EXCEPT !.menus = IF m \in @ THEN @ \ {m} ELSE @ \cup {m}])
    <3> DEFINE menus == IF m \in ui.menus THEN ui.menus \ {m} ELSE ui.menus \cup {m}
    <3>1. menus \in SUBSET Menus
      BY <1>1 DEF FrameUi
    <3>2. [ui EXCEPT !.menus = IF m \in @ THEN @ \ {m} ELSE @ \cup {m}] = [ui EXCEPT !.menus = menus]
      BY <1>1 DEF FrameUi
    <3> HIDE DEF menus
    <3>3. Clicked([ui EXCEPT !.menus = menus])
      BY <1>1, <3>1 DEF FrameUi
    <3>4. QED
      BY <3>2, <3>3, Zenon
  <2> HIDE DEF Clicked
  <2>4. Clicked(ui')
    BY <1>5, <2>2, <2>3, Zenon DEF FrameUser
  <2>5. DashInv(ui', calls', shown')
    BY <1>1, <2>1, <2>4 DEF DashInv, Genuine, Clicked
  <2>6. TabInv'
    BY <2>1, FigureTypes, TabKept DEF InFigures, InTab
  <2>7. QED
    BY <1>2, <2>4, <2>5, <2>6 DEF Clicked
<1>6. QED
  BY <1>3, <1>4, <1>5, Zenon DEF FrameAnswer

\* The shell of the admin panel: it asks once for each user.
LEMMA ShellStep ==
  ASSUME InFigures, page' = page, page = "shell", ShellUser \/ ShellAnswer
  PROVE  FiguresKept
<1> DEFINE none == <<>>
<1>1. /\ ui \in FrameUi /\ ShellInv(ui, calls) /\ shown.list = "none"
      /\ Requests(calls, shown.told) /\ shown \in ShownType /\ shown.told \subseteq gone
      /\ calls \in Seq(CallType) /\ Query(ui) \in QueryType
      /\ none \in Seq(Row) /\ none \in Seq(CallType) /\ shown' = shown
  <2>1. shown' = shown
    BY Zenon DEF ShellUser, ShellAnswer, ShellClick, ShellLogout, ShellLogin, TopNavbar
  <2>2. none \in Seq(Row) /\ none \in Seq(CallType)
    OBVIOUS
  <2>3. QED
    BY <2>1, <2>2, FigureTypes DEF InFigures, FigurePages
<1>2. ASSUME Requests(calls', shown.told), ui' \in FrameUi, ShellInv(ui', calls') PROVE FiguresKept
  <2>1. TabInv'
    BY <1>1, <1>2, TabKept DEF InFigures, InTab
  <2>2. FigurePages'
    BY <1>1, <1>2 DEF FigurePages, OneLoadPages, ShellInv, DashInv, Genuine
  <2>3. QED
    BY <2>1, <2>2 DEF FiguresKept
<1>3. CASE ShellClick
  <2> DEFINE Clicked(v) ==
               /\ v \in FrameUi /\ ~v.loading /\ ~v.refreshing /\ v.signedIn /\ v.active \in ShellItems
               /\ v.menus = {} \/ \E m \in Menus : v.menus = {m}
  <2>1. calls' = calls /\ ui.signedIn
    BY <1>3 DEF ShellClick
  <2>2. ASSUME NEW id \in ShellItems PROVE Clicked([ui EXCEPT !.active = id])
    BY <1>1, <2>1 DEF FrameUi, ShellInv
  <2>3. ASSUME NEW m \in Menus PROVE Clicked([ui EXCEPT !.menus = ShellMenus(ui, m)])
    <3> DEFINE menus == ShellMenus(ui, m)
    <3>1. menus = {} \/ menus = {m}
      BY DEF ShellMenus
    <3>2. menus \in SUBSET Menus
      BY <3>1
    <3> HIDE DEF menus
    <3>3. Clicked([ui EXCEPT !.menus = menus])
      BY <1>1, <2>1, <3>1, <3>2 DEF FrameUi, ShellInv
    <3> HIDE DEF Clicked
    <3>4. QED
      BY <3>3 DEF menus
  <2> HIDE DEF Clicked
  <2>4. Clicked(ui')
    BY <1>3, <2>2, <2>3, Zenon DEF ShellClick
  <2>5. QED
    BY <1>1, <1>2, <2>1, <2>4 DEF Clicked, ShellInv
<1>4. CASE ShellLogout
  <2>1. calls' = none /\ ui' = [ShellState EXCEPT !.signedIn = FALSE]
    BY <1>4 DEF ShellLogout
  <2>2. Requests(calls', shown.told)
    BY <1>1, <2>1 DEF Requests
  <2>3. /\ ui'.loading = FALSE /\ ui'.refreshing = FALSE /\ ui'.signedIn = FALSE /\ ui'.active = "overview"
        /\ ui'.items = none /\ ui'.menus = {}
    BY <2>1 DEF ShellState, FrameBlankness
  <2>4. ui' \in FrameUi
    <3> DEFINE size == Cardinality(Ids)
    <3>1. size \in Nat /\ Nobody \in AnyId /\ All \in AnyFilter /\ "overview" \in ShellItems
      BY TabAssumption, FS_CardinalityType DEF AnyId, AnyFilter, ShellItems
    <3>2. ui' = [items |-> none, offset |-> 0, limit |-> size, filter |-> All, search |-> Nobody,
                 loading |-> FALSE, refreshing |-> FALSE, loaded |-> FALSE,
                 menus |-> {}, active |-> "overview", signedIn |-> FALSE]
      BY <2>1 DEF ShellState, FrameBlankness
    <3> HIDE DEF size, none
    <3>3. QED
      BY <1>1, <3>1, <3>2 DEF FrameUi
  <2>5. ShellInv(ui', calls')
    BY <2>1, <2>3 DEF ShellInv, ShellItems
  <2>6. QED
    BY <1>2, <2>2, <2>4, <2>5
<1>5. CASE ShellLogin
  <2> DEFINE c == DashCall(ui)
             q == Query(ui)
  <2>1. calls' = <<c>> /\ ui' = [ui EXCEPT !.signedIn = TRUE]
    BY <1>5 DEF ShellLogin, adminService
  <2>2. Nobody \in AnyId /\ c = Call("list", q, Nobody, NoRow, <<>>) /\ q \in QueryType
    BY <1>1, Zenon DEF DashCall, AnyId
  <2> HIDE DEF c, q
  <2>3. c \in CallType /\ Sound(c, shown.told, gone)
    BY <2>2, AskedIs
  <2>4. Requests(calls', shown.told)
    BY <2>1, <2>3 DEF Requests
  <2>5. ui' \in FrameUi /\ ShellInv(ui', calls')
    BY <1>1, <2>1 DEF FrameUi, ShellInv
  <2>6. QED
    BY <1>2, <2>4, <2>5
<1>6. ASSUME NEW i \in DOMAIN calls, NEW ok \in BOOLEAN, TopNavbar(i, ok) PROVE FiguresKept
  <2> DEFINE answer == calls[i].answer
             items == IF ok THEN Notifications(answer) ELSE none
  <2>1. calls' = Without(i) /\ ui' = [ui EXCEPT !.loaded = TRUE, !.items = items]
    BY <1>6, Zenon DEF TopNavbar
  <2>2. items \in Seq(Row)
    <3>1. answer \in Seq(Row) /\ Len(answer) \in Nat
      BY FigureTypes
    <3>2. Notifications(answer) \in Seq(Row)
      BY <3>1, SubSeqProperties DEF Notifications, Notified
    <3>3. QED
      BY <1>1, <3>2
  <2> HIDE DEF items
  <2>3. ui.signedIn
    BY <1>1 DEF ShellInv
  <2>4. Requests(calls', shown.told)
    BY <1>1, <2>1, RestIs, EndedSound
  <2>5. ui' \in FrameUi /\ ShellInv(ui', calls')
    BY <1>1, <2>1, <2>2, <2>3 DEF FrameUi, ShellInv
  <2>6. QED
    BY <1>2, <2>4, <2>5
<1>7. QED
  BY <1>3, <1>4, <1>5, <1>6, Zenon DEF ShellUser, ShellAnswer

-----------------------------------------------------------------------------
(* The pages that write: settings and governance.                          *)

FormsKept == TabInv' /\ FormPages'
InForms == InTab /\ FormPages

\* A load of everything is in flight.
Loads(cs) == \E k \in DOMAIN cs : cs[k].op = "list" /\ cs[k].row = NoRow

\* A request is sent.
LEMMA FormSent ==
  ASSUME InTab, NEW c \in CallType, ~c.passed, Sound(c, shown.told, gone),
         calls' = Append(calls, c), shown' = shown
  PROVE  /\ TabInv'
         /\ \A op : Has(calls', op) <=> Has(calls, op) \/ c.op = op
         /\ Loads(calls) \/ (c.op = "list" /\ c.row = NoRow) => Loads(calls')
         /\ Creates(calls) \/ c.op = "create" \/ (c.op = "list" /\ c.row # NoRow) => Creates(calls')
<1> DEFINE ds == Append(calls, c)
<1>1. /\ Requests(calls, shown.told) /\ shown \in ShownType /\ shown.told \subseteq gone
      /\ calls \in Seq(CallType) /\ calls' = ds
  BY TabIs DEF InTab
<1>2. Requests(ds, shown.told) /\ \A op : Has(ds, op) <=> Has(calls, op) \/ c.op = op
  BY <1>1, Sent
<1>3. /\ DOMAIN ds = DOMAIN calls \cup {Len(calls) + 1} /\ ds[Len(calls) + 1] = c
      /\ \A k \in DOMAIN calls : ds[k] = calls[k]
  BY <1>1, AppendIs
<1> HIDE DEF ds
<1>4. TabInv'
  BY <1>1, <1>2, TabKept DEF InTab
<1>5. /\ Loads(calls) \/ (c.op = "list" /\ c.row = NoRow) => Loads(ds)
      /\ Creates(calls) \/ c.op = "create" \/ (c.op = "list" /\ c.row # NoRow) => Creates(ds)
  BY <1>3 DEF Loads, Creates
<1>6. QED
  BY <1>1, <1>2, <1>4, <1>5

\* A request ends.
LEMMA FormEnded ==
  ASSUME InTab, NEW i \in DOMAIN calls, calls' \in {Without(i), Passing(i)},
         shown' \in ShownType, shown'.told = shown.told
  PROVE  /\ TabInv' /\ Rest(i, calls')
<1>1. /\ Requests(calls, shown.told) /\ shown \in ShownType /\ shown.told \subseteq gone
      /\ calls \in Seq(CallType)
  BY TabIs DEF InTab
<1>2. Rest(i, calls')
  BY <1>1, RestIs
<1>3. Requests(calls', shown'.told)
  BY <1>1, <1>2, EndedSound
<1>4. QED
  BY <1>1, <1>2, <1>3, TabKept DEF InTab

\* What is in flight of the others.
LEMMA FormRest ==
  ASSUME InTab, NEW i \in DOMAIN calls, NEW cs, Rest(i, cs)
  PROVE  /\ \A op : Has(calls, op) /\ op # calls[i].op => Has(cs, op)
         /\ Loads(calls) /\ ~(calls[i].op = "list" /\ calls[i].row = NoRow) => Loads(cs)
         /\ Creates(calls) /\ calls[i].op # "create" /\ (calls[i].op = "list" => calls[i].row = NoRow)
              => Creates(cs)
<1>1. Requests(calls, shown.told)
  BY TabIs DEF InTab
<1>2. /\ \A op : Has(calls, op) /\ op # calls[i].op => Has(cs, op)
      /\ Creates(calls) /\ calls[i].op # "create" /\ (calls[i].op = "list" => calls[i].row = NoRow)
           => Creates(cs)
  BY <1>1, EndedHas
<1>3. ASSUME Loads(calls), ~(calls[i].op = "list" /\ calls[i].row = NoRow) PROVE Loads(cs)
  <2>1. PICK j \in DOMAIN calls : calls[j].op = "list" /\ calls[j].row = NoRow
    BY <1>3 DEF Loads
  <2>2. PICK k \in DOMAIN cs : cs[k] \in {calls[j], Late(calls[j])}
    BY <1>1, <1>3, <2>1, Ended
  <2>3. calls[j] \in CallType
    BY <1>1, Ended
  <2>4. cs[k].op = "list" /\ cs[k].row = NoRow
    BY <2>1, <2>2, <2>3, LateIs
  <2>5. QED
    BY <2>4 DEF Loads
<1>4. QED
  BY <1>2, <1>3

\* A request ends and is followed by another.
LEMMA FormFollowed ==
  ASSUME InTab, NEW i \in DOMAIN calls, NEW c \in CallType, ~c.passed, Sound(c, shown.told, gone),
         calls' = Append(Without(i), c), shown' = shown
  PROVE  /\ TabInv'
         /\ \A op : (Has(calls, op) /\ op # calls[i].op) \/ c.op = op => Has(calls', op)
         /\ (Loads(calls) /\ calls[i].op # "list") \/ (c.op = "list" /\ c.row = NoRow) => Loads(calls')
         /\ (Creates(calls) /\ calls[i].op \notin {"create", "list"}) \/ (c.op = "list" /\ c.row # NoRow)
              => Creates(calls')
<1> DEFINE cs == Without(i)
           ds == Append(cs, c)
<1>1. /\ Requests(calls, shown.told) /\ shown \in ShownType /\ shown.told \subseteq gone
      /\ calls \in Seq(CallType) /\ calls' = ds
  BY TabIs DEF InTab
<1>2. Rest(i, cs)
  BY <1>1, RestIs
<1> HIDE DEF cs
<1>3. /\ \A op : Has(calls, op) /\ op # calls[i].op => Has(cs, op)
      /\ Loads(calls) /\ ~(calls[i].op = "list" /\ calls[i].row = NoRow) => Loads(cs)
      /\ Creates(calls) /\ calls[i].op # "create" /\ (calls[i].op = "list" => calls[i].row = NoRow)
           => Creates(cs)
  BY <1>2, FormRest
<1>4. Requests(cs, shown.told) /\ cs \in Seq(CallType)
  BY <1>1, <1>2, EndedSound DEF Rest
<1>5. Requests(ds, shown.told) /\ \A op : Has(ds, op) <=> Has(cs, op) \/ c.op = op
  BY <1>4, Sent
<1>6. /\ DOMAIN ds = DOMAIN cs \cup {Len(cs) + 1} /\ ds[Len(cs) + 1] = c
      /\ \A k \in DOMAIN cs : ds[k] = cs[k]
  BY <1>4, AppendIs
<1> HIDE DEF ds
<1>7. TabInv'
  BY <1>1, <1>5, TabKept DEF InTab
<1>8. /\ Loads(cs) \/ (c.op = "list" /\ c.row = NoRow) => Loads(ds)
      /\ Creates(cs) \/ (c.op = "list" /\ c.row # NoRow) => Creates(ds)
  BY <1>6 DEF Loads, Creates
<1>9. QED
  BY <1>1, <1>3, <1>5, <1>7, <1>8

\* The page is told that a row is deleted.
LEMMA FormDeleted ==
  ASSUME InTab, NEW i \in DOMAIN calls, calls[i].op = "delete", calls[i].done,
         calls' = Overtaken(i), shown' = [shown EXCEPT !.told = @ \cup {calls[i].row.id}],
         Genuine(ui, shown), ui.items \in Seq(Row), ui'.items = Minus(ui.items, calls[i].row.id)
  PROVE  TabInv' /\ Rest(i, calls') /\ Genuine(ui', shown')
<1> DEFINE id == calls[i].row.id
           told == shown.told \cup {id}
<1>1. /\ Requests(calls, shown.told) /\ shown \in ShownType /\ shown.told \subseteq gone
      /\ calls \in Seq(CallType) /\ Sound(calls[i], shown.told, gone) /\ gone \subseteq Ids
  BY TabIs DEF InTab, TabInv, ServerInv
<1>2. id \in Ids /\ id \in gone
  BY <1>1 DEF Sound
<1> HIDE DEF id
<1>3. shown' = [shown EXCEPT !.told = told] /\ told \subseteq gone /\ told \in SUBSET Ids
  BY <1>1, <1>2 DEF id, ShownType
<1> HIDE DEF told
<1>4. shown' \in ShownType /\ shown'.told = told /\ shown'.list = shown.list
  BY <1>1, <1>3 DEF ShownType
<1>5. Rest(i, calls')
  BY <1>1, RestIs
<1>6. \A k \in DOMAIN calls' : calls'[k].op = "list" => calls'[k].passed
  BY <1>1, EndedTold
<1>7. Requests(calls', told)
  BY <1>1, <1>5, <1>6, EndedSound
<1>8. TabInv'
  BY <1>3, <1>4, <1>7, TabKept DEF InTab
<1>9. Genuine(ui', shown')
  <2>1. ASSUME shown.list = "current" PROVE Distinct(ui'.items) /\ IdsOf(ui'.items) \cap told = {}
    <3>1. Distinct(ui.items) /\ IdsOf(ui.items) \cap shown.told = {}
      BY <2>1 DEF Genuine
    <3>2. IdsOf(ui'.items) = IdsOf(ui.items) \ {id} /\ Distinct(ui'.items)
      BY <3>1, MinusIs DEF id
    <3>3. QED
      BY <3>1, <3>2 DEF told
  <2>2. QED
    BY <1>4, <2>1 DEF Genuine
<1>10. QED
  BY <1>5, <1>8, <1>9

\* A list is shown.
LEMMA FormLoaded ==
  ASSUME InTab, NEW i \in DOMAIN calls, NEW ok \in BOOLEAN, ok => calls[i].done, calls[i].op = "list",
         calls' = Passing(i), KeysShown(i, ok), Genuine(ui, shown),
         ui'.items = IF ok THEN calls[i].answer ELSE ui.items
  PROVE  TabInv' /\ Rest(i, calls') /\ Genuine(ui', shown')
<1> DEFINE c == calls[i]
<1>1. Requests(calls, shown.told) /\ shown \in ShownType /\ c \in CallType /\ Sound(c, shown.told, gone)
  BY TabIs DEF InTab
<1>2. /\ shown' \in ShownType /\ shown'.told = shown.told
      /\ shown'.list = IF ok THEN IF c.passed THEN "late" ELSE "current"
                             ELSE IF c.passed THEN shown.list ELSE "failed"
  <2>1. c.passed \in BOOLEAN
    BY <1>1 DEF CallType
  <2> DEFINE list == IF ok THEN IF c.passed THEN "late" ELSE "current"
                           ELSE IF c.passed THEN shown.list ELSE "failed"
  <2>2. shown' = [shown EXCEPT !.list = list]
    BY <1>1 DEF KeysShown, ShownType
  <2>3. list \in {"none", "current", "late", "failed", "patched"}
    BY <1>1 DEF ShownType
  <2> HIDE DEF list
  <2>4. shown' \in ShownType /\ shown'.told = shown.told /\ shown'.list = list
    BY <1>1, <2>2, <2>3 DEF ShownType
  <2>5. QED
    BY <2>4 DEF list
<1>3. TabInv' /\ Rest(i, calls')
  BY <1>2, FormEnded
<1>4. Genuine(ui', shown')
  <2>1. CASE ok
    BY <1>1, <1>2, <2>1 DEF Genuine, Sound
  <2>2. CASE ~ok
    BY <1>1, <1>2, <2>2 DEF Genuine
  <2>3. QED
    BY <2>1, <2>2
<1>5. QED
  BY <1>3, <1>4

\* A load of the keys that follows the creation of a row.
LEMMA KeysCallIs ==
  ASSUME NEW row \in AnyRow
  PROVE  /\ KeysCall = RowCall("list", NoRow)
         /\ [KeysCall EXCEPT !.row = row] \in CallType /\ [KeysCall EXCEPT !.row = row].op = "list"
         /\ [KeysCall EXCEPT !.row = row].row = row /\ ~[KeysCall EXCEPT !.row = row].passed
         /\ \A told, deleted : Sound([KeysCall EXCEPT !.row = row], told, deleted)
<1> DEFINE first == KeysCall
           c == [first EXCEPT !.row = row]
<1>1. first = RowCall("list", NoRow)
  BY DEF KeysCall
<1>2. first \in CallType /\ first.op = "list" /\ ~first.passed
  BY <1>1, RowCallIs, RowIs DEF RowOperations
<1>3. first.done = FALSE
  BY <1>1 DEF RowCall, Call
<1> HIDE DEF first
<1>4. c \in CallType /\ c.op = "list" /\ c.row = row /\ ~c.passed /\ ~c.done
  BY <1>2, <1>3 DEF CallType
<1> HIDE DEF c
<1>5. \A told, deleted : Sound(c, told, deleted)
  BY <1>4 DEF Sound
<1>6. QED
  BY <1>1, <1>4, <1>5 DEF c, first

\* What is known of the requests of these pages.
LEMMA FormTypes ==
  ASSUME InForms
  PROVE  /\ TabInv /\ shown \in ShownType
         /\ \A i \in DOMAIN calls, ok \in BOOLEAN : Ends(i, ok) => (ok => calls[i].done /\ calls[i].ok)
         /\ \A i \in DOMAIN calls :
              /\ calls[i].answer \in Seq(Row) /\ calls[i].row \in AnyRow
              /\ calls[i].op \in RowOperations \cup OtherOperations
              /\ calls[i].op = "create" /\ calls[i].done /\ calls[i].ok
                   => calls[i].answer[1] \in AnyRow /\ calls[i].answer[1] # NoRow
<1>1. TabInv /\ shown \in ShownType /\ left \in 0 .. MaxSteps
      /\ \A i \in DOMAIN calls : calls[i] \in CallType /\ Sound(calls[i], shown.told, gone)
  BY TabIs DEF InForms, InTab
<1>2. \A i \in DOMAIN calls, ok \in BOOLEAN : Ends(i, ok) => (ok => calls[i].done /\ calls[i].ok)
  BY <1>1, EndsIs
<1>3. ASSUME NEW i \in DOMAIN calls
      PROVE  /\ calls[i].answer \in Seq(Row) /\ calls[i].row \in AnyRow
             /\ calls[i].op \in RowOperations \cup OtherOperations
             /\ calls[i].op = "create" /\ calls[i].done /\ calls[i].ok
                   => calls[i].answer[1] \in AnyRow /\ calls[i].answer[1] # NoRow
  <2> DEFINE c == calls[i]
             answer == c.answer
  <2>1. answer \in Seq(Row) /\ c.row \in AnyRow /\ c.op \in RowOperations \cup OtherOperations
    BY <1>1 DEF CallType
  <2>2. ASSUME c.op = "create", c.done, c.ok PROVE answer[1] \in AnyRow /\ answer[1] # NoRow
    <3>1. Len(answer) = 1
      BY <1>1, <2>2 DEF Sound
    <3> HIDE DEF answer
    <3>2. answer \in Seq(Row) /\ 1 \in 1 .. Len(answer)
      BY <2>1, <3>1
    <3>3. answer[1] \in Row
      BY <3>2, ElementOfSeq
    <3>4. QED
      BY <3>3, RowIs
  <2>3. QED
    BY <2>1, <2>2
<1>4. QED
  BY <1>1, <1>2, <1>3

-----------------------------------------------------------------------------
(* The settings of the web application.                                    *)

LEMMA SettingsIs ==
  ASSUME InForms, page = "settings"
  PROVE  /\ ui \in SettingsUi /\ SettingsInv(ui, calls, shown) /\ Genuine(ui, shown) /\ ui.items \in Seq(Row)
         /\ ui.saving \subseteq Forms /\ ui.keyName \in Tags \cup {Blank} /\ ui.deleting \in AnyId
<1>1. SettingsInv(ui, calls, shown)
  BY DEF InForms, FormPages
<1>2. ui \in SettingsUi /\ Genuine(ui, shown)
  BY <1>1 DEF SettingsInv
<1>3. QED
  BY <1>1, <1>2 DEF SettingsUi

LEMMA SettingsSent ==
  ASSUME InForms, page' = page, page = "settings",
         NEW c \in CallType, ~c.passed, Sound(c, shown.told, gone),
         calls' = Append(calls, c), shown' = shown, ui' \in SettingsUi, ui'.items = ui.items,
         ui'.loading => ui.loading, ui'.refreshing => ui.refreshing \/ c.op = "list",
         \A form \in ui'.saving : form \in ui.saving \/ form = c.op,
         ui'.toggling => ui.toggling \/ c.op = "integration",
         ui'.creating => ui.creating \/ c.op = "create",
         ui'.deleting # Nobody => ui.deleting # Nobody \/ c.op = "delete"
  PROVE  FormsKept
<1>1. SettingsInv(ui, calls, shown)
  BY SettingsIs
<1>2. /\ TabInv'
      /\ \A op : Has(calls', op) <=> Has(calls, op) \/ c.op = op
      /\ Creates(calls) \/ c.op = "create" => Creates(calls')
  BY FormSent DEF InForms
<1>3. Genuine(ui', shown')
  BY <1>1 DEF SettingsInv, Genuine
<1>4. SettingsInv(ui', calls', shown')
  BY <1>1, <1>2, <1>3 DEF SettingsInv
<1>5. QED
  BY <1>2, <1>4 DEF FormsKept, FormPages

LEMMA SettingsEnded ==
  ASSUME InForms, page' = page, page = "settings", NEW i \in DOMAIN calls,
         TabInv', Rest(i, calls'), Genuine(ui', shown'), ui' \in SettingsUi,
         ui'.loading \/ ui'.refreshing => (ui.loading \/ ui.refreshing) /\ calls[i].op # "list",
         \A form \in ui'.saving : form \in ui.saving /\ form # calls[i].op,
         ui'.toggling => ui.toggling /\ calls[i].op # "integration",
         ui'.creating => ui.creating /\ calls[i].op # "create" /\ (calls[i].op = "list" => calls[i].row = NoRow),
         ui'.deleting # Nobody => ui.deleting # Nobody /\ calls[i].op # "delete"
  PROVE  FormsKept
<1>1. SettingsInv(ui, calls, shown)
  BY SettingsIs
<1>2. /\ \A op : Has(calls, op) /\ op # calls[i].op => Has(calls', op)
      /\ Creates(calls) /\ calls[i].op # "create" /\ (calls[i].op = "list" => calls[i].row = NoRow)
           => Creates(calls')
  BY FormRest DEF InForms
<1>3. SettingsInv(ui', calls', shown')
  BY <1>1, <1>2 DEF SettingsInv
<1>4. QED
  BY <1>3 DEF FormsKept, FormPages

\* What the user does.
LEMMA SettingsUserStep ==
  ASSUME InForms, page' = page, page = "settings", SettingsUser
  PROVE  FormsKept
<1>1. /\ ui \in SettingsUi /\ SettingsInv(ui, calls, shown) /\ ui.saving \subseteq Forms
      /\ ui.keyName \in Tags \cup {Blank} /\ ui.items \in Seq(Row)
  BY SettingsIs
<1>2. NoRow \in AnyRow /\ \A id \in AnyId, tag \in Tags \cup {Blank} : [id |-> id, tag |-> tag] \in AnyRow
  BY RowIs
<1>3. CASE loadAll
  <2> DEFINE c == RowCall("list", NoRow)
  <2>1. calls' = Append(calls, c) /\ ui' = [ui EXCEPT !.refreshing = TRUE] /\ shown' = shown
    BY <1>3, KeysCallIs, <1>2 DEF loadAll
  <2>2. c \in CallType /\ ~c.passed /\ c.op = "list" /\ Sound(c, shown.told, gone)
    BY <1>2, RowCallIs DEF RowOperations
  <2> HIDE DEF c
  <2>3. /\ ui' \in SettingsUi /\ ui'.items = ui.items /\ ui'.loading = ui.loading /\ ui'.saving = ui.saving
        /\ ui'.toggling = ui.toggling /\ ui'.creating = ui.creating /\ ui'.deleting = ui.deleting
    BY <1>1, <2>1 DEF SettingsUi
  <2>4. QED
    BY <2>1, <2>2, <2>3, SettingsSent
<1>4. CASE SettingsType \/ SettingsTypeKey
  <2> DEFINE Typed(v) ==
               /\ v \in SettingsUi /\ v.items = ui.items /\ v.loading = ui.loading /\ v.saving = ui.saving
               /\ v.refreshing = ui.refreshing
               /\ v.toggling = ui.toggling /\ v.creating = ui.creating /\ v.deleting = ui.deleting
  <2>1. calls' = calls /\ shown' = shown
    BY <1>4 DEF SettingsType, SettingsTypeKey
  <2>2. ASSUME NEW form \in Forms PROVE Typed([ui EXCEPT !.typed = @ \cup {form}])
    <3> DEFINE typed == ui.typed \cup {form}
    <3>1. typed \in SUBSET Forms
      BY <1>1 DEF SettingsUi
    <3>2. [ui EXCEPT !.typed = @ \cup {form}] = [ui EXCEPT !.typed = typed]
      BY <1>1 DEF SettingsUi
    <3> HIDE DEF typed
    <3>3. Typed([ui EXCEPT !.typed = typed])
      BY <1>1, <3>1 DEF SettingsUi
    <3> HIDE DEF Typed
    <3>4. QED
      BY <3>2, <3>3, Zenon
  <2>3. Typed([ui EXCEPT !.keyName = IF @ = Blank THEN "on" ELSE Blank])
    <3> DEFINE name == IF ui.keyName = Blank THEN "on" ELSE Blank
    <3>1. name \in Tags \cup {Blank}
      BY DEF Tags
    <3>2. [ui EXCEPT !.keyName = IF @ = Blank THEN "on" ELSE Blank] = [ui EXCEPT !.keyName = name]
      BY <1>1 DEF SettingsUi
    <3> HIDE DEF name
    <3>3. Typed([ui EXCEPT !.keyName = name])
      BY <1>1, <3>1 DEF SettingsUi
    <3> HIDE DEF Typed
    <3>4. QED
      BY <3>2, <3>3, Zenon
  <2> HIDE DEF Typed
  <2>4. Typed(ui')
    BY <1>4, <2>2, <2>3, Zenon DEF SettingsType, SettingsTypeKey
  <2>5. SettingsInv(ui', calls', shown')
    BY <1>1, <2>1, <2>4 DEF SettingsInv, Genuine, Typed
  <2>6. TabInv'
    BY <2>1, FormTypes, TabIs, TabKept DEF InForms, InTab
  <2>7. QED
    BY <2>5, <2>6 DEF FormsKept, FormPages
<1>5. ASSUME NEW form \in Forms, SettingsSave(form) PROVE FormsKept
  <2> DEFINE c == RowCall(form, NoRow)
             saving == ui.saving \cup {form}
  <2>1. calls' = Append(calls, c) /\ ui' = [ui EXCEPT !.saving = saving] /\ shown' = shown
    BY <1>1, <1>5 DEF SettingsSave, settingsService, SettingsUi
  <2>2. c \in CallType /\ ~c.passed /\ c.op = form /\ Sound(c, shown.told, gone)
    <3>1. form \in RowOperations \cup OtherOperations /\ form \notin {"create", "delete"}
      BY DEF Forms, OtherOperations
    <3>2. QED
      BY <1>2, <3>1, RowCallIs
  <2> HIDE DEF c
  <2>3. saving \in SUBSET Forms
    BY <1>1
  <2>4. \A f \in saving : f \in ui.saving \/ f = form
    OBVIOUS
  <2> HIDE DEF saving
  <2>5. /\ ui' \in SettingsUi /\ ui'.items = ui.items /\ ui'.loading = ui.loading /\ ui'.saving = saving
        /\ ui'.refreshing = ui.refreshing
        /\ ui'.toggling = ui.toggling /\ ui'.creating = ui.creating /\ ui'.deleting = ui.deleting
    BY <1>1, <2>1, <2>3 DEF SettingsUi
  <2>6. QED
    BY <2>1, <2>2, <2>4, <2>5, SettingsSent
<1>6. CASE handleToggleIntegration
  <2> DEFINE tag == IF ui.enabled THEN "off" ELSE "on"
             row == [NoRow EXCEPT !.tag = tag]
             c == RowCall("integration", row)
  <2>1. calls' = Append(calls, c) /\ ui' = [ui EXCEPT !.toggling = TRUE] /\ shown' = shown
    BY <1>6 DEF handleToggleIntegration, settingsService
  <2>2. row \in AnyRow
    <3>1. tag \in Tags \cup {Blank}
      BY DEF Tags
    <3> HIDE DEF tag
    <3>2. QED
      BY <1>2, <3>1 DEF AnyRow
  <2> HIDE DEF row
  <2>3. c \in CallType /\ ~c.passed /\ c.op = "integration" /\ Sound(c, shown.told, gone)
    <3>1. "integration" \in RowOperations \cup OtherOperations
      BY DEF OtherOperations
    <3>2. QED
      BY <2>2, <3>1, RowCallIs
  <2> HIDE DEF c
  <2>4. /\ ui' \in SettingsUi /\ ui'.items = ui.items /\ ui'.loading = ui.loading /\ ui'.saving = ui.saving
        /\ ui'.refreshing = ui.refreshing /\ ui'.creating = ui.creating /\ ui'.deleting = ui.deleting
    BY <1>1, <2>1 DEF SettingsUi
  <2>5. QED
    BY <2>1, <2>3, <2>4, SettingsSent
<1>7. CASE handleCreateApiKey
  <2> DEFINE row == [NoRow EXCEPT !.tag = ui.keyName]
             c == RowCall("create", row)
  <2>1. calls' = Append(calls, c) /\ ui' = [ui EXCEPT !.creating = TRUE] /\ shown' = shown /\ ui.keyName # Blank
    BY <1>7 DEF handleCreateApiKey, settingsService
  <2>2. row \in AnyRow /\ row.tag \in Tags
    BY <1>1, <1>2, <2>1 DEF AnyRow
  <2> HIDE DEF row
  <2>3. c \in CallType /\ ~c.passed /\ c.op = "create" /\ Sound(c, shown.told, gone)
    BY <2>2, RowCallIs DEF RowOperations
  <2> HIDE DEF c
  <2>4. /\ ui' \in SettingsUi /\ ui'.items = ui.items /\ ui'.loading = ui.loading /\ ui'.saving = ui.saving
        /\ ui'.refreshing = ui.refreshing /\ ui'.toggling = ui.toggling /\ ui'.deleting = ui.deleting
    BY <1>1, <2>1 DEF SettingsUi
  <2>5. QED
    BY <2>1, <2>3, <2>4, SettingsSent
<1>8. ASSUME NEW id \in Ids, handleDeleteApiKey(id) PROVE FormsKept
  <2> DEFINE row == [NoRow EXCEPT !.id = id]
             c == RowCall("delete", row)
  <2>1. calls' = Append(calls, c) /\ ui' = [ui EXCEPT !.deleting = id] /\ shown' = shown
    BY <1>8 DEF handleDeleteApiKey, settingsService
  <2>2. row \in AnyRow /\ row.id \in Ids
    BY <1>2 DEF AnyRow, AnyId
  <2> HIDE DEF row
  <2>3. c \in CallType /\ ~c.passed /\ c.op = "delete" /\ Sound(c, shown.told, gone)
    BY <2>2, RowCallIs DEF RowOperations
  <2> HIDE DEF c
  <2>4. /\ ui' \in SettingsUi /\ ui'.items = ui.items /\ ui'.loading = ui.loading /\ ui'.saving = ui.saving
        /\ ui'.refreshing = ui.refreshing /\ ui'.toggling = ui.toggling /\ ui'.creating = ui.creating
    BY <1>1, <2>1 DEF SettingsUi, AnyId
  <2>5. QED
    BY <2>1, <2>3, <2>4, SettingsSent
<1>9. QED
  BY <1>3, <1>4, <1>5, <1>6, <1>7, <1>8, Zenon DEF SettingsUser

\* What the server says.
LEMMA SettingsAnswerStep ==
  ASSUME InForms, page' = page, page = "settings", SettingsAnswer
  PROVE  FormsKept
<1>1. /\ ui \in SettingsUi /\ SettingsInv(ui, calls, shown) /\ Genuine(ui, shown) /\ ui.items \in Seq(Row)
      /\ ui.saving \subseteq Forms /\ ui.deleting \in AnyId
  BY SettingsIs
<1>2. PICK i \in DOMAIN calls, ok \in BOOLEAN :
        /\ Ends(i, ok)
        /\ \/ SettingsLoaded(i, ok) \/ SettingsSaved(i, ok) \/ SettingsToggled(i, ok)
           \/ SettingsKeyCreated(i, ok) \/ SettingsKeyDeleted(i, ok)
  BY DEF SettingsAnswer
<1> DEFINE answer == calls[i].answer
           op == calls[i].op
<1>3. /\ shown \in ShownType /\ (ok => calls[i].done /\ calls[i].ok) /\ answer \in Seq(Row)
      /\ op = "create" /\ ok => answer[1] \in AnyRow /\ answer[1] # NoRow
  BY <1>2, FormTypes
<1> HIDE DEF answer, op
<1>4. CASE SettingsLoaded(i, ok)
  <2>1. PICK enabled \in BOOLEAN :
          ui' = [(IF ok THEN Filled(ui, answer, enabled) ELSE [ui EXCEPT !.loading = FALSE, !.refreshing = FALSE])
                   EXCEPT !.creating = @ /\ calls[i].row = NoRow]
    BY <1>4, Zenon DEF SettingsLoaded, answer
  <2>2. op = "list" /\ calls' = Passing(i) /\ KeysShown(i, ok)
    BY <1>4, Zenon DEF SettingsLoaded, op
  <2> DEFINE none == {}
             u == IF ok THEN Filled(ui, answer, enabled) ELSE [ui EXCEPT !.loading = FALSE, !.refreshing = FALSE]
             only == u.creating /\ calls[i].row = NoRow
  <2>3. /\ u \in SettingsUi /\ ~u.loading /\ ~u.refreshing /\ u.saving = ui.saving /\ u.toggling = ui.toggling
        /\ u.creating = ui.creating /\ u.deleting = ui.deleting
        /\ u.items = IF ok THEN answer ELSE ui.items
    <3>1. CASE ok
      <4>1. none \in SUBSET Forms
        OBVIOUS
      <4>2. u = [ui EXCEPT !.items = answer, !.loaded = TRUE, !.typed = none, !.enabled = enabled,
                           !.loading = FALSE, !.refreshing = FALSE]
        BY <3>1 DEF Filled
      <4> HIDE DEF u, none
      <4>3. QED
        BY <1>1, <1>3, <3>1, <4>1, <4>2 DEF SettingsUi
    <3>2. CASE ~ok
      <4>1. u = [ui EXCEPT !.loading = FALSE, !.refreshing = FALSE]
        BY <3>2
      <4> HIDE DEF u
      <4>2. QED
        BY <1>1, <3>2, <4>1 DEF SettingsUi
    <3>3. QED
      BY <3>1, <3>2
  <2>4. ui' = [u EXCEPT !.creating = @ /\ calls[i].row = NoRow]
    BY <2>1
  <2> HIDE DEF u
  <2>5. ui' = [u EXCEPT !.creating = only]
    BY <2>3, <2>4 DEF SettingsUi
  <2>6. only \in BOOLEAN /\ (only => ui.creating /\ calls[i].row = NoRow)
    BY <2>3
  <2> HIDE DEF only
  <2>7. /\ ui' \in SettingsUi /\ ~ui'.loading /\ ~ui'.refreshing /\ ui'.saving = ui.saving
        /\ ui'.toggling = ui.toggling /\ ui'.creating = only /\ ui'.deleting = ui.deleting
        /\ ui'.items = IF ok THEN answer ELSE ui.items
    BY <2>3, <2>5, <2>6 DEF SettingsUi
  <2>8. TabInv' /\ Rest(i, calls') /\ Genuine(ui', shown')
    BY <1>1, <1>3, <2>2, <2>7, FormLoaded DEF InForms, answer, op
  <2>9. \A form \in ui'.saving : form \in ui.saving /\ form # op
    BY <1>1, <2>2, <2>7 DEF Forms
  <2>10. QED
    BY <2>2, <2>6, <2>7, <2>8, <2>9, SettingsEnded DEF op
<1>5. CASE SettingsSaved(i, ok)
  <2> DEFINE saving == ui.saving \ {op}
  <2>1. op \in Forms /\ ui' = [ui EXCEPT !.saving = saving] /\ calls' = Without(i) /\ shown' = shown
    BY <1>1, <1>5 DEF SettingsSaved, op, SettingsUi
  <2>2. saving \in SUBSET Forms /\ \A form \in saving : form \in ui.saving /\ form # op
    BY <1>1
  <2> HIDE DEF saving
  <2>3. /\ ui' \in SettingsUi /\ ui'.loading = ui.loading /\ ui'.refreshing = ui.refreshing /\ ui'.saving = saving
        /\ ui'.toggling = ui.toggling /\ ui'.creating = ui.creating /\ ui'.deleting = ui.deleting
        /\ ui'.items = ui.items
    BY <1>1, <2>1, <2>2 DEF SettingsUi
  <2>4. TabInv' /\ Rest(i, calls')
    BY <1>3, <2>1, FormEnded DEF InForms
  <2>5. Genuine(ui', shown')
    BY <1>1, <2>1, <2>3 DEF Genuine
  <2>6. op \notin {"list", "create", "delete", "integration"}
    BY <2>1 DEF Forms
  <2>7. QED
    BY <2>1, <2>2, <2>3, <2>4, <2>5, <2>6, SettingsEnded DEF op
<1>6. CASE SettingsToggled(i, ok)
  <2> DEFINE enabled == IF ok THEN calls[i].row.tag = "on" ELSE ui.enabled
  <2>1. /\ op = "integration" /\ ui' = [ui EXCEPT !.toggling = FALSE, !.enabled = enabled]
        /\ calls' = Without(i) /\ shown' = shown
    BY <1>1, <1>6 DEF SettingsToggled, op, SettingsUi
  <2>2. enabled \in BOOLEAN
    BY <1>1 DEF SettingsUi
  <2> HIDE DEF enabled
  <2>3. /\ ui' \in SettingsUi /\ ui'.loading = ui.loading /\ ui'.refreshing = ui.refreshing /\ ui'.saving = ui.saving
        /\ ~ui'.toggling /\ ui'.creating = ui.creating /\ ui'.deleting = ui.deleting
        /\ ui'.items = ui.items
    BY <1>1, <2>1, <2>2 DEF SettingsUi
  <2>4. TabInv' /\ Rest(i, calls')
    BY <1>3, <2>1, FormEnded DEF InForms
  <2>5. Genuine(ui', shown')
    BY <1>1, <2>1, <2>3 DEF Genuine
  <2>6. \A form \in ui'.saving : form \in ui.saving /\ form # op
    BY <1>1, <2>1, <2>3 DEF Forms
  <2>7. QED
    BY <2>1, <2>3, <2>4, <2>5, <2>6, SettingsEnded DEF op
<1>7. CASE SettingsKeyCreated(i, ok)
  <2>0. op = "create" /\ shown' = shown
    BY <1>7 DEF SettingsKeyCreated, op
  <2>1. CASE ok
    <3> DEFINE row == answer[1]
               c == [KeysCall EXCEPT !.row = row]
    <3>1. ui' = [ui EXCEPT !.keyName = Blank, !.refreshing = TRUE] /\ calls' = Append(Without(i), c)
      BY <1>7, <2>1 DEF SettingsKeyCreated, answer
    <3>2. row \in AnyRow /\ row # NoRow
      BY <1>3, <2>0, <2>1
    <3> HIDE DEF row
    <3>3. c \in CallType /\ ~c.passed /\ Sound(c, shown.told, gone) /\ c.op = "list" /\ c.row # NoRow
      BY <3>2, KeysCallIs
    <3> HIDE DEF c
    <3>4. /\ TabInv'
          /\ \A o : (Has(calls, o) /\ o # op) \/ o = "list" => Has(calls', o)
          /\ Creates(calls')
      BY <2>0, <3>1, <3>3, FormFollowed DEF InForms, op
    <3>5. /\ ui' \in SettingsUi /\ ui'.saving = ui.saving /\ ui'.items = ui.items
          /\ ui'.toggling = ui.toggling /\ ui'.deleting = ui.deleting
      BY <1>1, <3>1 DEF SettingsUi
    <3>6. Genuine(ui', shown')
      BY <1>1, <2>0, <3>5 DEF Genuine
    <3>7. SettingsInv(ui', calls', shown')
      BY <1>1, <2>0, <3>4, <3>5, <3>6 DEF SettingsInv, Forms
    <3>8. QED
      BY <3>4, <3>7 DEF FormsKept, FormPages
  <2>2. CASE ~ok
    <3>1. ui' = [ui EXCEPT !.creating = FALSE] /\ calls' = Without(i)
      BY <1>7, <2>2 DEF SettingsKeyCreated
    <3>2. /\ ui' \in SettingsUi /\ ui'.loading = ui.loading /\ ui'.refreshing = ui.refreshing
          /\ ui'.saving = ui.saving /\ ui'.toggling = ui.toggling /\ ~ui'.creating
          /\ ui'.deleting = ui.deleting /\ ui'.items = ui.items
      BY <1>1, <3>1 DEF SettingsUi
    <3>3. TabInv' /\ Rest(i, calls')
      BY <1>3, <2>0, <3>1, FormEnded DEF InForms
    <3>4. Genuine(ui', shown')
      BY <1>1, <2>0, <3>2 DEF Genuine
    <3>5. \A form \in ui'.saving : form \in ui.saving /\ form # op
      BY <1>1, <2>0, <3>2 DEF Forms
    <3>6. QED
      BY <2>0, <3>2, <3>3, <3>4, <3>5, SettingsEnded DEF op
  <2>3. QED
    BY <2>1, <2>2
<1>8. CASE SettingsKeyDeleted(i, ok)
  <2> DEFINE items == IF ok THEN Minus(ui.items, calls[i].row.id) ELSE ui.items
  <2>1. op = "delete" /\ ui' = [ui EXCEPT !.deleting = Nobody, !.items = items]
    BY <1>1, <1>8 DEF SettingsKeyDeleted, op, SettingsUi, WithoutKey
  <2>2. items \in Seq(Row)
    BY <1>1, MinusIs
  <2> HIDE DEF items
  <2>3. /\ ui' \in SettingsUi /\ ui'.loading = ui.loading /\ ui'.refreshing = ui.refreshing
        /\ ui'.saving = ui.saving /\ ui'.toggling = ui.toggling /\ ui'.creating = ui.creating
        /\ ui'.deleting = Nobody /\ ui'.items = items
    BY <1>1, <2>1, <2>2 DEF SettingsUi, AnyId
  <2>4. TabInv' /\ Rest(i, calls') /\ Genuine(ui', shown')
    <3>1. CASE ok
      <4>1. calls' = Overtaken(i) /\ shown' = [shown EXCEPT !.told = @ \cup {calls[i].row.id}]
        BY <1>8, <3>1 DEF SettingsKeyDeleted
      <4>2. ui'.items = Minus(ui.items, calls[i].row.id)
        BY <2>3, <3>1 DEF items
      <4>3. QED
        BY <1>1, <1>3, <2>1, <3>1, <4>1, <4>2, FormDeleted DEF InForms, op
    <3>2. CASE ~ok
      <4>1. calls' = Without(i) /\ shown' = shown
        BY <1>8, <3>2 DEF SettingsKeyDeleted
      <4>2. TabInv' /\ Rest(i, calls')
        BY <1>3, <4>1, FormEnded DEF InForms
      <4>3. Genuine(ui', shown')
        BY <1>1, <2>3, <3>2, <4>1 DEF Genuine, items
      <4>4. QED
        BY <4>2, <4>3
    <3>3. QED
      BY <3>1, <3>2
  <2>5. \A form \in ui'.saving : form \in ui.saving /\ form # op
    BY <1>1, <2>1, <2>3 DEF Forms
  <2>6. QED
    BY <2>1, <2>3, <2>4, <2>5, SettingsEnded DEF op
<1>9. QED
  BY <1>2, <1>4, <1>5, <1>6, <1>7, <1>8

-----------------------------------------------------------------------------
(* The settings of the admin panel.                                        *)

LEMMA PlatformIs ==
  ASSUME InForms, page = "platform"
  PROVE  /\ ui \in AdminSettingsUi /\ AdminSettingsInv(ui, calls, shown) /\ Genuine(ui, shown)
         /\ ui.items \in Seq(Row) /\ ui.keyName \in Tags \cup {Blank} /\ ui.resets \in Nat
<1>1. AdminSettingsInv(ui, calls, shown)
  BY DEF InForms, FormPages
<1>2. ui \in AdminSettingsUi /\ Genuine(ui, shown)
  BY <1>1 DEF AdminSettingsInv
<1>3. QED
  BY <1>1, <1>2 DEF AdminSettingsUi

LEMMA PlatformSent ==
  ASSUME InForms, page' = page, page = "platform",
         NEW c \in CallType, ~c.passed, Sound(c, shown.told, gone),
         calls' = Append(calls, c), shown' = shown,
         ui' \in AdminSettingsUi, ui'.items = ui.items, ~ui'.refreshing,
         ui'.loading => ui.loading \/ (c.op = "list" /\ c.row = NoRow),
         \/ ui'.saveState = ui.saveState /\ ui'.resets = ui.resets
         \/ ui'.saveState = "saving" /\ c.op \in Forms
  PROVE  FormsKept
<1>1. AdminSettingsInv(ui, calls, shown)
  BY PlatformIs
<1>2. /\ TabInv'
      /\ \A op : Has(calls', op) <=> Has(calls, op) \/ c.op = op
      /\ Loads(calls) \/ (c.op = "list" /\ c.row = NoRow) => Loads(calls')
  BY FormSent DEF InForms
<1>3. Genuine(ui', shown')
  BY <1>1 DEF AdminSettingsInv, Genuine
<1>4. AdminSettingsInv(ui', calls', shown')
  BY <1>1, <1>2, <1>3 DEF AdminSettingsInv, Loads
<1>5. QED
  BY <1>2, <1>4 DEF FormsKept, FormPages

LEMMA PlatformEnded ==
  ASSUME InForms, page' = page, page = "platform", NEW i \in DOMAIN calls,
         TabInv', Rest(i, calls'), Genuine(ui', shown'), ui' \in AdminSettingsUi, ~ui'.refreshing,
         ui'.loading => ui.loading /\ ~(calls[i].op = "list" /\ calls[i].row = NoRow),
         \/ ui'.saveState = ui.saveState /\ ui'.resets = ui.resets /\ calls[i].op \notin Forms
         \/ ui'.saveState # "saving" /\ ui'.resets > 0
  PROVE  FormsKept
<1>1. AdminSettingsInv(ui, calls, shown)
  BY PlatformIs
<1>2. /\ \A op : Has(calls, op) /\ op # calls[i].op => Has(calls', op)
      /\ Loads(calls) /\ ~(calls[i].op = "list" /\ calls[i].row = NoRow) => Loads(calls')
  BY FormRest DEF InForms
<1>3. AdminSettingsInv(ui', calls', shown')
  BY <1>1, <1>2 DEF AdminSettingsInv, Loads
<1>4. QED
  BY <1>3 DEF FormsKept, FormPages

\* The page changes what it shows only: a form, or the indicator.
LEMMA PlatformStill ==
  ASSUME InForms, page' = page, page = "platform", calls' = calls, shown' = shown,
         ui' \in AdminSettingsUi, ui'.items = ui.items, ~ui'.refreshing, ui'.loading = ui.loading,
         \/ ui'.saveState = ui.saveState /\ ui'.resets = ui.resets
         \/ ui'.saveState = "idle"
  PROVE  FormsKept
<1>1. AdminSettingsInv(ui, calls, shown)
  BY PlatformIs
<1>2. AdminSettingsInv(ui', calls', shown')
  BY <1>1 DEF AdminSettingsInv, Genuine
<1>3. TabInv'
  BY FormTypes, TabIs, TabKept DEF InForms, InTab
<1>4. QED
  BY <1>2, <1>3 DEF FormsKept, FormPages

\* What the user and the timers do.
LEMMA PlatformUserStep ==
  ASSUME InForms, page' = page, page = "platform",
         AdminSettingsUser \/ (ui.resets > 0 /\ ui' = [ui EXCEPT !.saveState = "idle", !.resets = @ - 1]
                               /\ calls' = calls /\ shown' = shown)
  PROVE  FormsKept
<1>1. /\ ui \in AdminSettingsUi /\ AdminSettingsInv(ui, calls, shown) /\ ui.keyName \in Tags \cup {Blank}
      /\ ui.items \in Seq(Row) /\ ui.resets \in Nat /\ ~ui.refreshing
  BY PlatformIs DEF AdminSettingsInv
<1>2. NoRow \in AnyRow /\ \A id \in AnyId, tag \in Tags \cup {Blank} : [id |-> id, tag |-> tag] \in AnyRow
  BY RowIs
<1>3. CASE AdminSettingsLoad
  <2> DEFINE c == RowCall("list", NoRow)
  <2>1. calls' = Append(calls, c) /\ ui' = [ui EXCEPT !.loading = TRUE] /\ shown' = shown
    BY <1>3, KeysCallIs, <1>2 DEF AdminSettingsLoad
  <2>2. c \in CallType /\ ~c.passed /\ c.op = "list" /\ c.row = NoRow /\ Sound(c, shown.told, gone)
    BY <1>2, RowCallIs DEF RowOperations
  <2> HIDE DEF c
  <2>3. /\ ui' \in AdminSettingsUi /\ ui'.items = ui.items /\ ~ui'.refreshing
        /\ ui'.saveState = ui.saveState /\ ui'.resets = ui.resets
    BY <1>1, <2>1 DEF AdminSettingsUi
  <2>4. QED
    BY <2>1, <2>2, <2>3, PlatformSent
<1>4. CASE AdminSettingsType
  <2> DEFINE Typed(v) ==
               /\ v \in AdminSettingsUi /\ v.items = ui.items /\ v.loading = ui.loading /\ ~v.refreshing
               /\ v.saveState = ui.saveState /\ v.resets = ui.resets
  <2>1. calls' = calls /\ shown' = shown
    BY <1>4 DEF AdminSettingsType
  <2>2. ASSUME NEW form \in Forms PROVE Typed([ui EXCEPT !.typed = @ \cup {form}])
    <3> DEFINE typed == ui.typed \cup {form}
    <3>1. typed \in SUBSET Forms
      BY <1>1 DEF AdminSettingsUi
    <3>2. [ui EXCEPT !.typed = @ \cup {form}] = [ui EXCEPT !.typed = typed]
      BY <1>1 DEF AdminSettingsUi
    <3> HIDE DEF typed
    <3>3. Typed([ui EXCEPT !.typed = typed])
      BY <1>1, <3>1 DEF AdminSettingsUi
    <3> HIDE DEF Typed
    <3>4. QED
      BY <3>2, <3>3, Zenon
  <2>3. Typed([ui EXCEPT !.keyName = IF @ = Blank THEN "on" ELSE Blank])
    <3> DEFINE name == IF ui.keyName = Blank THEN "on" ELSE Blank
    <3>1. name \in Tags \cup {Blank}
      BY DEF Tags
    <3>2. [ui EXCEPT !.keyName = IF @ = Blank THEN "on" ELSE Blank] = [ui EXCEPT !.keyName = name]
      BY <1>1 DEF AdminSettingsUi
    <3> HIDE DEF name
    <3>3. Typed([ui EXCEPT !.keyName = name])
      BY <1>1, <3>1 DEF AdminSettingsUi
    <3> HIDE DEF Typed
    <3>4. QED
      BY <3>2, <3>3, Zenon
  <2> HIDE DEF Typed
  <2>4. Typed(ui')
    BY <1>4, <2>2, <2>3, Zenon DEF AdminSettingsType
  <2>5. QED
    BY <2>1, <2>4, PlatformStill DEF Typed
<1>5. ASSUME NEW form \in Forms, AdminSettingsSave(form) PROVE FormsKept
  <2> DEFINE c == RowCall(form, NoRow)
  <2>1. calls' = Append(calls, c) /\ ui' = [ui EXCEPT !.saveState = "saving"] /\ shown' = shown
    BY <1>5 DEF AdminSettingsSave, adminSettingsService
  <2>2. c \in CallType /\ ~c.passed /\ c.op = form /\ Sound(c, shown.told, gone)
    <3>1. form \in RowOperations \cup OtherOperations /\ form \notin {"create", "delete"}
      BY DEF Forms, OtherOperations
    <3>2. QED
      BY <1>2, <3>1, RowCallIs
  <2> HIDE DEF c
  <2>3. /\ ui' \in AdminSettingsUi /\ ui'.items = ui.items /\ ui'.loading = ui.loading /\ ~ui'.refreshing
        /\ ui'.saveState = "saving"
    BY <1>1, <2>1 DEF AdminSettingsUi
  <2>4. QED
    BY <2>1, <2>2, <2>3, PlatformSent
<1>6. CASE AdminSettingsToggle
  <2> DEFINE tag == IF ui.enabled THEN "off" ELSE "on"
             row == [NoRow EXCEPT !.tag = tag]
             c == RowCall("integration", row)
  <2>1. calls' = Append(calls, c) /\ ui' = ui /\ shown' = shown
    BY <1>6 DEF AdminSettingsToggle, adminSettingsService
  <2>2. row \in AnyRow
    <3>1. tag \in Tags \cup {Blank}
      BY DEF Tags
    <3> HIDE DEF tag
    <3>2. QED
      BY <1>2, <3>1 DEF AnyRow
  <2> HIDE DEF row
  <2>3. c \in CallType /\ ~c.passed /\ c.op = "integration" /\ Sound(c, shown.told, gone)
    <3>1. "integration" \in RowOperations \cup OtherOperations
      BY DEF OtherOperations
    <3>2. QED
      BY <2>2, <3>1, RowCallIs
  <2> HIDE DEF c
  <2>4. QED
    BY <1>1, <2>1, <2>3, PlatformSent
<1>7. CASE createApiKey
  <2> DEFINE row == [NoRow EXCEPT !.tag = ui.keyName]
             c == RowCall("create", row)
  <2>1. calls' = Append(calls, c) /\ ui' = ui /\ shown' = shown /\ ui.keyName # Blank
    BY <1>7 DEF createApiKey, adminSettingsService
  <2>2. row \in AnyRow /\ row.tag \in Tags
    BY <1>1, <1>2, <2>1 DEF AnyRow
  <2> HIDE DEF row
  <2>3. c \in CallType /\ ~c.passed /\ c.op = "create" /\ Sound(c, shown.told, gone)
    BY <2>2, RowCallIs DEF RowOperations
  <2> HIDE DEF c
  <2>4. QED
    BY <1>1, <2>1, <2>3, PlatformSent
<1>8. ASSUME NEW id \in Ids, removeApiKey(id) PROVE FormsKept
  <2> DEFINE row == [NoRow EXCEPT !.id = id]
             c == RowCall("delete", row)
  <2>1. calls' = Append(calls, c) /\ ui' = ui /\ shown' = shown
    BY <1>8 DEF removeApiKey, adminSettingsService
  <2>2. row \in AnyRow /\ row.id \in Ids
    BY <1>2 DEF AnyRow, AnyId
  <2> HIDE DEF row
  <2>3. c \in CallType /\ ~c.passed /\ c.op = "delete" /\ Sound(c, shown.told, gone)
    BY <2>2, RowCallIs DEF RowOperations
  <2> HIDE DEF c
  <2>4. QED
    BY <1>1, <2>1, <2>3, PlatformSent
<1>9. ASSUME ui.resets > 0, ui' = [ui EXCEPT !.saveState = "idle", !.resets = @ - 1], calls' = calls, shown' = shown
      PROVE  FormsKept
  <2> DEFINE resets == ui.resets - 1
  <2>1. resets \in Nat
    BY <1>1, <1>9
  <2>2. ui' = [ui EXCEPT !.saveState = "idle", !.resets = resets]
    BY <1>1, <1>9 DEF AdminSettingsUi
  <2> HIDE DEF resets
  <2>3. /\ ui' \in AdminSettingsUi /\ ui'.items = ui.items /\ ~ui'.refreshing /\ ui'.loading = ui.loading
        /\ ui'.saveState = "idle"
    BY <1>1, <2>1, <2>2 DEF AdminSettingsUi
  <2>4. QED
    BY <1>9, <2>3, PlatformStill
<1>10. QED
  BY <1>3, <1>4, <1>5, <1>6, <1>7, <1>8, <1>9, Zenon DEF AdminSettingsUser

\* What the server says.
LEMMA PlatformAnswerStep ==
  ASSUME InForms, page' = page, page = "platform", AdminSettingsAnswer
  PROVE  FormsKept
<1>1. /\ ui \in AdminSettingsUi /\ AdminSettingsInv(ui, calls, shown) /\ Genuine(ui, shown)
      /\ ui.items \in Seq(Row) /\ ui.resets \in Nat /\ ~ui.refreshing
  BY PlatformIs DEF AdminSettingsInv
<1>2. PICK i \in DOMAIN calls, ok \in BOOLEAN :
        /\ Ends(i, ok)
        /\ \/ AdminSettingsLoaded(i, ok) \/ AdminSettingsSaved(i, ok) \/ AdminSettingsToggled(i, ok)
           \/ AdminSettingsKeyCreated(i, ok) \/ AdminSettingsKeyRemoved(i, ok)
  BY DEF AdminSettingsAnswer
<1> DEFINE answer == calls[i].answer
           op == calls[i].op
           row == calls[i].row
<1>3. /\ shown \in ShownType /\ (ok => calls[i].done /\ calls[i].ok) /\ answer \in Seq(Row)
      /\ op = "create" /\ ok => answer[1] \in AnyRow /\ answer[1] # NoRow
  BY <1>2, FormTypes
<1> HIDE DEF answer, op, row
<1>4. CASE AdminSettingsLoaded(i, ok)
  <2>1. PICK enabled \in BOOLEAN :
          ui' = IF row # NoRow THEN [ui EXCEPT !.items = IF ok THEN answer ELSE @]
                ELSE IF ok THEN Filled(ui, answer, enabled) ELSE [ui EXCEPT !.loading = FALSE]
    BY <1>4, Zenon DEF AdminSettingsLoaded, answer, row
  <2>2. op = "list" /\ calls' = Passing(i) /\ KeysShown(i, ok)
    BY <1>4, Zenon DEF AdminSettingsLoaded, op
  <2> DEFINE none == {}
             items == IF ok THEN answer ELSE ui.items
  <2>3. /\ ui' \in AdminSettingsUi /\ ~ui'.refreshing /\ ui'.items = items
        /\ (ui'.loading => ui.loading /\ row # NoRow) /\ ui'.saveState = ui.saveState /\ ui'.resets = ui.resets
    <3>1. CASE row # NoRow
      <4>1. items \in Seq(Row)
        BY <1>1, <1>3
      <4>2. ui' = [ui EXCEPT !.items = items]
        BY <1>1, <2>1, <3>1 DEF AdminSettingsUi
      <4> HIDE DEF items
      <4>3. QED
        BY <1>1, <3>1, <4>1, <4>2 DEF AdminSettingsUi
    <3>2. CASE row = NoRow /\ ok
      <4>1. none \in SUBSET Forms /\ items = answer
        BY <3>2
      <4>2. ui' = [ui EXCEPT !.items = answer, !.loaded = TRUE, !.typed = none, !.enabled = enabled,
                             !.loading = FALSE, !.refreshing = FALSE]
        BY <2>1, <3>2 DEF Filled
      <4> HIDE DEF none, items
      <4>3. QED
        BY <1>1, <1>3, <4>1, <4>2 DEF AdminSettingsUi
    <3>3. CASE row = NoRow /\ ~ok
      <4>1. ui' = [ui EXCEPT !.loading = FALSE] /\ items = ui.items
        BY <2>1, <3>3
      <4> HIDE DEF items
      <4>2. QED
        BY <1>1, <4>1 DEF AdminSettingsUi
    <3>4. QED
      BY <3>1, <3>2, <3>3
  <2>4. TabInv' /\ Rest(i, calls') /\ Genuine(ui', shown')
    BY <1>1, <1>3, <2>2, <2>3, FormLoaded DEF InForms, answer, op
  <2>5. op \notin Forms
    BY <2>2 DEF Forms
  <2>6. QED
    BY <2>3, <2>4, <2>5, PlatformEnded DEF op, row
<1>5. CASE AdminSettingsSaved(i, ok)
  <2> DEFINE state == IF ok THEN "saved" ELSE "error"
             resets == ui.resets + 1
  <2>1. /\ op \in Forms /\ ui' = [ui EXCEPT !.saveState = state, !.resets = resets]
        /\ calls' = Without(i) /\ shown' = shown
    BY <1>1, <1>5 DEF AdminSettingsSaved, op, AdminSettingsUi
  <2>2. state \in {"saved", "error"} /\ resets \in Nat /\ resets > 0
    BY <1>1
  <2> HIDE DEF state, resets
  <2>3. /\ ui' \in AdminSettingsUi /\ ~ui'.refreshing /\ ui'.loading = ui.loading /\ ui'.items = ui.items
        /\ ui'.saveState # "saving" /\ ui'.resets > 0
    BY <1>1, <2>1, <2>2 DEF AdminSettingsUi
  <2>4. TabInv' /\ Rest(i, calls')
    BY <1>3, <2>1, FormEnded DEF InForms
  <2>5. Genuine(ui', shown')
    BY <1>1, <2>1, <2>3 DEF Genuine
  <2>6. op # "list"
    BY <2>1 DEF Forms
  <2>7. QED
    BY <2>3, <2>4, <2>5, <2>6, PlatformEnded DEF op
<1>6. CASE AdminSettingsToggled(i, ok)
  <2> DEFINE enabled == IF ok THEN row.tag = "on" ELSE ui.enabled
  <2>1. op = "integration" /\ ui' = [ui EXCEPT !.enabled = enabled] /\ calls' = Without(i) /\ shown' = shown
    BY <1>1, <1>6 DEF AdminSettingsToggled, op, row, AdminSettingsUi
  <2>2. enabled \in BOOLEAN
    BY <1>1 DEF AdminSettingsUi
  <2> HIDE DEF enabled
  <2>3. /\ ui' \in AdminSettingsUi /\ ~ui'.refreshing /\ ui'.loading = ui.loading /\ ui'.items = ui.items
        /\ ui'.saveState = ui.saveState /\ ui'.resets = ui.resets
    BY <1>1, <2>1, <2>2 DEF AdminSettingsUi
  <2>4. TabInv' /\ Rest(i, calls')
    BY <1>3, <2>1, FormEnded DEF InForms
  <2>5. Genuine(ui', shown')
    BY <1>1, <2>1, <2>3 DEF Genuine
  <2>6. op \notin Forms
    BY <2>1 DEF Forms
  <2>7. QED
    BY <2>1, <2>3, <2>4, <2>5, <2>6, PlatformEnded DEF op
<1>7. CASE AdminSettingsKeyCreated(i, ok)
  <2>0. op = "create" /\ shown' = shown /\ op \notin Forms
    BY <1>7 DEF AdminSettingsKeyCreated, op, Forms
  <2>1. CASE ok
    <3> DEFINE first == answer[1]
               c == [KeysCall EXCEPT !.row = first]
    <3>1. ui' = [ui EXCEPT !.keyName = Blank] /\ calls' = Append(Without(i), c)
      BY <1>7, <2>1 DEF AdminSettingsKeyCreated, answer
    <3>2. first \in AnyRow /\ first # NoRow
      BY <1>3, <2>0, <2>1
    <3> HIDE DEF first
    <3>3. c \in CallType /\ ~c.passed /\ Sound(c, shown.told, gone) /\ c.op = "list" /\ c.row # NoRow
      BY <3>2, KeysCallIs
    <3> HIDE DEF c
    <3>4. /\ TabInv'
          /\ \A o : (Has(calls, o) /\ o # op) \/ o = "list" => Has(calls', o)
          /\ Loads(calls) => Loads(calls')
      BY <2>0, <3>1, <3>3, FormFollowed DEF InForms, op
    <3>5. /\ ui' \in AdminSettingsUi /\ ~ui'.refreshing /\ ui'.loading = ui.loading /\ ui'.items = ui.items
          /\ ui'.saveState = ui.saveState /\ ui'.resets = ui.resets
      BY <1>1, <3>1 DEF AdminSettingsUi
    <3>6. Genuine(ui', shown')
      BY <1>1, <2>0, <3>5 DEF Genuine
    <3>7. AdminSettingsInv(ui', calls', shown')
      BY <1>1, <2>0, <3>4, <3>5, <3>6 DEF AdminSettingsInv, Loads
    <3>8. QED
      BY <3>4, <3>7 DEF FormsKept, FormPages
  <2>2. CASE ~ok
    <3>1. ui' = ui /\ calls' = Without(i)
      BY <1>7, <2>2 DEF AdminSettingsKeyCreated
    <3>2. TabInv' /\ Rest(i, calls')
      BY <1>3, <2>0, <3>1, FormEnded DEF InForms
    <3>3. Genuine(ui', shown')
      BY <1>1, <2>0, <3>1
    <3>4. QED
      BY <1>1, <2>0, <3>1, <3>2, <3>3, PlatformEnded DEF op
  <2>3. QED
    BY <2>1, <2>2
<1>8. CASE AdminSettingsKeyRemoved(i, ok)
  <2> DEFINE items == IF ok THEN Minus(ui.items, row.id) ELSE ui.items
  <2>1. op = "delete" /\ ui' = [ui EXCEPT !.items = items] /\ op \notin Forms
    BY <1>1, <1>8 DEF AdminSettingsKeyRemoved, op, row, AdminSettingsUi, WithoutKey, Forms
  <2>2. items \in Seq(Row)
    BY <1>1, MinusIs
  <2> HIDE DEF items
  <2>3. /\ ui' \in AdminSettingsUi /\ ~ui'.refreshing /\ ui'.loading = ui.loading /\ ui'.items = items
        /\ ui'.saveState = ui.saveState /\ ui'.resets = ui.resets
    BY <1>1, <2>1, <2>2 DEF AdminSettingsUi
  <2>4. TabInv' /\ Rest(i, calls') /\ Genuine(ui', shown')
    <3>1. CASE ok
      <4>1. calls' = Overtaken(i) /\ shown' = [shown EXCEPT !.told = @ \cup {calls[i].row.id}]
        BY <1>8, <3>1 DEF AdminSettingsKeyRemoved
      <4>2. ui'.items = Minus(ui.items, calls[i].row.id)
        BY <2>3, <3>1 DEF items, row
      <4>3. QED
        BY <1>1, <1>3, <2>1, <3>1, <4>1, <4>2, FormDeleted DEF InForms, op
    <3>2. CASE ~ok
      <4>1. calls' = Without(i) /\ shown' = shown
        BY <1>8, <3>2 DEF AdminSettingsKeyRemoved
      <4>2. TabInv' /\ Rest(i, calls')
        BY <1>3, <4>1, FormEnded DEF InForms
      <4>3. Genuine(ui', shown')
        BY <1>1, <2>3, <3>2, <4>1 DEF Genuine, items
      <4>4. QED
        BY <4>2, <4>3
    <3>3. QED
      BY <3>1, <3>2
  <2>5. QED
    BY <2>1, <2>3, <2>4, PlatformEnded DEF op
<1>9. QED
  BY <1>2, <1>4, <1>5, <1>6, <1>7, <1>8

-----------------------------------------------------------------------------
(* Governance.                                                             *)

LEMMA GovernanceIs ==
  ASSUME InForms, page = "governance"
  PROVE  /\ ui \in GovernanceUi /\ GovernanceInv(ui, calls, shown) /\ Genuine(ui, shown)
         /\ ui.items \in Seq(Row) /\ ui.form \in Tags \cup {Blank} /\ ~ui.refreshing
<1>1. GovernanceInv(ui, calls, shown)
  BY DEF InForms, FormPages
<1>2. ui \in GovernanceUi /\ Genuine(ui, shown) /\ ~ui.refreshing
  BY <1>1 DEF GovernanceInv
<1>3. QED
  BY <1>1, <1>2 DEF GovernanceUi

LEMMA GovernanceSent ==
  ASSUME InForms, page' = page, page = "governance",
         NEW c \in CallType, ~c.passed, Sound(c, shown.told, gone),
         calls' = Append(calls, c), shown' = shown,
         ui' \in GovernanceUi, ui'.items = ui.items, ~ui'.refreshing,
         ui'.loading => ui.loading \/ c.op = "list", ui'.saving => ui.saving \/ c.op = "create"
  PROVE  FormsKept
<1>1. GovernanceInv(ui, calls, shown)
  BY GovernanceIs
<1>2. /\ TabInv'
      /\ \A op : Has(calls', op) <=> Has(calls, op) \/ c.op = op
      /\ Creates(calls) \/ c.op = "create" => Creates(calls')
  BY FormSent DEF InForms
<1>3. GovernanceInv(ui', calls', shown')
  BY <1>1, <1>2 DEF GovernanceInv, Genuine
<1>4. QED
  BY <1>2, <1>3 DEF FormsKept, FormPages

\* What the user does.
LEMMA GovernanceUserStep ==
  ASSUME InForms, page' = page, page = "governance", GovernanceUser
  PROVE  FormsKept
<1>1. /\ ui \in GovernanceUi /\ GovernanceInv(ui, calls, shown) /\ ui.form \in Tags \cup {Blank}
      /\ ui.items \in Seq(Row) /\ ~ui.refreshing
  BY GovernanceIs
<1>2. NoRow \in AnyRow
  BY RowIs
<1>3. CASE GovernanceLoad
  <2> DEFINE c == RowCall("list", NoRow)
  <2>1. calls' = Append(calls, c) /\ ui' = [ui EXCEPT !.loading = TRUE] /\ shown' = shown
    BY <1>3 DEF GovernanceLoad, GovernanceCall, policyService
  <2>2. c \in CallType /\ ~c.passed /\ c.op = "list" /\ Sound(c, shown.told, gone)
    BY <1>2, RowCallIs DEF RowOperations
  <2> HIDE DEF c
  <2>3. ui' \in GovernanceUi /\ ui'.items = ui.items /\ ~ui'.refreshing /\ ui'.saving = ui.saving
    BY <1>1, <2>1 DEF GovernanceUi
  <2>4. QED
    BY <2>1, <2>2, <2>3, GovernanceSent
<1>4. CASE togglePolicy
  <2>1. PICK row \in GovernanceList(ui) :
          calls' = Append(calls, policyService("save", [row EXCEPT !.tag = IF @ = "on" THEN "off" ELSE "on"]))
    BY <1>4, Zenon DEF togglePolicy
  <2>2. row \in Row
    BY <1>1 DEF GovernanceList, Range
  <2> DEFINE tag == IF row.tag = "on" THEN "off" ELSE "on"
             turned == [row EXCEPT !.tag = IF @ = "on" THEN "off" ELSE "on"]
             c == RowCall("save", turned)
  <2>3. turned \in AnyRow
    <3>1. turned = [row EXCEPT !.tag = tag]
      BY <2>2 DEF Row
    <3>2. tag \in Tags
      BY DEF Tags
    <3> HIDE DEF tag, turned
    <3>3. QED
      BY <2>2, <3>1, <3>2 DEF Row, AnyRow, AnyId
  <2>4. calls' = Append(calls, c) /\ ui' = ui /\ shown' = shown
    BY <1>4, <2>1, Zenon DEF togglePolicy, policyService
  <2> HIDE DEF turned
  <2>5. c \in CallType /\ ~c.passed /\ c.op = "save" /\ Sound(c, shown.told, gone)
    BY <2>3, RowCallIs DEF RowOperations
  <2> HIDE DEF c
  <2>6. QED
    BY <1>1, <2>4, <2>5, GovernanceSent
<1>5. CASE GovernanceType
  <2> DEFINE Typed(v) ==
               /\ v \in GovernanceUi /\ v.items = ui.items /\ v.loading = ui.loading /\ ~v.refreshing
               /\ v.saving = ui.saving
  <2>1. calls' = calls /\ shown' = shown
    BY <1>5 DEF GovernanceType
  <2>2. Typed([ui EXCEPT !.showCreate = ~@])
    <3> DEFINE open == ~ui.showCreate
    <3>1. [ui EXCEPT !.showCreate = ~@] = [ui EXCEPT !.showCreate = open] /\ open \in BOOLEAN
      BY <1>1 DEF GovernanceUi
    <3> HIDE DEF open
    <3>2. Typed([ui EXCEPT !.showCreate = open])
      BY <1>1, <3>1 DEF GovernanceUi
    <3> HIDE DEF Typed
    <3>3. QED
      BY <3>1, <3>2, Zenon
  <2>3. Typed([ui EXCEPT !.form = IF @ = Blank THEN "on" ELSE Blank])
    <3> DEFINE name == IF ui.form = Blank THEN "on" ELSE Blank
    <3>1. name \in Tags \cup {Blank}
      BY DEF Tags
    <3>2. [ui EXCEPT !.form = IF @ = Blank THEN "on" ELSE Blank] = [ui EXCEPT !.form = name]
      BY <1>1 DEF GovernanceUi
    <3> HIDE DEF name
    <3>3. Typed([ui EXCEPT !.form = name])
      BY <1>1, <3>1 DEF GovernanceUi
    <3> HIDE DEF Typed
    <3>4. QED
      BY <3>2, <3>3, Zenon
  <2> HIDE DEF Typed
  <2>4. Typed(ui')
    BY <1>5, <2>2, <2>3, Zenon DEF GovernanceType
  <2>5. GovernanceInv(ui', calls', shown')
    BY <1>1, <2>1, <2>4 DEF GovernanceInv, Genuine, Typed
  <2>6. TabInv'
    BY <2>1, FormTypes, TabIs, TabKept DEF InForms, InTab
  <2>7. QED
    BY <2>5, <2>6 DEF FormsKept, FormPages
<1>6. CASE createPolicy
  <2> DEFINE row == [NoRow EXCEPT !.tag = ui.form]
             c == RowCall("create", row)
  <2>1. calls' = Append(calls, c) /\ ui' = [ui EXCEPT !.saving = TRUE] /\ shown' = shown /\ ui.form # Blank
    BY <1>6 DEF createPolicy, policyService
  <2>2. row \in AnyRow /\ row.tag \in Tags
    BY <1>1, <1>2, <2>1 DEF AnyRow
  <2> HIDE DEF row
  <2>3. c \in CallType /\ ~c.passed /\ c.op = "create" /\ Sound(c, shown.told, gone)
    BY <2>2, RowCallIs DEF RowOperations
  <2> HIDE DEF c
  <2>4. ui' \in GovernanceUi /\ ui'.items = ui.items /\ ~ui'.refreshing /\ ui'.loading = ui.loading
    BY <1>1, <2>1 DEF GovernanceUi
  <2>5. QED
    BY <2>1, <2>3, <2>4, GovernanceSent
<1>7. QED
  BY <1>3, <1>4, <1>5, <1>6, Zenon DEF GovernanceUser

\* What the server says.
LEMMA GovernanceAnswerStep ==
  ASSUME InForms, page' = page, page = "governance", GovernanceAnswer
  PROVE  FormsKept
<1>1. /\ ui \in GovernanceUi /\ GovernanceInv(ui, calls, shown) /\ Genuine(ui, shown)
      /\ ui.items \in Seq(Row) /\ ~ui.refreshing
  BY GovernanceIs
<1>2. PICK i \in DOMAIN calls, ok \in BOOLEAN :
        Ends(i, ok) /\ (GovernanceLoaded(i, ok) \/ GovernanceToggled(i, ok) \/ GovernanceCreated(i, ok))
  BY DEF GovernanceAnswer
<1> DEFINE answer == calls[i].answer
           op == calls[i].op
           row == calls[i].row
<1>3. /\ shown \in ShownType /\ (ok => calls[i].done /\ calls[i].ok) /\ answer \in Seq(Row)
      /\ op = "create" /\ ok => answer[1] \in AnyRow /\ answer[1] # NoRow
  BY <1>2, FormTypes
<1> HIDE DEF answer, op, row
<1>4. /\ \A o : Has(calls, o) /\ o # op /\ Rest(i, calls') => Has(calls', o)
      /\ Creates(calls) /\ op # "create" /\ (op = "list" => row = NoRow) /\ Rest(i, calls') => Creates(calls')
  BY FormRest DEF InForms, op, row
<1>5. CASE GovernanceLoaded(i, ok)
  <2> DEFINE items == IF ok THEN answer ELSE ui.items
             saving == ui.saving /\ row = NoRow
  <2>1. op = "list" /\ calls' = Passing(i) /\ KeysShown(i, ok)
    BY <1>5, Zenon DEF GovernanceLoaded, KeysShown, op
  <2>2. ui' = [ui EXCEPT !.items = items, !.loading = FALSE, !.saving = saving]
    BY <1>1, <1>5 DEF GovernanceLoaded, answer, row, GovernanceUi
  <2>3. items \in Seq(Row) /\ saving \in BOOLEAN /\ (saving => ui.saving /\ row = NoRow)
    BY <1>1, <1>3 DEF GovernanceUi
  <2>4. items = IF ok THEN answer ELSE ui.items
    OBVIOUS
  <2> HIDE DEF items, saving
  <2>5. /\ ui' \in GovernanceUi /\ ~ui'.refreshing /\ ui'.items = items /\ ~ui'.loading
        /\ ui'.saving = saving
    BY <1>1, <2>2, <2>3 DEF GovernanceUi
  <2>6. TabInv' /\ Rest(i, calls') /\ Genuine(ui', shown')
    BY <1>1, <1>3, <2>1, <2>4, <2>5, FormLoaded DEF InForms, answer, op
  <2>7. GovernanceInv(ui', calls', shown')
    BY <1>1, <1>4, <2>1, <2>3, <2>5, <2>6 DEF GovernanceInv
  <2>8. QED
    BY <2>6, <2>7 DEF FormsKept, FormPages
<1>6. CASE GovernanceToggled(i, ok)
  <2>0. op = "save" /\ shown' = shown
    BY <1>6 DEF GovernanceToggled, op
  <2>1. CASE ok
    <3> DEFINE c == RowCall("list", NoRow)
    <3>1. ui' = [ui EXCEPT !.loading = TRUE] /\ calls' = Append(Without(i), c)
      BY <1>6, <2>1 DEF GovernanceToggled, GovernanceCall, policyService
    <3>2. c \in CallType /\ ~c.passed /\ Sound(c, shown.told, gone) /\ c.op = "list"
      BY RowCallIs, RowIs DEF RowOperations
    <3> HIDE DEF c
    <3>3. /\ TabInv'
          /\ \A o : (Has(calls, o) /\ o # op) \/ o = "list" => Has(calls', o)
          /\ Creates(calls) => Creates(calls')
      BY <2>0, <3>1, <3>2, FormFollowed DEF InForms, op
    <3>4. ui' \in GovernanceUi /\ ~ui'.refreshing /\ ui'.items = ui.items /\ ui'.saving = ui.saving
      BY <1>1, <3>1 DEF GovernanceUi
    <3>5. GovernanceInv(ui', calls', shown')
      BY <1>1, <2>0, <3>3, <3>4 DEF GovernanceInv, Genuine
    <3>6. QED
      BY <3>3, <3>5 DEF FormsKept, FormPages
  <2>2. CASE ~ok
    <3>1. ui' = ui /\ calls' = Without(i)
      BY <1>6, <2>2 DEF GovernanceToggled
    <3>2. TabInv' /\ Rest(i, calls')
      BY <1>3, <2>0, <3>1, FormEnded DEF InForms
    <3>3. GovernanceInv(ui', calls', shown')
      BY <1>1, <1>4, <2>0, <3>1, <3>2 DEF GovernanceInv
    <3>4. QED
      BY <3>2, <3>3 DEF FormsKept, FormPages
  <2>3. QED
    BY <2>1, <2>2
<1>7. CASE GovernanceCreated(i, ok)
  <2>0. op = "create" /\ shown' = shown
    BY <1>7 DEF GovernanceCreated, op
  <2>1. CASE ok
    <3> DEFINE first == answer[1]
               c == RowCall("list", first)
    <3>1. ui' = [ui EXCEPT !.form = Blank, !.showCreate = FALSE, !.loading = TRUE]
          /\ calls' = Append(Without(i), c)
      BY <1>7, <2>1 DEF GovernanceCreated, GovernanceCall, policyService, answer
    <3>2. first \in AnyRow /\ first # NoRow
      BY <1>3, <2>0, <2>1
    <3> HIDE DEF first
    <3>3. c \in CallType /\ ~c.passed /\ Sound(c, shown.told, gone) /\ c.op = "list" /\ c.row # NoRow
      BY <3>2, RowCallIs DEF RowOperations
    <3> HIDE DEF c
    <3>4. /\ TabInv'
          /\ \A o : (Has(calls, o) /\ o # op) \/ o = "list" => Has(calls', o)
          /\ Creates(calls')
      BY <2>0, <3>1, <3>3, FormFollowed DEF InForms, op
    <3>5. ui' \in GovernanceUi /\ ~ui'.refreshing /\ ui'.items = ui.items
      BY <1>1, <3>1 DEF GovernanceUi
    <3>6. GovernanceInv(ui', calls', shown')
      BY <1>1, <2>0, <3>4, <3>5 DEF GovernanceInv, Genuine
    <3>7. QED
      BY <3>4, <3>6 DEF FormsKept, FormPages
  <2>2. CASE ~ok
    <3>1. ui' = [ui EXCEPT !.saving = FALSE] /\ calls' = Without(i)
      BY <1>7, <2>2 DEF GovernanceCreated
    <3>2. TabInv' /\ Rest(i, calls')
      BY <1>3, <2>0, <3>1, FormEnded DEF InForms
    <3>3. /\ ui' \in GovernanceUi /\ ~ui'.refreshing /\ ui'.items = ui.items /\ ui'.loading = ui.loading
          /\ ~ui'.saving
      BY <1>1, <3>1 DEF GovernanceUi
    <3>4. GovernanceInv(ui', calls', shown')
      BY <1>1, <1>4, <2>0, <3>2, <3>3 DEF GovernanceInv, Genuine
    <3>5. QED
      BY <3>2, <3>4 DEF FormsKept, FormPages
  <2>3. QED
    BY <2>1, <2>2
<1>8. QED
  BY <1>2, <1>5, <1>6, <1>7

-----------------------------------------------------------------------------
(* The landing page: its widgets ask no server.                            *)

\* The prompt that is typed is that of the phase.
LEMMA HeroStep ==
  ASSUME HeroInv(ui), HeroPhase \/ HeroDelay \/ HeroKey
  PROVE  HeroInv(ui')
<1> DEFINE none == {}
           empty == <<>>
<1>1. /\ ui \in [phase : 1 .. 4, delay : BOOLEAN, typing : SUBSET BOOLEAN,
                 displayed : Seq(BOOLEAN \X Nat), at : 0 .. TextLength]
      /\ ui.typing \subseteq {Risky(ui)} /\ Len(ui.displayed) = ui.at
      /\ \A i \in DOMAIN ui.displayed : ui.displayed[i][1] = Risky(ui)
  BY DEF HeroInv
<1>2. Risky(ui) \in BOOLEAN /\ none \in SUBSET BOOLEAN /\ empty \in Seq(BOOLEAN \X Nat) /\ Len(empty) = 0
      /\ DOMAIN empty = {} /\ 0 \in 0 .. TextLength
  BY DEF Risky, TextLength
<1>3. CASE HeroPhase
  <2> DEFINE phase == 1 + (ui.phase % 4)
             u == [ui EXCEPT !.phase = 1 + (@ % Len(PhaseSequence))]
  <2>1. phase \in 1 .. 4
    BY <1>1
  <2>2. u = [ui EXCEPT !.phase = phase]
    BY <1>1 DEF PhaseSequence
  <2>3. ui' = IF Risky(u) = Risky(ui) THEN u ELSE Retype(u)
    BY <1>3 DEF HeroPhase
  <2> HIDE DEF phase, u
  <2>4. /\ u \in [phase : 1 .. 4, delay : BOOLEAN, typing : SUBSET BOOLEAN,
                  displayed : Seq(BOOLEAN \X Nat), at : 0 .. TextLength]
        /\ u.typing = ui.typing /\ u.displayed = ui.displayed /\ u.at = ui.at
    BY <1>1, <2>1, <2>2
  <2>5. CASE Risky(u) = Risky(ui)
    BY <1>1, <2>3, <2>4, <2>5 DEF HeroInv
  <2>6. CASE Risky(u) # Risky(ui)
    <3>1. ui' = [u EXCEPT !.displayed = empty, !.at = 0, !.delay = TRUE, !.typing = none]
      BY <2>3, <2>6 DEF Retype
    <3> HIDE DEF empty, none
    <3>2. /\ ui' \in [phase : 1 .. 4, delay : BOOLEAN, typing : SUBSET BOOLEAN,
                      displayed : Seq(BOOLEAN \X Nat), at : 0 .. TextLength]
          /\ ui'.typing = none /\ ui'.displayed = empty /\ ui'.at = 0
      BY <1>2, <2>4, <3>1
    <3>3. QED
      BY <1>2, <3>2 DEF HeroInv, none
  <2>7. QED
    BY <2>5, <2>6
<1>4. CASE HeroDelay
  <2> DEFINE typing == ui.typing \cup {Risky(ui)}
  <2>1. ui' = [ui EXCEPT !.delay = FALSE, !.typing = typing]
    BY <1>1, <1>4 DEF HeroDelay
  <2>2. typing \in SUBSET BOOLEAN /\ typing \subseteq {Risky(ui)}
    BY <1>1, <1>2
  <2> HIDE DEF typing
  <2>3. /\ ui' \in [phase : 1 .. 4, delay : BOOLEAN, typing : SUBSET BOOLEAN,
                    displayed : Seq(BOOLEAN \X Nat), at : 0 .. TextLength]
        /\ ui'.typing = typing /\ ui'.displayed = ui.displayed /\ ui'.at = ui.at /\ ui'.phase = ui.phase
    BY <1>1, <2>1, <2>2
  <2>4. Risky(ui') = Risky(ui)
    BY <2>3 DEF Risky, Phase
  <2>5. QED
    BY <1>1, <2>2, <2>3, <2>4 DEF HeroInv
<1>5. CASE HeroKey
  <2>1. PICK text \in ui.typing, ahead \in {0, 1} :
          ui' = IF ui.at < TextLength
                  THEN [ui EXCEPT !.displayed = Append(@, <<text, ui.at + ahead>>), !.at = @ + 1]
                  ELSE [ui EXCEPT !.typing = {}]
    BY <1>5, Zenon DEF HeroKey
  <2>2. CASE ui.at < TextLength
    <3> DEFINE key == <<text, ui.at + ahead>>
               displayed == Append(ui.displayed, key)
               at == ui.at + 1
    <3>1. ui' = [ui EXCEPT !.displayed = displayed, !.at = at]
      BY <1>1, <2>1, <2>2
    <3>2. at \in 0 .. TextLength
      BY <1>1, <2>2 DEF TextLength
    <3>3. text = Risky(ui)
      BY <1>1
    <3>4. key \in BOOLEAN \X Nat /\ key[1] = text
      BY <1>1, <1>2, <3>3 DEF TextLength
    <3> HIDE DEF key
    <3>5. /\ displayed \in Seq(BOOLEAN \X Nat) /\ Len(displayed) = at
          /\ \A i \in DOMAIN displayed : displayed[i][1] = Risky(ui)
      <4> DEFINE seq == ui.displayed
      <4>1. seq \in Seq(BOOLEAN \X Nat) /\ Len(seq) = ui.at /\ \A i \in DOMAIN seq : seq[i][1] = Risky(ui)
        BY <1>1
      <4> HIDE DEF seq
      <4>2. /\ Append(seq, key) \in Seq(BOOLEAN \X Nat) /\ Len(Append(seq, key)) = Len(seq) + 1
            /\ \A i \in 1 .. Len(seq) : Append(seq, key)[i] = seq[i]
            /\ Append(seq, key)[Len(seq) + 1] = key
        BY <3>4, <4>1, AppendProperties
      <4>3. \A i \in 1 .. Len(seq) + 1 : Append(seq, key)[i][1] = Risky(ui)
        BY <3>3, <3>4, <4>1, <4>2
      <4>4. QED
        BY <4>1, <4>2, <4>3 DEF seq
    <3> HIDE DEF displayed, at
    <3>6. /\ ui' \in [phase : 1 .. 4, delay : BOOLEAN, typing : SUBSET BOOLEAN,
                      displayed : Seq(BOOLEAN \X Nat), at : 0 .. TextLength]
          /\ ui'.typing = ui.typing /\ ui'.displayed = displayed /\ ui'.at = at /\ ui'.phase = ui.phase
      BY <1>1, <3>1, <3>2, <3>5
    <3>7. Risky(ui') = Risky(ui)
      BY <3>6 DEF Risky, Phase
    <3>8. QED
      BY <1>1, <3>5, <3>6, <3>7 DEF HeroInv
  <2>3. CASE ~(ui.at < TextLength)
    <3>1. ui' = [ui EXCEPT !.typing = none]
      BY <2>1, <2>3
    <3> HIDE DEF none
    <3>2. /\ ui' \in [phase : 1 .. 4, delay : BOOLEAN, typing : SUBSET BOOLEAN,
                      displayed : Seq(BOOLEAN \X Nat), at : 0 .. TextLength]
          /\ ui'.typing = none /\ ui'.displayed = ui.displayed /\ ui'.at = ui.at /\ ui'.phase = ui.phase
      BY <1>1, <1>2, <3>1
    <3>3. Risky(ui') = Risky(ui)
      BY <3>2 DEF Risky, Phase
    <3>4. QED
      BY <1>1, <3>2, <3>3 DEF HeroInv, none
  <2>4. QED
    BY <2>2, <2>3
<1>6. QED
  BY <1>3, <1>4, <1>5

LEMMA HowStep ==
  ASSUME HowInv(ui), HowTick \/ HowClick \/ HowResize
  PROVE  HowInv(ui')
<1>1. ui \in [step : Steps, intervals : {1}, narrow : BOOLEAN]
  BY DEF HowInv
<1>2. ASSUME NEW u \in [step : Steps, intervals : {1}, narrow : BOOLEAN], NEW n \in Steps
      PROVE  [u EXCEPT !.step = n] \in [step : Steps, intervals : {1}, narrow : BOOLEAN]
  OBVIOUS
<1>3. CASE HowTick
  <2> DEFINE n == (ui.step + 1) % 6
  <2>1. ui' = [ui EXCEPT !.step = n]
    BY <1>1, <1>3 DEF HowTick
  <2>2. n \in Steps
    BY <1>1 DEF Steps
  <2> HIDE DEF n
  <2>3. QED
    BY <1>1, <1>2, <2>1, <2>2 DEF HowInv
<1>4. CASE HowClick
  <2>1. PICK i \in Steps : ui' = startAutoPlay([ui EXCEPT !.step = i])
    BY <1>4, Zenon DEF HowClick
  <2> DEFINE u == [ui EXCEPT !.step = i]
  <2>2. u \in [step : Steps, intervals : {1}, narrow : BOOLEAN] /\ ui' = [u EXCEPT !.intervals = 1]
    BY <1>1, <2>1 DEF startAutoPlay
  <2> HIDE DEF u
  <2>3. QED
    BY <2>2 DEF HowInv
<1>5. CASE HowResize
  <2> DEFINE narrow == ~ui.narrow
  <2>1. ui' = [ui EXCEPT !.narrow = narrow] /\ narrow \in BOOLEAN
    BY <1>1, <1>5 DEF HowResize
  <2> HIDE DEF narrow
  <2>2. QED
    BY <1>1, <2>1 DEF HowInv
<1>6. QED
  BY <1>3, <1>4, <1>5

\* A time-out has ended long before the interval starts the next.
LEMMA ArchitectureStep ==
  ASSUME ArchitectureInv(ui), ArchitectureTick
  PROVE  ArchitectureInv(ui')
<1> DEFINE elapsed == Elapsed(ui)
           blocked == (ui.blocked /\ 0 \notin elapsed) \/ ui.next = 1
           pending == (elapsed \ {0}) \cup (IF ui.next = 1 THEN {28} ELSE {})
           next == IF ui.next = 1 THEN 55 ELSE ui.next - 1
<1>1. /\ ui.blocked \in BOOLEAN /\ ui.next \in 1 .. 55
      /\ ui.pending = IF ui.blocked THEN {ui.next - 27} ELSE {}
      /\ ui.blocked => ui.next >= 28
  BY DEF ArchitectureInv
<1>2. elapsed = IF ui.blocked THEN {ui.next - 28} ELSE {}
  <2>1. CASE ui.blocked
    <3>1. ui.pending = {ui.next - 27} /\ ui.next - 27 - 1 = ui.next - 28
      BY <1>1, <2>1
    <3>2. QED
      BY <2>1, <3>1 DEF Elapsed
  <2>2. CASE ~ui.blocked
    BY <1>1, <2>2 DEF Elapsed
  <2>3. QED
    BY <2>1, <2>2
<1>3. ui' = [blocked |-> blocked, pending |-> pending, next |-> next]
  BY Zenon DEF ArchitectureTick
<1> HIDE DEF elapsed
<1>4. /\ blocked \in BOOLEAN /\ next \in 1 .. 55
      /\ pending = IF blocked THEN {next - 27} ELSE {}
      /\ blocked => next >= 28
  <2>1. CASE ui.next = 1
    <3>1. ~ui.blocked /\ elapsed = {} /\ blocked /\ next = 55
      BY <1>1, <1>2, <2>1
    <3>2. pending = {28}
      BY <2>1, <3>1
    <3>3. QED
      BY <3>1, <3>2
  <2>2. CASE ui.next # 1 /\ ui.blocked
    <3>1. elapsed = {ui.next - 28} /\ next = ui.next - 1 /\ pending = elapsed \ {0}
      BY <1>2, <2>2
    <3>2. CASE ui.next = 28
      BY <1>1, <2>2, <3>1, <3>2
    <3>3. CASE ui.next # 28
      BY <1>1, <2>2, <3>1, <3>3
    <3>4. QED
      BY <3>2, <3>3
  <2>3. CASE ui.next # 1 /\ ~ui.blocked
    BY <1>1, <1>2, <2>3
  <2>4. QED
    BY <2>1, <2>2, <2>3
<1>5. pending \in SUBSET Nat
  BY <1>4
<1> HIDE DEF blocked, pending, next
<1>6. QED
  BY <1>3, <1>4, <1>5 DEF ArchitectureInv

LEMMA DecisionStep ==
  ASSUME DecisionInv(ui), DecisionTick
  PROVE  DecisionInv(ui')
<1> DEFINE elapsed == Elapsed(ui)
           ends == 0 \in elapsed
           scanning == (ui.scanning /\ ~ends) \/ ui.next = 1
           decision == IF ~ends THEN ui.decision ELSE IF ui.decision = "allowed" THEN "blocked" ELSE "allowed"
           pending == (elapsed \ {0}) \cup (IF ui.next = 1 THEN {9} ELSE {})
           next == IF ui.next = 1 THEN 28 ELSE ui.next - 1
<1>1. /\ ui.scanning \in BOOLEAN /\ ui.next \in 1 .. 28 /\ ui.decision \in {"allowed", "blocked"}
      /\ ui.pending = IF ui.scanning THEN {ui.next - 19} ELSE {}
      /\ ui.scanning => ui.next >= 20
  BY DEF DecisionInv
<1>2. elapsed = IF ui.scanning THEN {ui.next - 20} ELSE {}
  <2>1. CASE ui.scanning
    <3>1. ui.pending = {ui.next - 19} /\ ui.next - 19 - 1 = ui.next - 20
      BY <1>1, <2>1
    <3>2. QED
      BY <2>1, <3>1 DEF Elapsed
  <2>2. CASE ~ui.scanning
    BY <1>1, <2>2 DEF Elapsed
  <2>3. QED
    BY <2>1, <2>2
<1>3. ui' = [scanning |-> scanning, decision |-> decision, pending |-> pending, next |-> next]
  BY Zenon DEF DecisionTick
<1> HIDE DEF elapsed
<1>4. /\ scanning \in BOOLEAN /\ next \in 1 .. 28
      /\ pending = IF scanning THEN {next - 19} ELSE {}
      /\ scanning => next >= 20
  <2>1. CASE ui.next = 1
    <3>1. ~ui.scanning /\ elapsed = {} /\ scanning /\ next = 28
      BY <1>1, <1>2, <2>1
    <3>2. pending = {9}
      BY <2>1, <3>1
    <3>3. QED
      BY <3>1, <3>2
  <2>2. CASE ui.next # 1 /\ ui.scanning
    <3>1. elapsed = {ui.next - 20} /\ next = ui.next - 1 /\ pending = elapsed \ {0}
      BY <1>2, <2>2
    <3>2. CASE ui.next = 20
      BY <1>1, <2>2, <3>1, <3>2
    <3>3. CASE ui.next # 20
      BY <1>1, <2>2, <3>1, <3>3
    <3>4. QED
      BY <3>2, <3>3
  <2>3. CASE ui.next # 1 /\ ~ui.scanning
    BY <1>1, <1>2, <2>3
  <2>4. QED
    BY <2>1, <2>2, <2>3
<1>5. pending \in SUBSET Nat /\ decision \in {"allowed", "blocked"}
  BY <1>1, <1>4
<1> HIDE DEF scanning, pending, next, decision
<1>6. QED
  BY <1>3, <1>4, <1>5 DEF DecisionInv

LEMMA NavigationStep ==
  ASSUME NavigationInv(ui), NavLink \/ NavigationResize \/ NavigationClick \/ AccessSubmit
  PROVE  NavigationInv(ui')
<1> DEFINE Type == [mobile : BOOLEAN, open : BOOLEAN, over : 0 .. 4, email : BOOLEAN, submitted : BOOLEAN]
<1>1. ui \in Type /\ (ui.open => ui.mobile) /\ (ui.over # 0 => ~ui.mobile)
  BY DEF NavigationInv
<1>2. CASE NavLink
  <2>1. ~ui.mobile /\ \E link \in 0 .. 4 : ui' = [ui EXCEPT !.over = link]
    BY <1>2 DEF NavLink, NavigationBar
  <2>2. QED
    BY <1>1, <2>1 DEF NavigationInv
<1>3. CASE NavigationResize
  <2> DEFINE mobile == ~ui.mobile
             open == ui.open /\ ~ui.mobile
  <2>1. ui' = [ui EXCEPT !.mobile = mobile, !.open = open, !.over = 0]
    BY <1>1, <1>3 DEF NavigationResize
  <2>2. mobile \in BOOLEAN /\ open \in BOOLEAN /\ ~open
    BY <1>1
  <2> HIDE DEF mobile, open
  <2>3. 0 \in 0 .. 4
    OBVIOUS
  <2>4. ui' \in Type /\ ui'.over = 0 /\ ui'.open = open
    BY <1>1, <2>1, <2>2, <2>3
  <2>5. QED
    BY <2>2, <2>4 DEF NavigationInv
<1>4. CASE NavigationClick
  <2> DEFINE open == IF "menu" \in NavigationBar(ui) /\ ui' = [ui EXCEPT !.open = ~@] THEN ~ui.open ELSE FALSE
  <2>1. ui' = [ui EXCEPT !.open = open] /\ open \in BOOLEAN /\ (open => ui.mobile)
    BY <1>1, <1>4 DEF NavigationClick, NavigationBar, NavigationMenu
  <2> HIDE DEF open
  <2>2. QED
    BY <1>1, <2>1 DEF NavigationInv
<1>5. CASE AccessSubmit
  <2>1. CASE ui' = [ui EXCEPT !.email = ~@]
    <3> DEFINE email == ~ui.email
    <3>1. ui' = [ui EXCEPT !.email = email] /\ email \in BOOLEAN
      BY <1>1, <2>1
    <3> HIDE DEF email
    <3>2. QED
      BY <1>1, <3>1 DEF NavigationInv
  <2>2. CASE ui' = [ui EXCEPT !.submitted = TRUE]
    BY <1>1, <2>2 DEF NavigationInv
  <2>3. QED
    BY <1>5, <2>1, <2>2 DEF AccessSubmit
<1>6. QED
  BY <1>2, <1>3, <1>4, <1>5

LEMMA DemosStep ==
  ASSUME DemosInv(ui), navigateToDemoHub \/ AnimatedCard
  PROVE  DemosInv(ui')
<1>1. PICK at \in DEMO_CARDS \cup {"/demos"} : ui' = Document(at)
  BY Zenon DEF navigateToDemoHub, AnimatedCard
<1> DEFINE u == [at |-> at, overflow |-> "visible", original |-> "visible"]
<1>2. CASE at = "/demos"
  <2>1. ui' = [at |-> at, overflow |-> "hidden", original |-> "visible"]
    BY <1>1, <1>2 DEF Document, DemoShowcasePage
  <2>2. QED
    BY <1>2, <2>1 DEF DemosInv
<1>3. CASE at # "/demos"
  <2>1. ui' = u
    BY <1>1, <1>3 DEF Document
  <2>2. QED
    BY <1>3, <2>1 DEF DemosInv
<1>4. QED
  BY <1>2, <1>3

\* The last seven of eight and a new one.
Slid(seq, x) == Append(SubSeq(seq, Len(seq) - 6, Len(seq)), x)

LEMMA LastSeven ==
  ASSUME NEW S, NEW seq \in Seq(S), Len(seq) = 8, NEW x \in S
  PROVE  /\ Slid(seq, x) \in Seq(S) /\ Len(Slid(seq, x)) = 8 /\ Slid(seq, x)[8] = x
         /\ \A k \in 1 .. 7 : Slid(seq, x)[k] = seq[k + 1] /\ seq[k + 1] \in S
<1> DEFINE part == SubSeq(seq, 2, 8)
           new == Slid(seq, x)
<1>1. new = Append(part, x)
  BY DEF Slid
<1> HIDE DEF new
<1>2. part \in Seq(S) /\ Len(part) = 7 /\ \A k \in 1 .. 7 : part[k] = seq[k + 1]
  <2>1. 2 \in Int /\ 8 \in Int /\ \A i \in 2 .. 8 : seq[i] \in S
    <3>1. \A i \in 2 .. 8 : i \in 1 .. Len(seq)
      OBVIOUS
    <3>2. \A i \in 1 .. Len(seq) : seq[i] \in S
      BY ElementOfSeq
    <3>3. QED
      BY <3>1, <3>2
  <2>2. part \in Seq(S) /\ Len(part) = 7 /\ \A k \in 1 .. 7 : part[k] = seq[2 + k - 1]
    BY <2>1, SubSeqProperties
  <2> HIDE DEF part
  <2>3. \A k \in 1 .. 7 : 2 + k - 1 = k + 1
    OBVIOUS
  <2>4. QED
    BY <2>2, <2>3
<1> HIDE DEF part
<1>3. /\ new \in Seq(S) /\ Len(new) = 8 /\ new[8] = x
      /\ \A k \in 1 .. 7 : new[k] = part[k]
  <2>1. part \in Seq(S)
    BY <1>2
  <2>2. /\ Append(part, x) \in Seq(S) /\ Len(Append(part, x)) = Len(part) + 1
        /\ \A k \in 1 .. Len(part) : Append(part, x)[k] = part[k]
        /\ Append(part, x)[Len(part) + 1] = x
    BY <2>1, AppendProperties
  <2>3. QED
    BY <1>1, <1>2, <2>2
<1>4. \A k \in 1 .. 7 : seq[k + 1] \in S
  <2>1. \A n \in 1 .. Len(seq) : seq[n] \in S
    BY ElementOfSeq
  <2>2. \A k \in 1 .. 7 : k + 1 \in 1 .. Len(seq)
    OBVIOUS
  <2>3. QED
    BY <2>1, <2>2
<1>5. QED
  BY <1>2, <1>3, <1>4 DEF new

Event == [id : Nat, status : {"blocked", "flagged", "allowed"}]

\* An event gets a key of its own, and the oldest goes.
LEMMA FeedStep ==
  ASSUME FeedInv(ui), FeedTick \/ RiskTick
  PROVE  FeedInv(ui')
<1> DEFINE Type == [events : Seq(Event), counter : Nat, incoming : Nat, total : Nat, blocked : Nat,
                    risks : Seq(Nat), nextRisk : Nat]
<1>1. /\ ui \in Type
      /\ Len(ui.events) <= 6 /\ Distinct(ui.events) /\ \A i \in DOMAIN ui.events : ui.events[i].id <= ui.counter
      /\ Len(ui.risks) = 8 /\ IsInjective(ui.risks) /\ \A i \in DOMAIN ui.risks : ui.risks[i] < ui.nextRisk
      /\ ui.blocked >= 6
  BY DEF FeedInv, Event
<1>2. CASE FeedTick
  <2> DEFINE status == INCOMING[1 + (ui.incoming % Len(INCOMING))]
             new == [id |-> ui.counter + 1, status |-> status]
             old == ui.events
             events == <<new>> \o old
             n == IF Len(events) < 6 THEN Len(events) ELSE 6
             part == SubSeq(events, 1, n)
             blocked == IF status = "blocked" THEN ui.blocked + 1 ELSE ui.blocked
             counter == ui.counter + 1
             incoming == ui.incoming + 1
             total == ui.total + 1
  <2>1. ui' = [ui EXCEPT !.events = part, !.counter = counter, !.incoming = incoming, !.total = total,
                         !.blocked = blocked]
    BY <1>1, <1>2 DEF FeedTick
  <2>2. blocked \in Nat /\ blocked >= 6 /\ counter \in Nat /\ incoming \in Nat /\ total \in Nat
    BY <1>1
  <2>3. status \in {"blocked", "flagged", "allowed"}
    <3>1. Len(INCOMING) = 6 /\ ui.incoming \in Nat
      BY <1>1 DEF INCOMING
    <3>2. 1 + (ui.incoming % 6) \in 1 .. 6
      BY <3>1
    <3>3. \A k \in 1 .. 6 : INCOMING[k] \in {"blocked", "flagged", "allowed"}
      BY DEF INCOMING
    <3>4. QED
      BY <3>1, <3>2, <3>3
  <2>4. /\ old \in Seq(Event) /\ Len(old) \in Nat /\ Distinct(old) /\ counter \in Nat
        /\ \A i \in DOMAIN old : old[i].id < counter /\ old[i].id \in Nat
    <3>1. \A i \in DOMAIN old : old[i] \in Event
      BY <1>1
    <3>2. \A i \in DOMAIN old : old[i].id \in Nat /\ old[i].id <= ui.counter /\ ui.counter \in Nat
      BY <1>1, <3>1 DEF Event
    <3>3. old \in Seq(Event) /\ Distinct(old)
      BY <1>1
    <3>4. Len(old) \in Nat
      BY <3>3
    <3>5. ui.counter \in Nat
      BY <1>1
    <3> HIDE DEF old
    <3>6. counter \in Nat /\ \A m \in Nat : m <= ui.counter => m < counter
      BY <3>5
    <3> HIDE DEF counter
    <3>7. QED
      BY <3>2, <3>3, <3>4, <3>6 DEF old
  <2> HIDE DEF status
  <2>5. new \in Event /\ new.id = counter
    BY <2>2, <2>3 DEF Event
  <2> HIDE DEF new, old, counter
  <2>6. /\ events \in Seq(Event) /\ Len(events) = Len(old) + 1 /\ events[1] = new
        /\ \A i \in 1 .. Len(old) : events[i + 1] = old[i]
    <3>1. <<new>> \in Seq(Event) /\ Len(<<new>>) = 1 /\ <<new>>[1] = new
      BY <2>5
    <3>2. /\ events \in Seq(Event) /\ Len(events) = Len(<<new>>) + Len(old)
          /\ \A i \in 1 .. Len(<<new>>) : events[i] = <<new>>[i]
          /\ \A i \in 1 .. Len(old) : events[Len(<<new>>) + i] = old[i]
      BY <2>4, <3>1, ConcatProperties
    <3> HIDE DEF events
    <3>3. QED
      BY <2>4, <3>1, <3>2
  <2> HIDE DEF events
  <2>7. ASSUME NEW i \in DOMAIN events
        PROVE  \/ i = 1 /\ events[i].id = counter
               \/ i - 1 \in DOMAIN old /\ events[i] = old[i - 1] /\ events[i].id < counter /\ events[i].id \in Nat
    <3>1. i \in 1 .. Len(old) + 1 /\ DOMAIN old = 1 .. Len(old)
      BY <2>4, <2>6
    <3>2. CASE i = 1
      BY <2>5, <2>6, <3>2
    <3>3. CASE i # 1
      <4>1. i - 1 \in 1 .. Len(old) /\ i - 1 + 1 = i
        BY <2>4, <3>1, <3>3
      <4>2. events[i] = old[i - 1]
        BY <2>6, <4>1
      <4>3. QED
        BY <2>4, <3>1, <4>1, <4>2
    <3>4. QED
      BY <3>2, <3>3
  <2>8. Distinct(events)
    <3>1. ASSUME NEW i \in DOMAIN events, NEW j \in DOMAIN events, events[i].id = events[j].id PROVE i = j
      <4>1. i \in Nat /\ j \in Nat
        BY <2>6
      <4>2. CASE i = 1 \/ j = 1
        BY <2>4, <2>7, <3>1, <4>1, <4>2
      <4>3. CASE i # 1 /\ j # 1
        <5>1. i - 1 \in DOMAIN old /\ events[i] = old[i - 1] /\ j - 1 \in DOMAIN old /\ events[j] = old[j - 1]
          BY <2>7, <4>3
        <5>2. i - 1 = j - 1
          BY <2>4, <3>1, <5>1 DEF Distinct
        <5>3. QED
          BY <4>1, <5>2
      <4>4. QED
        BY <4>2, <4>3
    <3>2. QED
      BY <3>1 DEF Distinct
  <2>9. \A id \in IdsOf(events) : id <= counter
    BY <2>4, <2>7 DEF IdsOf
  <2>10. n \in Nat /\ n <= Len(events) /\ n <= 6 /\ 1 \in Nat \ {0}
    BY <2>4, <2>6
  <2> HIDE DEF n
  <2>11. part \in Seq(Event) /\ Distinct(part) /\ IdsOf(part) \subseteq IdsOf(events) /\ Len(part) <= 6
    <3>1. /\ part \in Seq(Event) /\ Distinct(part) /\ IdsOf(part) \subseteq IdsOf(events)
          /\ Len(part) = IF 1 <= n THEN n - 1 + 1 ELSE 0
      BY <2>6, <2>8, <2>10, SliceDistinct
    <3>2. QED
      BY <2>10, <3>1
  <2>12. \A i \in DOMAIN part : part[i].id <= counter
    BY <2>9, <2>11 DEF IdsOf
  <2> HIDE DEF part, blocked, incoming, total
  <2>13. /\ ui' \in Type /\ ui'.events = part /\ ui'.counter = counter /\ ui'.blocked = blocked
         /\ ui'.risks = ui.risks /\ ui'.nextRisk = ui.nextRisk
    BY <1>1, <2>1, <2>2, <2>11
  <2>14. QED
    BY <1>1, <2>2, <2>11, <2>12, <2>13 DEF FeedInv, Event
<1>3. CASE RiskTick
  <2> DEFINE old == ui.risks
             x == ui.nextRisk
             new == Slid(old, x)
             next == x + 1
  <2>1. ui' = [ui EXCEPT !.risks = new, !.nextRisk = next]
    BY <1>1, <1>3 DEF RiskTick, Slid
  <2>2. /\ old \in Seq(Nat) /\ Len(old) = 8 /\ x \in Nat /\ next \in Nat /\ x < next
        /\ \A i \in 1 .. 8 : old[i] < x
        /\ \A i, j \in 1 .. 8 : old[i] = old[j] => i = j
    <3>1. old \in Seq(Nat) /\ Len(old) = 8 /\ x \in Nat
      BY <1>1
    <3>2. DOMAIN old = 1 .. 8
      BY <3>1
    <3>3. next \in Nat /\ x < next
      BY <3>1
    <3>4. \A i \in DOMAIN old : old[i] < x
      BY <1>1
    <3>5. \A i, j \in DOMAIN old : old[i] = old[j] => i = j
      BY <1>1 DEF IsInjective
    <3> HIDE DEF old, x, next
    <3>6. QED
      BY <3>1, <3>2, <3>3, <3>4, <3>5
  <2> HIDE DEF old, x
  <2>3. /\ new \in Seq(Nat) /\ Len(new) = 8 /\ new[8] = x
        /\ \A k \in 1 .. 7 : new[k] = old[k + 1] /\ old[k + 1] \in Nat
    BY <2>2, LastSeven
  <2> HIDE DEF new
  <2>4. DOMAIN new = 1 .. 8 /\ \A k \in 1 .. 8 : k = 8 \/ (k \in 1 .. 7 /\ k + 1 \in 1 .. 8)
    BY <2>3
  <2>5. \A k \in 1 .. 8 : k # 8 => new[k] = old[k + 1] /\ new[k] \in Nat /\ new[k] < x
    BY <2>2, <2>3, <2>4
  <2>6. \A k \in DOMAIN new : new[k] < next
    BY <2>2, <2>3, <2>4, <2>5
  <2>7. IsInjective(new)
    <3>1. ASSUME NEW j \in 1 .. 8, NEW k \in 1 .. 8, new[j] = new[k] PROVE j = k
      <4>1. CASE j = 8 \/ k = 8
        BY <2>2, <2>3, <2>5, <3>1, <4>1
      <4>2. CASE j # 8 /\ k # 8
        <5>1. old[j + 1] = old[k + 1] /\ j + 1 \in 1 .. 8 /\ k + 1 \in 1 .. 8
          BY <2>4, <2>5, <3>1, <4>2
        <5>2. j + 1 = k + 1
          BY <2>2, <5>1
        <5>3. QED
          BY <5>2
      <4>3. QED
        BY <4>1, <4>2
    <3>2. QED
      BY <2>4, <3>1 DEF IsInjective
  <2> HIDE DEF next
  <2>8. /\ ui' \in Type /\ ui'.events = ui.events /\ ui'.counter = ui.counter /\ ui'.blocked = ui.blocked
        /\ ui'.risks = new /\ ui'.nextRisk = next
    BY <1>1, <2>1, <2>2, <2>3
  <2>9. QED
    BY <1>1, <2>3, <2>6, <2>7, <2>8 DEF FeedInv, Event
<1>4. QED
  BY <1>2, <1>3

LEMMA FeaturesStep ==
  ASSUME FeaturesInv(ui),
         \/ PolicyTick \/ AuditTick \/ CardHover
         \/ \E v \in {0, 1}, n \in 1 .. 3 :
              ui' = [ui EXCEPT !.points = Append(SubSeq(@, Len(@) - 6, Len(@)), v), !.live = @ + n]
  PROVE  FeaturesInv(ui')
<1> DEFINE Type == [highlight : 1 .. 4, points : Seq({0, 1}), live : Nat, expanded : BOOLEAN,
                    over : FEATURES \cup THREATS \cup {"none"}]
<1>1. ui \in Type /\ Len(ui.points) = 8
  BY DEF FeaturesInv
<1>2. ASSUME ui' \in Type, ui'.points = ui.points PROVE FeaturesInv(ui')
  BY <1>1, <1>2 DEF FeaturesInv
<1>3. CASE PolicyTick
  <2> DEFINE highlight == 1 + (ui.highlight % 4)
  <2>1. ui' = [ui EXCEPT !.highlight = highlight]
    BY <1>1, <1>3 DEF PolicyTick, POLICIES
  <2>2. highlight \in 1 .. 4
    BY <1>1
  <2> HIDE DEF highlight
  <2>3. QED
    BY <1>1, <1>2, <2>1, <2>2
<1>4. CASE AuditTick
  <2> DEFINE expanded == ~ui.expanded
  <2>1. ui' = [ui EXCEPT !.expanded = expanded] /\ expanded \in BOOLEAN
    BY <1>1, <1>4 DEF AuditTick
  <2> HIDE DEF expanded
  <2>2. QED
    BY <1>1, <1>2, <2>1
<1>5. CASE CardHover
  <2>1. \E c \in FEATURES \cup THREATS \cup {"none"} : ui' = [ui EXCEPT !.over = c]
    BY <1>5, Zenon DEF CardHover
  <2>2. QED
    BY <1>1, <1>2, <2>1
<1>6. ASSUME NEW v \in {0, 1}, NEW n \in 1 .. 3,
             ui' = [ui EXCEPT !.points = Append(SubSeq(@, Len(@) - 6, Len(@)), v), !.live = @ + n]
      PROVE  FeaturesInv(ui')
  <2> DEFINE old == ui.points
             points == Slid(old, v)
             live == ui.live + n
             Bits == {0, 1}
  <2>1. ui' = [ui EXCEPT !.points = points, !.live = live] /\ live \in Nat
    BY <1>1, <1>6 DEF Slid
  <2>2. old \in Seq(Bits) /\ Len(old) = 8 /\ v \in Bits
    BY <1>1
  <2> HIDE DEF old, Bits
  <2>3. points \in Seq(Bits) /\ Len(points) = 8
    BY <2>2, LastSeven
  <2> HIDE DEF points, live
  <2> USE DEF Bits
  <2>4. ui' \in Type /\ ui'.points = points
    BY <1>1, <2>1, <2>3
  <2>5. QED
    BY <2>3, <2>4 DEF FeaturesInv
<1>7. QED
  BY <1>3, <1>4, <1>5, <1>6, Zenon

LEMMA LandingStep ==
  ASSUME FrontEndInv, LandingNext \/ LandingFeed \/ SectionsNext \/ ObservabilityTick
  PROVE  TabInv' /\ LandingPages' /\ page' = page /\ page \in Widgets /\ calls' = calls
<1>1. TabInv /\ left \in 0 .. MaxSteps
  BY TabIs DEF FrontEndInv
<1>2. LandingPages
  BY DEF FrontEndInv
<1>3. page' = page /\ page \in Widgets /\ UNCHANGED <<calls, rows, gone, shown>> /\ left' \in 0 .. MaxSteps
  <2>1. CASE LandingNext
    BY <1>1, <2>1 DEF LandingNext, Widgets, LandingWidgets
  <2>2. CASE LandingFeed
    BY <1>1, <2>2, SpendIs DEF LandingFeed, Widgets, LandingWidgets
  <2>3. CASE SectionsNext
    BY <1>1, <2>3 DEF SectionsNext, Widgets
  <2>4. CASE ObservabilityTick
    BY <1>1, <2>4, SpendIs, Zenon DEF ObservabilityTick, Widgets
  <2>5. QED
    BY <2>1, <2>2, <2>3, <2>4
<1>4. TabInv'
  BY <1>1, <1>3, TabIs, TabKept
<1>5. CASE page = "hero"
  <2>1. HeroInv(ui) /\ (HeroPhase \/ HeroDelay \/ HeroKey)
    BY <1>2, <1>5 DEF LandingPages, LandingNext, LandingFeed, SectionsNext, ObservabilityTick
  <2>2. HeroInv(ui')
    BY <2>1, HeroStep
  <2>3. QED
    BY <1>3, <1>4, <1>5, <2>2 DEF LandingPages
<1>6. CASE page = "how"
  <2>1. HowInv(ui) /\ (HowTick \/ HowClick \/ HowResize)
    BY <1>2, <1>6 DEF LandingPages, LandingNext, LandingFeed, SectionsNext, ObservabilityTick
  <2>2. HowInv(ui')
    BY <2>1, HowStep
  <2>3. QED
    BY <1>3, <1>4, <1>6, <2>2 DEF LandingPages
<1>7. CASE page = "architecture"
  <2>1. ArchitectureInv(ui) /\ ArchitectureTick
    BY <1>2, <1>7 DEF LandingPages, LandingNext, LandingFeed, SectionsNext, ObservabilityTick
  <2>2. ArchitectureInv(ui')
    BY <2>1, ArchitectureStep
  <2>3. QED
    BY <1>3, <1>4, <1>7, <2>2 DEF LandingPages
<1>8. CASE page = "decision"
  <2>1. DecisionInv(ui) /\ DecisionTick
    BY <1>2, <1>8 DEF LandingPages, LandingNext, LandingFeed, SectionsNext, ObservabilityTick
  <2>2. DecisionInv(ui')
    BY <2>1, DecisionStep
  <2>3. QED
    BY <1>3, <1>4, <1>8, <2>2 DEF LandingPages
<1>9. CASE page = "feed"
  <2>1. FeedInv(ui) /\ (FeedTick \/ RiskTick)
    BY <1>2, <1>9 DEF LandingPages, LandingNext, LandingFeed, SectionsNext, ObservabilityTick
  <2>2. FeedInv(ui')
    BY <2>1, FeedStep
  <2>3. QED
    BY <1>3, <1>4, <1>9, <2>2 DEF LandingPages
<1>10. CASE page = "navigation"
  <2>1. NavigationInv(ui) /\ (NavLink \/ NavigationResize \/ NavigationClick \/ AccessSubmit)
    BY <1>2, <1>10 DEF LandingPages, LandingNext, LandingFeed, SectionsNext, ObservabilityTick
  <2>2. NavigationInv(ui')
    BY <2>1, NavigationStep
  <2>3. QED
    BY <1>3, <1>4, <1>10, <2>2 DEF LandingPages
<1>11. CASE page = "features"
  <2>1. FeaturesInv(ui)
    BY <1>2, <1>11 DEF LandingPages
  <2>2. ~LandingNext /\ ~LandingFeed /\ (SectionsNext => PolicyTick \/ AuditTick \/ CardHover)
    BY <1>11 DEF LandingNext, LandingFeed, SectionsNext
  <2>3. \/ PolicyTick \/ AuditTick \/ CardHover
        \/ \E v \in {0, 1}, n \in 1 .. 3 :
             ui' = [ui EXCEPT !.points = Append(SubSeq(@, Len(@) - 6, Len(@)), v), !.live = @ + n]
    BY <2>2, Zenon DEF ObservabilityTick
  <2>4. FeaturesInv(ui')
    BY <2>1, <2>3, FeaturesStep, Zenon
  <2>5. QED
    BY <1>3, <1>4, <1>11, <2>4 DEF LandingPages
<1>12. CASE page = "demos"
  <2>1. DemosInv(ui) /\ (navigateToDemoHub \/ AnimatedCard)
    BY <1>2, <1>12 DEF LandingPages, LandingNext, LandingFeed, SectionsNext, ObservabilityTick
  <2>2. DemosInv(ui')
    BY <2>1, DemosStep
  <2>3. QED
    BY <1>3, <1>4, <1>12, <2>2 DEF LandingPages
<1>13. QED
  BY <1>3, <1>5, <1>6, <1>7, <1>8, <1>9, <1>10, <1>11, <1>12 DEF Widgets, LandingWidgets

-----------------------------------------------------------------------------
(* The inductive invariant.                                                *)

\* A page is of one kind.
LEMMA OfOneKind ==
  /\ ListPages \cap (AdminListPages \cup DashPages \cup WritingPages \cup Widgets) = {}
  /\ AdminListPages \cap (DashPages \cup WritingPages \cup Widgets) = {}
  /\ DashPages \cap (WritingPages \cup Widgets) = {}
  /\ WritingPages \cap Widgets = {}
  BY DEF ListPages, AdminListPages, DashPages, OneLoadPages, WritingPages, Widgets, LandingWidgets

LEMMA PartOfPages ==
  ASSUME page' = page, TabInv',
         \/ page \in ListPages /\ WebPages'
         \/ page \in AdminListPages /\ AdminPages'
         \/ page \in DashPages /\ FigurePages'
         \/ page \in WritingPages /\ FormPages'
         \/ page \in Widgets /\ LandingPages' /\ calls' = <<>>
  PROVE  FrontEndInv'
<1>1. page' \notin ListPages => WebPages'
  BY DEF WebPages, ListPages
<1>2. page' \notin AdminListPages => AdminPages'
  BY DEF AdminPages, AdminListPages
<1>3. page' \notin DashPages => FigurePages'
  BY DEF FigurePages, DashPages, OneLoadPages
<1>4. page' \notin WritingPages => FormPages'
  BY DEF FormPages, WritingPages
<1>5. page' \notin Widgets => LandingPages'
  BY DEF LandingPages, Widgets, LandingWidgets
<1>6. QED
  BY <1>1, <1>2, <1>3, <1>4, <1>5, OfOneKind DEF FrontEndInv

\* The user acts or an answer comes.
LEMMA InTabIs ==
  ASSUME FrontEndInv, User \/ Answer
  PROVE  InTab /\ page' = page
<1>1. TabInv /\ left \in 0 .. MaxSteps
  BY TabIs DEF FrontEndInv
<1>2. page' = page /\ rows' = rows /\ gone' = gone
  BY DEF User, Answer
<1>3. CASE User
  <2>1. Acts
    BY <1>3 DEF User
  <2>2. QED
    BY <1>1, <1>2, <2>1, SpendIs DEF Acts, InTab
<1>4. CASE Answer
  <2>1. \E i \in DOMAIN calls, ok \in BOOLEAN : Ends(i, ok)
    <3>1. \/ PolicyAnswer \/ AgentAnswer \/ ThreatAnswer \/ AuditAnswer \/ OrgAnswer \/ FleetAnswer
          \/ IntelAnswer \/ TrailAnswer \/ SummaryAnswer \/ FrameAnswer \/ ShellAnswer \/ AnalyticsAnswer
          \/ OverviewAnswer \/ MonitorAnswer \/ HealthAnswer \/ SettingsAnswer \/ AdminSettingsAnswer
          \/ GovernanceAnswer
      BY <1>4 DEF Answer
    <3>2. CASE PolicyAnswer \/ AgentAnswer \/ ThreatAnswer \/ AuditAnswer
      BY <3>2, Zenon DEF PolicyAnswer, AgentAnswer, ThreatAnswer, AuditAnswer
    <3>3. CASE OrgAnswer \/ FleetAnswer \/ IntelAnswer \/ TrailAnswer
      BY <3>3, Zenon DEF OrgAnswer, FleetAnswer, IntelAnswer, TrailAnswer
    <3>4. CASE SummaryAnswer \/ FrameAnswer \/ ShellAnswer \/ AnalyticsAnswer
      BY <3>4, Zenon DEF SummaryAnswer, FrameAnswer, ShellAnswer, AnalyticsAnswer
    <3>5. CASE OverviewAnswer \/ MonitorAnswer \/ HealthAnswer
      BY <3>5, Zenon DEF OverviewAnswer, MonitorAnswer, HealthAnswer
    <3>6. CASE SettingsAnswer \/ AdminSettingsAnswer \/ GovernanceAnswer
      BY <3>6, Zenon DEF SettingsAnswer, AdminSettingsAnswer, GovernanceAnswer
    <3>7. QED
      BY <3>1, <3>2, <3>3, <3>4, <3>5, <3>6
  <2>2. left' \in 0 .. MaxSteps
    BY <1>1, <2>1, EndsIs
  <2>3. QED
    BY <1>1, <1>2, <2>2 DEF InTab
<1>5. QED
  BY <1>2, <1>3, <1>4

LEMMA WebStep ==
  ASSUME FrontEndInv, User \/ Answer, page \in ListPages
  PROVE  FrontEndInv'
<1>1. InTab /\ page' = page
  BY InTabIs
<1>2. WebInv(ui, calls, shown)
  BY DEF FrontEndInv, WebPages
<1>3. ASSUME page \in {"policies", "agents"}, WebKept
      PROVE  FrontEndInv'
  <2>1. DraftInv(ui)
    BY <1>3 DEF FrontEndInv, WebPages
  <2>2. TabInv' /\ WebInv(ui, calls, shown)' /\ DraftInv(ui)'
    BY <1>3, <2>1 DEF WebKept
  <2>3. WebPages'
    BY <1>1, <1>3, <2>2 DEF WebPages
  <2>4. QED
    BY <1>1, <2>2, <2>3, PartOfPages
<1>4. CASE page = "policies"
  <2>1. PolicyUser \/ PolicyAnswer
    BY <1>4 DEF User, Answer
  <2>2. QED
    BY <1>1, <1>2, <1>3, <1>4, <2>1, PolicyStep
<1>5. CASE page = "agents"
  <2>1. AgentUser \/ AgentAnswer
    BY <1>5 DEF User, Answer
  <2>2. QED
    BY <1>1, <1>2, <1>3, <1>5, <2>1, AgentStep
<1>6. CASE page = "threats"
  <2>1. ThreatInv(ui, calls, shown) /\ (ThreatUser \/ ThreatAnswer)
    BY <1>6 DEF FrontEndInv, WebPages, User, Answer
  <2>2. ThreatKept
    BY <1>1, <1>2, <2>1, ThreatStep
  <2>3. TabInv' /\ WebPages'
    BY <1>1, <1>6, <2>2 DEF WebPages, ThreatKept
  <2>4. QED
    BY <1>1, <2>3, PartOfPages
<1>7. CASE page = "audit"
  <2>1. AuditUser \/ AuditAnswer
    BY <1>7 DEF User, Answer
  <2>2. WebKept
    BY <1>1, <1>2, <2>1, AuditStep
  <2>3. TabInv' /\ WebPages'
    BY <1>1, <1>7, <2>2 DEF WebPages, WebKept
  <2>4. QED
    BY <1>1, <2>3, PartOfPages
<1>8. QED
  BY <1>4, <1>5, <1>6, <1>7 DEF ListPages

LEMMA AdminStep ==
  ASSUME FrontEndInv, User \/ Answer, page \in AdminListPages
  PROVE  FrontEndInv'
<1>1. InTab /\ page' = page
  BY InTabIs
<1>2. InAdmin
  BY <1>1 DEF FrontEndInv, AdminPages, InAdmin
<1>3. ASSUME AdminKept
      PROVE  FrontEndInv'
  <2>1. TabInv' /\ AdminPages'
    BY <1>1, <1>3 DEF AdminKept, AdminPages
  <2>2. QED
    BY <1>1, <2>1, PartOfPages
<1>4. CASE page = "organizations"
  <2>1. OrgUser \/ OrgAnswer
    BY <1>4 DEF User, Answer
  <2>2. QED
    BY <1>2, <1>3, <1>4, <2>1, OrgStep
<1>5. CASE page = "fleet"
  <2>1. FleetUser \/ FleetAnswer
    BY <1>5 DEF User, Answer
  <2>2. QED
    BY <1>2, <1>3, <1>5, <2>1, FleetStep
<1>6. CASE page = "intel"
  <2>1. IntelUser \/ IntelAnswer
    BY <1>6 DEF User, Answer
  <2>2. QED
    BY <1>2, <1>3, <1>6, <2>1, IntelStep
<1>7. CASE page = "trail"
  <2>1. TrailUser \/ TrailAnswer
    BY <1>7 DEF User, Answer
  <2>2. QED
    BY <1>2, <1>3, <1>7, <2>1, TrailStep
<1>8. QED
  BY <1>4, <1>5, <1>6, <1>7 DEF AdminListPages

LEMMA FigureStep ==
  ASSUME FrontEndInv, User \/ Answer, page \in DashPages
  PROVE  FrontEndInv'
<1>1. InTab /\ page' = page
  BY InTabIs
<1>2. InFigures
  BY <1>1 DEF FrontEndInv, InFigures
<1>3. FiguresKept
  <2>1. CASE page = "dashboard"
    <3>1. SummaryUser \/ SummaryTimer \/ SummaryAnswer
      BY <2>1 DEF User, Answer
    <3>2. QED
      BY <1>1, <1>2, <2>1, <3>1, SummaryStep
  <2>2. CASE page = "analytics"
    <3>1. AnalyticsUser \/ AnalyticsAnswer
      BY <2>2 DEF User, Answer
    <3>2. QED
      BY <1>1, <1>2, <2>2, <3>1, AnalyticsStep
  <2>3. CASE page = "frame"
    <3>1. FrameUser \/ FramePoll \/ FrameAnswer
      BY <2>3 DEF User, Answer
    <3>2. QED
      BY <1>1, <1>2, <2>3, <3>1, FrameStep
  <2>4. CASE page = "shell"
    <3>1. ShellUser \/ ShellAnswer
      BY <2>4 DEF User, Answer
    <3>2. QED
      BY <1>1, <1>2, <2>4, <3>1, ShellStep
  <2>5. CASE page \in OneLoadPages
    <3>1. \/ page = "overview" /\ (OverviewUser \/ OverviewAnswer)
          \/ page = "monitor" /\ (MonitorUser \/ MonitorAnswer)
          \/ page = "health" /\ (HealthUser \/ HealthAnswer)
      BY <2>5 DEF User, Answer, OneLoadPages
    <3>2. QED
      BY <1>1, <1>2, <3>1, OneLoadStep
  <2>6. QED
    BY <2>1, <2>2, <2>3, <2>4, <2>5 DEF DashPages
<1>4. QED
  BY <1>1, <1>3, PartOfPages DEF FiguresKept

LEMMA FormStep ==
  ASSUME FrontEndInv, User \/ Answer \/ SaveTimer, page \in WritingPages
  PROVE  FrontEndInv'
<1>1. InTab /\ page' = page
  <2>1. CASE SaveTimer
    BY <2>1, TabIs DEF FrontEndInv, SaveTimer, resetSaveState, InTab
  <2>2. QED
    BY <2>1, InTabIs
<1>2. InForms
  BY <1>1 DEF FrontEndInv, InForms
<1>3. FormsKept
  <2>1. CASE page = "settings"
    <3>1. SettingsUser \/ SettingsAnswer
      BY <2>1 DEF User, Answer, SaveTimer
    <3>2. QED
      BY <1>1, <1>2, <2>1, <3>1, SettingsUserStep, SettingsAnswerStep
  <2>2. CASE page = "platform"
    <3>1. \/ AdminSettingsUser
          \/ AdminSettingsAnswer
          \/ /\ ui.resets > 0 /\ ui' = [ui EXCEPT !.saveState = "idle", !.resets = @ - 1]
             /\ calls' = calls /\ shown' = shown
      <4>1. CASE User \/ Answer
        BY <2>2, <4>1 DEF User, Answer
      <4>2. CASE SaveTimer
        BY <4>2 DEF SaveTimer, resetSaveState
      <4>3. QED
        BY <4>1, <4>2
    <3>2. QED
      BY <1>1, <1>2, <2>2, <3>1, PlatformUserStep, PlatformAnswerStep
  <2>3. CASE page = "governance"
    <3>1. GovernanceUser \/ GovernanceAnswer
      BY <2>3 DEF User, Answer, SaveTimer
    <3>2. QED
      BY <1>1, <1>2, <2>3, <3>1, GovernanceUserStep, GovernanceAnswerStep
  <2>4. QED
    BY <2>1, <2>2, <2>3 DEF WritingPages
<1>4. QED
  BY <1>1, <1>3, PartOfPages DEF FormsKept

LEMMA FrontEndStep ==
  ASSUME FrontEndInv, [Next]_tabVars
  PROVE  FrontEndInv'
<1>0. Alike(calls, calls) /\ TabInv
  BY DEF Alike, FrontEndInv
<1>1. CASE User \/ Answer
  <2>1. page \in ListPages \cup AdminListPages \cup DashPages \cup WritingPages
    BY <1>1 DEF User, Answer, ListPages, AdminListPages, DashPages, OneLoadPages, WritingPages
  <2>2. QED
    BY <1>1, <2>1, WebStep, AdminStep, FigureStep, FormStep
<1>2. CASE SaveTimer
  <2>1. page \in WritingPages
    BY <1>2 DEF SaveTimer, WritingPages
  <2>2. QED
    BY <1>2, <2>1, FormStep
<1>3. CASE Serve
  <2>1. TabInv' /\ Alike(calls, calls')
    BY <1>0, <1>3, ServeKeeps
  <2>2. page' = page /\ ui' = ui /\ shown' = shown
    BY <1>3 DEF Serve
  <2>3. QED
    BY <2>1, <2>2, PageSeesNothing
<1>4. CASE Outside
  <2>1. TabInv' /\ calls' = calls /\ page' = page /\ ui' = ui /\ shown' = shown
    BY <1>0, <1>4, WorldKeeps DEF Outside, World
  <2>2. QED
    BY <1>0, <2>1, PageSeesNothing
<1>5. CASE LandingNext \/ LandingFeed \/ SectionsNext \/ ObservabilityTick
  <2>1. TabInv' /\ LandingPages' /\ page' = page /\ page \in Widgets /\ calls' = calls
    BY <1>5, LandingStep
  <2>2. calls' = <<>>
    BY <2>1 DEF FrontEndInv
  <2>3. QED
    BY <2>1, <2>2, PartOfPages
<1>6. CASE UNCHANGED tabVars
  <2>1. TabInv' /\ calls' = calls /\ page' = page /\ ui' = ui /\ shown' = shown
    BY <1>0, <1>6 DEF tabVars, TabInv, ServerInv, Requests, Sound
  <2>2. QED
    BY <1>0, <2>1, PageSeesNothing
<1>7. QED
  BY <1>1, <1>2, <1>3, <1>4, <1>5, <1>6 DEF Next

-----------------------------------------------------------------------------
(* The initial states.                                                     *)

\* What a page has asked for when it is opened.
Opened(c) == c \in CallType /\ c.op = "list" /\ ~c.passed /\ Sound(c, {}, gone)

LEMMA OpenedIs ==
  ASSUME NEW c, Opened(c), calls = <<c>>
  PROVE  /\ DOMAIN calls = {1} /\ Len(calls) = 1 /\ calls[1] = c /\ calls # <<>>
         /\ Has(calls, "list") /\ ~NoneAwaited(calls, "list") /\ Requests(calls, {})
         /\ \A op : InOrder(calls, op)
         /\ \A d \in Newest(calls, "list") : d = c
         /\ \A d : d \notin Newest(calls, "detail")
<1>1. DOMAIN calls = {1} /\ Len(calls) = 1 /\ calls[1] = c /\ calls # <<>> /\ calls \in Seq(CallType)
  BY DEF Opened
<1>2. Has(calls, "list") /\ ~NoneAwaited(calls, "list")
  BY <1>1 DEF Opened, Has, NoneAwaited, Awaited
<1>3. Requests(calls, {})
  BY <1>1 DEF Opened, Requests
<1>4. \A op : InOrder(calls, op)
  BY <1>1 DEF InOrder, Awaited
<1>5. \A d \in Newest(calls, "list") : d = c
  BY <1>1 DEF Newest, Latest, Awaited
<1>6. \A d : d \notin Newest(calls, "detail")
  BY <1>1 DEF Opened, Newest, Latest, Awaited
<1>7. QED
  BY <1>1, <1>2, <1>3, <1>4, <1>5, <1>6

\* What all pages start with.
AtFirst == rows \in Seq(Row) /\ Distinct(rows) /\ gone = {} /\ shown = NothingShown /\ left = MaxSteps

LEMMA AtFirstIs ==
  ASSUME AtFirst
  PROVE  /\ Requests(calls, {}) => TabInv
         /\ shown.list = "none" /\ shown.detail = "none" /\ shown.query.offset = 0
         /\ \A u : Genuine(u, shown)
<1> DEFINE none == {}
<1>1. AnyQuery \in QueryType /\ AnyQuery.offset = 0
  BY QueryIs DEF AnyQuery
<1>2. none \in SUBSET Ids /\ none = {}
  OBVIOUS
<1>3. shown = [query |-> AnyQuery, list |-> "none", detail |-> "none", told |-> none]
  BY DEF AtFirst, NothingShown
<1> HIDE DEF none
<1>4. /\ shown \in ShownType /\ shown.told = {} /\ shown.list = "none" /\ shown.detail = "none"
      /\ shown.query.offset = 0
  BY <1>1, <1>2, <1>3 DEF ShownType
<1>5. left \in 0 .. MaxSteps
  BY TabAssumption DEF AtFirst
<1>6. QED
  BY <1>4, <1>5 DEF AtFirst, TabInv, ServerInv, Genuine

LEMMA RowsAtFirst ==
  ASSUME Init
  PROVE  AtFirst
<1>1. CASE rows \in Rows
  <2>1. rows \in Seq(Row) /\ IsInjective([i \in DOMAIN rows |-> rows[i].id])
    BY <1>1, FrontEndAssumption
  <2>2. Distinct(rows)
    BY <2>1 DEF IsInjective, Distinct
  <2>3. QED
    BY <2>1, <2>2 DEF Init, AtFirst
<1>2. CASE rows = <<>>
  BY <1>2 DEF Init, AtFirst, Distinct
<1>3. QED
  BY <1>1, <1>2 DEF Init

\* A page is of one kind: what the others promise does not matter.
LEMMA InPart ==
  ASSUME TabInv,
         \/ page \in ListPages /\ WebPages
         \/ page \in AdminListPages /\ AdminPages
         \/ page \in DashPages /\ FigurePages
         \/ page \in WritingPages /\ FormPages
         \/ page \in Widgets /\ LandingPages /\ calls = <<>>
  PROVE  FrontEndInv
<1>1. page \notin ListPages => WebPages
  BY DEF WebPages, ListPages
<1>2. page \notin AdminListPages => AdminPages
  BY DEF AdminPages, AdminListPages
<1>3. page \notin DashPages => FigurePages
  BY DEF FigurePages, DashPages, OneLoadPages
<1>4. page \notin WritingPages => FormPages
  BY DEF FormPages, WritingPages
<1>5. page \notin Widgets => LandingPages
  BY DEF LandingPages, Widgets, LandingWidgets
<1>6. QED
  BY <1>1, <1>2, <1>3, <1>4, <1>5, OfOneKind DEF FrontEndInv

LEMMA WebAtFirst ==
  ASSUME AtFirst, ui = Blankness, calls = <<ListCall(Blankness)>>, page \in ListPages
  PROVE  FrontEndInv
<1> DEFINE c == ListCall(Blankness)
           none == <<>>
<1>1. none \in Seq(Row) /\ NoRow \in AnyRow /\ Nobody \in AnyId /\ All \in AnyFilter
  BY RowIs DEF AnyId, AnyFilter
<1>2. ui = [items |-> none, total |-> 0, offset |-> 0, limit |-> 1, filter |-> All, search |-> Nobody,
            sel |-> Nobody, loading |-> TRUE, refreshing |-> FALSE,
            saving |-> FALSE, creating |-> FALSE, deleting |-> FALSE, draft |-> NoRow, form |-> Blank,
            detail |-> Nobody, detailLoading |-> FALSE]
  BY DEF Blankness
<1>3. none = <<>>
  OBVIOUS
<1> HIDE DEF none
<1>4. ui \in WebUi
  BY <1>1, <1>2 DEF WebUi
<1>5. c = ListCall(ui) /\ calls = <<c>>
  OBVIOUS
<1> HIDE DEF c
<1>6. Opened(c) /\ c.query = Query(ui)
  BY <1>4, <1>5, ListCallIs DEF Opened
<1>7. /\ DOMAIN calls = {1} /\ calls[1] = c /\ Has(calls, "list") /\ ~NoneAwaited(calls, "list")
      /\ Requests(calls, {}) /\ InOrder(calls, "list") /\ \A d \in Newest(calls, "list") : d = c
  BY <1>5, <1>6, OpenedIs
<1>8. /\ ~ui.saving /\ ~ui.creating /\ ~ui.deleting /\ ~ui.detailLoading /\ ui.detail = Nobody /\ ui.sel = Nobody
      /\ ui.items = <<>>
  BY <1>2, <1>3
<1>9. WebInv(ui, calls, shown)
  BY <1>4, <1>6, <1>7, <1>8 DEF WebInv, WebFlags, WebList
<1>10. DraftInv(ui)
  <2>1. ui.draft = NoRow /\ NoRow.id = ui.sel
    BY <1>2 DEF NoRow
  <2>2. QED
    BY <2>1 DEF DraftInv
<1>11. ThreatInv(ui, calls, shown)
  BY <1>6, <1>7, <1>8 DEF ThreatInv, Opened
<1>12. WebPages
  BY <1>9, <1>10, <1>11 DEF WebPages
<1>13. TabInv
  BY <1>7, AtFirstIs
<1>14. QED
  BY <1>12, <1>13, InPart

LEMMA AdminAtFirst ==
  ASSUME AtFirst, calls = <<Asking(ui, 0)>>, page \in AdminListPages,
         ui = AdminBlankness \/ ui = [AdminBlankness EXCEPT !.limit = 1]
  PROVE  FrontEndInv
<1> DEFINE c == Asking(ui, 0)
           none == <<>>
<1>1. /\ none \in Seq(Row) /\ Nobody \in AnyId /\ All \in AnyFilter /\ Cardinality(Ids) \in Nat
  BY TabAssumption, FS_CardinalityType DEF AnyId, AnyFilter
<1>2. PICK limit \in Nat :
        ui = [items |-> none, total |-> 0, offset |-> 0, limit |-> limit, filter |-> All,
              search |-> Nobody, loading |-> TRUE, sel |-> Nobody, detail |-> Nobody, exporting |-> FALSE]
  BY <1>1 DEF AdminBlankness
<1> HIDE DEF none
<1>3. ui \in AdminUi
  BY <1>1, <1>2 DEF AdminUi
<1>4. /\ Opened(c) /\ c.query.limit = ui.limit /\ c.query.filter = ui.filter /\ c.query.offset = 0
  BY <1>3, AskingIs DEF Opened
<1> HIDE DEF c
<1>5. calls = <<c>>
  BY DEF c
<1>6. /\ DOMAIN calls = {1} /\ calls[1] = c /\ Has(calls, "list") /\ ~NoneAwaited(calls, "list")
      /\ Requests(calls, {}) /\ InOrder(calls, "list") /\ InOrder(calls, "detail")
      /\ (\A d \in Newest(calls, "list") : d = c) /\ \A d : d \notin Newest(calls, "detail")
  BY <1>4, <1>5, OpenedIs
<1>7. ~ui.exporting /\ ui.sel = Nobody /\ ui.offset = 0
  BY <1>2
<1>8. shown.query.offset = 0 /\ Genuine(ui, shown)
  BY AtFirstIs
<1>9. AdminInv(ui, calls, shown)
  BY <1>3, <1>4, <1>6, <1>7, <1>8 DEF AdminInv
<1>10. OnePage(ui, calls) /\ DialogInv(ui, calls, shown)
  BY <1>4, <1>6, <1>7 DEF OnePage, DialogInv
<1>11. AdminPages
  BY <1>9, <1>10 DEF AdminPages
<1>12. TabInv
  BY <1>6, AtFirstIs
<1>13. QED
  BY <1>11, <1>12, InPart

LEMMA DashAtFirst ==
  ASSUME AtFirst, calls = <<DashCall(ui)>>, page \in OneLoadPages \cup {"dashboard", "analytics"},
         ui = DashBlankness
  PROVE  FrontEndInv
<1> DEFINE c == DashCall(ui)
           none == <<>>
<1>1. /\ none \in Seq(Row) /\ Nobody \in AnyId /\ All \in AnyFilter /\ Cardinality(Ids) \in Nat
  BY TabAssumption, FS_CardinalityType DEF AnyId, AnyFilter
<1>2. ui = [items |-> none, offset |-> 0, limit |-> Cardinality(Ids), filter |-> All, search |-> Nobody,
            loading |-> TRUE, refreshing |-> FALSE, loaded |-> FALSE]
  BY DEF DashBlankness
<1> HIDE DEF none
<1>3. ui \in DashUi /\ ui.loading
  BY <1>1, <1>2 DEF DashUi
<1>4. Query(ui) \in QueryType
  BY <1>1, <1>2, QueryIs
<1>5. c = Call("list", Query(ui), Nobody, NoRow, <<>>)
  BY DEF DashCall
<1> HIDE DEF c
<1>6. Opened(c) /\ c.query = Query(ui)
  BY <1>1, <1>4, <1>5, AskedIs DEF Opened
<1>7. calls = <<c>>
  BY DEF c
<1>8. /\ DOMAIN calls = {1} /\ Len(calls) = 1 /\ calls[1] = c /\ Has(calls, "list")
      /\ ~NoneAwaited(calls, "list") /\ Requests(calls, {}) /\ InOrder(calls, "list")
      /\ \A d \in Newest(calls, "list") : d = c
  BY <1>6, <1>7, OpenedIs
<1>9. shown.list = "none" /\ Genuine(ui, shown)
  BY AtFirstIs
<1>10. DashInv(ui, calls, shown) /\ OneLoadInv(ui, calls, shown) /\ WebList(ui, calls, shown)
  BY <1>3, <1>6, <1>8, <1>9 DEF DashInv, OneLoadInv, WebList, Opened
<1>11. page \notin {"frame", "shell"} /\ page \in DashPages
  BY DEF OneLoadPages, DashPages
<1>12. FigurePages
  BY <1>3, <1>8, <1>10, <1>11 DEF FigurePages
<1>13. TabInv
  BY <1>8, AtFirstIs
<1>14. QED
  BY <1>11, <1>12, <1>13, InPart

LEMMA FrameAtFirst ==
  ASSUME AtFirst, calls = <<DashCall(ui)>>,
         \/ page = "frame" /\ ui = [FrameBlankness EXCEPT !.active = "dashboard"]
         \/ page = "shell" /\ ui = [FrameBlankness EXCEPT !.active = "overview"]
  PROVE  FrontEndInv
<1> DEFINE c == DashCall(ui)
           none == <<>>
           active == IF page = "frame" THEN "dashboard" ELSE "overview"
<1>1. /\ none \in Seq(Row) /\ Nobody \in AnyId /\ All \in AnyFilter /\ Cardinality(Ids) \in Nat
  BY TabAssumption, FS_CardinalityType DEF AnyId, AnyFilter
<1>2. ui = [items |-> none, offset |-> 0, limit |-> Cardinality(Ids), filter |-> All, search |-> Nobody,
            loading |-> FALSE, refreshing |-> FALSE, loaded |-> FALSE,
            menus |-> {}, active |-> active, signedIn |-> TRUE]
  BY DEF FrameBlankness
<1>3. /\ page = "frame" => active \in navItems
      /\ page = "shell" => active \in ShellItems
  BY DEF navItems, ShellItems
<1> HIDE DEF none, active
<1>4. ui \in FrameUi
  BY <1>1, <1>2, <1>3 DEF FrameUi
<1>5. Query(ui) \in QueryType
  BY <1>1, <1>2, QueryIs
<1>6. c = Call("list", Query(ui), Nobody, NoRow, <<>>)
  BY DEF DashCall
<1> HIDE DEF c
<1>7. Opened(c)
  BY <1>1, <1>5, <1>6, AskedIs DEF Opened
<1>8. calls = <<c>>
  BY DEF c
<1>9. Requests(calls, {})
  BY <1>7, <1>8, OpenedIs
<1>10. shown.list = "none" /\ Genuine(ui, shown)
  BY AtFirstIs
<1>11. ~ui.loading /\ ~ui.refreshing /\ ui.menus = {} /\ ui.signedIn /\ ui.active = active
  BY <1>2
<1>12. DashInv(ui, calls, shown) /\ (page = "shell" => ShellInv(ui, calls))
  BY <1>3, <1>10, <1>11 DEF DashInv, ShellInv
<1>13. page \in DashPages /\ page \in {"frame", "shell"}
       /\ page \notin OneLoadPages \cup {"dashboard", "analytics"}
  BY DEF DashPages, OneLoadPages
<1>14. FigurePages
  BY <1>3, <1>4, <1>10, <1>11, <1>12, <1>13 DEF FigurePages
<1>15. TabInv
  BY <1>9, AtFirstIs
<1>16. QED
  BY <1>13, <1>14, <1>15, InPart

LEMMA FormAtFirst ==
  ASSUME AtFirst,
         \/ page = "settings" /\ ui = SettingsState /\ calls = <<KeysCall>>
         \/ page = "platform" /\ ui = AdminSettingsState /\ calls = <<KeysCall>>
         \/ page = "governance" /\ ui = GovernanceState /\ calls = <<GovernanceCall(NoRow)>>
  PROVE  FrontEndInv
<1> DEFINE c == RowCall("list", NoRow)
           none == <<>>
           nothing == {}
<1>1. NoRow \in AnyRow /\ "list" \in RowOperations \cup OtherOperations /\ NoRow.id = Nobody
  BY RowIs DEF RowOperations, NoRow
<1>2. calls = <<c>>
  BY DEF KeysCall, GovernanceCall, policyService
<1> HIDE DEF c
<1>3. Opened(c) /\ c.row = NoRow
  BY <1>1, RowCallIs DEF Opened, c
<1>4. /\ DOMAIN calls = {1} /\ calls[1] = c /\ Has(calls, "list") /\ Requests(calls, {})
  BY <1>2, <1>3, OpenedIs
<1>5. TabInv /\ Genuine(ui, shown)
  BY <1>4, AtFirstIs
<1>6. /\ none \in Seq(Row) /\ Nobody \in AnyId /\ nothing \in SUBSET Forms /\ \A x : x \notin nothing
  BY DEF AnyId
<1>7. CASE page = "settings"
  <2>1. ui = [items |-> none, loading |-> TRUE, refreshing |-> FALSE, loaded |-> FALSE, typed |-> nothing,
              saving |-> nothing, enabled |-> TRUE, toggling |-> FALSE, keyName |-> Blank,
              creating |-> FALSE, deleting |-> Nobody]
    BY <1>7 DEF SettingsState
  <2> HIDE DEF none, nothing
  <2>2. ui \in SettingsUi
    BY <1>6, <2>1 DEF SettingsUi
  <2>3. SettingsInv(ui, calls, shown)
    BY <1>4, <1>5, <1>6, <2>1, <2>2 DEF SettingsInv
  <2>4. FormPages /\ page \in WritingPages
    BY <1>7, <2>3 DEF FormPages, WritingPages
  <2>5. QED
    BY <1>5, <2>4, InPart
<1>8. CASE page = "platform"
  <2>1. ui = [items |-> none, loading |-> TRUE, typed |-> nothing, enabled |-> TRUE, keyName |-> Blank,
              loaded |-> FALSE, saveState |-> "idle", resets |-> 0, refreshing |-> FALSE]
    BY <1>8 DEF AdminSettingsState
  <2> HIDE DEF none, nothing
  <2>2. ui \in AdminSettingsUi
    BY <1>6, <2>1 DEF AdminSettingsUi
  <2>3. AdminSettingsInv(ui, calls, shown)
    BY <1>3, <1>4, <1>5, <2>1, <2>2 DEF AdminSettingsInv, Opened
  <2>4. FormPages /\ page \in WritingPages
    BY <1>8, <2>3 DEF FormPages, WritingPages
  <2>5. QED
    BY <1>5, <2>4, InPart
<1>9. CASE page = "governance"
  <2>1. ui = [items |-> none, loading |-> TRUE, refreshing |-> FALSE, showCreate |-> FALSE,
              saving |-> FALSE, form |-> Blank]
    BY <1>9 DEF GovernanceState
  <2> HIDE DEF none, nothing
  <2>2. ui \in GovernanceUi
    BY <1>6, <2>1 DEF GovernanceUi
  <2>3. GovernanceInv(ui, calls, shown)
    BY <1>4, <1>5, <2>1, <2>2 DEF GovernanceInv
  <2>4. FormPages /\ page \in WritingPages
    BY <1>9, <2>3 DEF FormPages, WritingPages
  <2>5. QED
    BY <1>5, <2>4, InPart
<1>10. QED
  BY <1>7, <1>8, <1>9

LEMMA LandingAtFirst ==
  ASSUME AtFirst, Displayed
  PROVE  FrontEndInv
<1> DEFINE none == <<>>
           nothing == {}
<1>1. nothing \in SUBSET BOOLEAN /\ nothing \in SUBSET Nat /\ \A x : x \notin nothing
  OBVIOUS
<1>2. calls = none /\ page \in Widgets
  BY DEF Displayed, Mounted, Widgets, LandingWidgets
<1>3. TabInv
  <2>1. none \in Seq(CallType) /\ DOMAIN none = {}
    OBVIOUS
  <2> HIDE DEF none
  <2>2. Requests(calls, {})
    BY <1>2, <2>1 DEF Requests
  <2>3. QED
    BY <2>2, AtFirstIs
<1>4. CASE page = "hero" /\ ui = HeroState
  <2>1. none \in Seq(BOOLEAN \X Nat) /\ Len(none) = 0 /\ DOMAIN none = {}
    OBVIOUS
  <2>2. ui = [phase |-> 1, delay |-> TRUE, typing |-> nothing, displayed |-> none, at |-> 0]
    BY <1>4 DEF HeroState
  <2> HIDE DEF none, nothing
  <2>3. HeroInv(ui)
    BY <1>1, <2>1, <2>2 DEF HeroInv, TextLength
  <2>4. LandingPages
    BY <1>4, <2>3 DEF LandingPages
  <2>5. QED
    BY <1>2, <1>3, <2>4, InPart DEF none
<1>5. CASE page = "how" /\ ui = HowState
  <2>1. LandingPages
    BY <1>5 DEF LandingPages, HowInv, HowState, Steps
  <2>2. QED
    BY <1>2, <1>3, <2>1, InPart
<1>6. CASE page = "architecture" /\ ui = ArchitectureState
  <2>1. ui = [blocked |-> FALSE, pending |-> nothing, next |-> 55]
    BY <1>6 DEF ArchitectureState
  <2>2. nothing = {}
    OBVIOUS
  <2> HIDE DEF nothing
  <2>3. ArchitectureInv(ui)
    BY <1>1, <2>1, <2>2 DEF ArchitectureInv
  <2>4. LandingPages
    BY <1>6, <2>3 DEF LandingPages
  <2>5. QED
    BY <1>2, <1>3, <2>4, InPart
<1>7. CASE page = "decision" /\ ui = DecisionState
  <2>1. ui = [scanning |-> FALSE, decision |-> "allowed", pending |-> nothing, next |-> 28]
    BY <1>7 DEF DecisionState
  <2>2. nothing = {}
    OBVIOUS
  <2> HIDE DEF nothing
  <2>3. DecisionInv(ui)
    BY <1>1, <2>1, <2>2 DEF DecisionInv
  <2>4. LandingPages
    BY <1>7, <2>3 DEF LandingPages
  <2>5. QED
    BY <1>2, <1>3, <2>4, InPart
<1>8. CASE page = "feed" /\ ui = FeedState
  <2> DEFINE events == INITIAL_FEED
             risks == INIT_RISK
  <2>1. /\ events \in Seq([id : Nat, status : {"blocked", "flagged", "allowed"}]) /\ Len(events) = 5
        /\ DOMAIN events = 1 .. 5 /\ \A i \in 1 .. 5 : events[i].id = i
    BY DEF INITIAL_FEED
  <2>2. risks \in Seq(Nat) /\ Len(risks) = 8 /\ DOMAIN risks = 1 .. 8 /\ \A i \in 1 .. 8 : risks[i] = i - 1
    <3>1. risks \in [1 .. 8 -> Nat] /\ 8 \in Nat
      BY DEF INIT_RISK
    <3>2. QED
      BY <3>1 DEF INIT_RISK
  <2>3. ui = [events |-> events, counter |-> 6, incoming |-> 0, total |-> 247, blocked |-> 12,
              risks |-> risks, nextRisk |-> 8]
    BY <1>8 DEF FeedState
  <2> HIDE DEF events, risks
  <2>4. Distinct(events) /\ IsInjective(risks)
    BY <2>1, <2>2 DEF Distinct, IsInjective
  <2>5. FeedInv(ui)
    <3>1. /\ ui.events = events /\ ui.risks = risks /\ ui.counter = 6 /\ ui.nextRisk = 8 /\ ui.blocked = 12
      BY <2>3
    <3>2. ui \in [events : Seq([id : Nat, status : {"blocked", "flagged", "allowed"}]), counter : Nat,
                  incoming : Nat, total : Nat, blocked : Nat, risks : Seq(Nat), nextRisk : Nat]
      BY <2>1, <2>2, <2>3
    <3>3. \A i \in DOMAIN events : events[i].id <= 6
      BY <2>1
    <3>4. \A i \in DOMAIN ui.events : ui.events[i].id <= ui.counter
      BY <3>1, <3>3
    <3>5. \A i \in DOMAIN risks : risks[i] < 8
      BY <2>2
    <3>6. \A i \in DOMAIN ui.risks : ui.risks[i] < ui.nextRisk
      BY <3>1, <3>5
    <3>7. Len(ui.events) <= 6 /\ Len(ui.risks) = 8 /\ ui.blocked >= 6
      <4>1. Len(ui.events) = 5 /\ Len(ui.risks) = 8 /\ ui.blocked = 12
        BY <2>1, <2>2, <3>1, Zenon
      <4>2. QED
        BY <4>1
    <3>8. QED
      BY <2>4, <3>1, <3>2, <3>4, <3>6, <3>7, Zenon DEF FeedInv
  <2>6. LandingPages
    BY <1>8, <2>5 DEF LandingPages
  <2>7. QED
    BY <1>2, <1>3, <2>6, InPart
<1>9. CASE page = "navigation" /\ ui = NavigationState
  <2>1. LandingPages
    BY <1>9 DEF LandingPages, NavigationInv, NavigationState
  <2>2. QED
    BY <1>2, <1>3, <2>1, InPart
<1>10. CASE page = "features" /\ ui = FeaturesState
  <2> DEFINE points == [i \in 1 .. 8 |-> 0]
  <2>1. points \in Seq({0, 1}) /\ Len(points) = 8
    <3>1. points \in [1 .. 8 -> {0, 1}] /\ 8 \in Nat
      OBVIOUS
    <3>2. QED
      BY <3>1
  <2>2. ui = [highlight |-> 1, points |-> points, live |-> 247, expanded |-> FALSE, over |-> "none"]
    BY <1>10 DEF FeaturesState
  <2> HIDE DEF points
  <2>3. FeaturesInv(ui)
    BY <2>1, <2>2 DEF FeaturesInv
  <2>4. LandingPages
    BY <1>10, <2>3 DEF LandingPages
  <2>5. QED
    BY <1>2, <1>3, <2>4, InPart
<1>11. CASE page = "demos" /\ ui = DemoState
  <2>1. LandingPages
    BY <1>11 DEF LandingPages, DemosInv, DemoState, DEMO_CARDS
  <2>2. QED
    BY <1>2, <1>3, <2>1, InPart
<1>12. QED
  BY <1>4, <1>5, <1>6, <1>7, <1>8, <1>9, <1>10, <1>11 DEF Displayed, Mounted

LEMMA FrontEndInit ==
  ASSUME Init
  PROVE  FrontEndInv
<1>1. AtFirst
  BY RowsAtFirst
<1>2. CASE Displayed
  BY <1>1, <1>2, LandingAtFirst
<1>3. CASE PolicyInit \/ AgentInit \/ ThreatInit \/ AuditInit
  <2>1. ui = Blankness /\ calls = <<ListCall(Blankness)>> /\ page \in ListPages
    BY <1>3 DEF PolicyInit, PolicyState, AgentInit, AgentState, ThreatInit, ThreatState, AuditInit,
         AuditState, ListPages
  <2>2. QED
    BY <1>1, <2>1, WebAtFirst
<1>4. CASE \/ Mounted("organizations", OrgState, <<Asking(OrgState, 0)>>)
           \/ Mounted("fleet", FleetState, <<Asking(FleetState, 0)>>)
           \/ Mounted("intel", IntelState, <<Asking(IntelState, 0)>>)
           \/ Mounted("trail", TrailState, <<Asking(TrailState, 0)>>)
  <2>1. /\ calls = <<Asking(ui, 0)>> /\ page \in AdminListPages
        /\ ui \in {OrgState, FleetState, IntelState, TrailState}
    BY <1>4 DEF Mounted, AdminListPages
  <2>2. ui = AdminBlankness \/ ui = [AdminBlankness EXCEPT !.limit = 1]
    BY <2>1 DEF OrgState, FleetState, IntelState, TrailState
  <2>3. QED
    BY <1>1, <2>1, <2>2, AdminAtFirst
<1>5. CASE \/ Mounted("dashboard", SummaryState, <<dashboardService(SummaryState)>>)
           \/ Mounted("analytics", AnalyticsState, <<analyticsService(AnalyticsState)>>)
           \/ Mounted("overview", OverviewState, <<adminService(OverviewState)>>)
           \/ Mounted("monitor", MonitorState, <<adminService(MonitorState)>>)
           \/ Mounted("health", HealthState, <<healthService(HealthState)>>)
  <2>1. ui = DashBlankness /\ calls = <<DashCall(ui)>> /\ page \in OneLoadPages \cup {"dashboard", "analytics"}
    BY <1>5 DEF Mounted, SummaryState, AnalyticsState, OverviewState, MonitorState, HealthState,
         dashboardService, analyticsService, adminService, healthService, OneLoadPages
  <2>2. QED
    BY <1>1, <2>1, DashAtFirst
<1>6. CASE \/ Mounted("frame", FrameState, <<dashboardService(FrameState)>>)
           \/ Mounted("shell", ShellState, <<adminService(ShellState)>>)
  <2>1. /\ calls = <<DashCall(ui)>>
        /\ \/ page = "frame" /\ ui = [FrameBlankness EXCEPT !.active = "dashboard"]
           \/ page = "shell" /\ ui = [FrameBlankness EXCEPT !.active = "overview"]
    BY <1>6 DEF Mounted, FrameState, ShellState, dashboardService, adminService
  <2>2. QED
    BY <1>1, <2>1, FrameAtFirst
<1>7. CASE \/ Mounted("settings", SettingsState, <<KeysCall>>)
           \/ Mounted("platform", AdminSettingsState, <<KeysCall>>)
           \/ Mounted("governance", GovernanceState, <<GovernanceCall(NoRow)>>)
  BY <1>1, <1>7, FormAtFirst DEF Mounted
<1>8. QED
  BY <1>2, <1>3, <1>4, <1>5, <1>6, <1>7 DEF Init, Mount

\* The invariant of all the pages, of the requests they have sent and of the
\* rows at the server.
THEOREM Inductive == Spec => []FrontEndInv
<1>1. Init => FrontEndInv
  BY FrontEndInit
<1>2. FrontEndInv /\ [Next]_tabVars => FrontEndInv'
  BY FrontEndStep
<1>3. QED
  BY <1>1, <1>2, PTL DEF Spec

-----------------------------------------------------------------------------
(* What the runs check follows.                                            *)

LEMMA TypesFollow ==
  ASSUME FrontEndInv
  PROVE  TypeOK
<1>1. rows \in Seq(Row) /\ gone \subseteq Ids /\ left \in 0 .. MaxSteps
  BY DEF FrontEndInv, TabInv, ServerInv
<1>2. ASSUME NEW i \in DOMAIN calls
      PROVE  /\ calls[i].op \in RowOperations \cup OtherOperations
             /\ calls[i].query.offset \in Nat /\ calls[i].query.search \in Ids \cup {Nobody}
             /\ calls[i].answer \in Seq(Row)
             /\ {calls[i].passed, calls[i].done, calls[i].ok} \subseteq BOOLEAN
  <2>1. calls[i] \in CallType
    BY TabIs DEF FrontEndInv
  <2>2. calls[i].query \in QueryType
    BY <2>1 DEF CallType
  <2>3. QED
    BY <2>1, <2>2 DEF CallType, QueryType, AnyId
<1>3. page \notin Widgets => ui.items \in Seq(Row) /\ ui.loading \in BOOLEAN
  <2>1. page \in ListPages => ui \in WebUi
    BY DEF FrontEndInv, WebPages, WebInv
  <2>2. page \in AdminListPages => ui \in AdminUi
    BY DEF FrontEndInv, AdminPages, AdminInv
  <2>3. page \in DashPages => ui \in DashUi \/ ui \in FrameUi
    BY DEF FrontEndInv, FigurePages, DashPages
  <2>4. page \in WritingPages => ui \in SettingsUi \/ ui \in AdminSettingsUi \/ ui \in GovernanceUi
    BY DEF FrontEndInv, FormPages, WritingPages, SettingsInv, AdminSettingsInv, GovernanceInv
  <2>5. \/ ui \in WebUi \/ ui \in AdminUi \/ ui \in DashUi \/ ui \in FrameUi
        \/ ui \in SettingsUi \/ ui \in AdminSettingsUi \/ ui \in GovernanceUi \/ page \in Widgets
    BY <2>1, <2>2, <2>3, <2>4 DEF FrontEndInv
  <2>6. QED
    BY <2>5 DEF WebUi, AdminUi, DashUi, FrameUi, SettingsUi, AdminSettingsUi, GovernanceUi
<1>4. page \in ListPages \cup AdminListPages => {ui.offset, ui.total} \subseteq Nat /\ ui.sel \in Ids \cup {Nobody}
  <2>1. page \in ListPages => ui \in WebUi
    BY DEF FrontEndInv, WebPages, WebInv
  <2>2. page \in AdminListPages => ui \in AdminUi
    BY DEF FrontEndInv, AdminPages, AdminInv
  <2>3. QED
    BY <2>1, <2>2 DEF WebUi, AdminUi, AnyId
<1>5. QED
  BY <1>1, <1>2, <1>3, <1>4 DEF FrontEndInv, TypeOK

LEMMA RestFollows ==
  ASSUME FrontEndInv
  PROVE  NoSpinnerForever
<1> SUFFICES ASSUME calls = <<>>, page \notin Widgets
             PROVE  /\ ~ui.loading /\ (page \notin AdminListPages => ~ui.refreshing)
                    /\ page \in ListPages => ~ui.saving /\ ~ui.creating /\ ~ui.deleting
                    /\ page = "threats" /\ ui.sel # Nobody => ~ui.detailLoading
                    /\ page = "trail" => ~ui.exporting
                    /\ page = "settings" =>
                         ui.saving = {} /\ ~ui.toggling /\ ~ui.creating /\ ui.deleting = Nobody
                    /\ page = "platform" => ui.saveState # "saving" /\ (ui.resets = 0 => ~saveIndicator(ui))
                    /\ page = "governance" => ~ui.saving
  BY DEF NoSpinnerForever, AtRest
<1>1. DOMAIN calls = {} /\ (\A op : ~Has(calls, op)) /\ ~Creates(calls)
  BY DEF Has, Creates
<1>2. page \in ListPages \cup AdminListPages \cup DashPages \cup WritingPages
  BY DEF FrontEndInv
<1>3. CASE page \in ListPages
  <2>1. ~ui.loading /\ ~ui.refreshing /\ ~ui.saving /\ ~ui.creating /\ ~ui.deleting
    BY <1>1, <1>3 DEF FrontEndInv, WebPages, WebInv, WebFlags
  <2>2. page = "threats" /\ ui.sel # Nobody => ~ui.detailLoading
    BY <1>1 DEF FrontEndInv, WebPages, ThreatInv
  <2>3. page \notin {"trail", "settings", "platform", "governance"}
    BY <1>3 DEF ListPages
  <2>4. QED
    BY <2>1, <2>2, <2>3
<1>4. CASE page \in AdminListPages
  <2>1. ~ui.loading /\ ~ui.exporting
    BY <1>1, <1>4 DEF FrontEndInv, AdminPages, AdminInv
  <2>2. page \notin ListPages /\ page \notin {"threats", "settings", "platform", "governance"}
    BY <1>4 DEF ListPages, AdminListPages
  <2>3. QED
    BY <1>4, <2>1, <2>2
<1>5. CASE page \in DashPages
  <2>1. ~ui.loading /\ ~ui.refreshing
    BY <1>1, <1>5 DEF FrontEndInv, FigurePages, DashInv
  <2>2. page \notin ListPages /\ page \notin {"threats", "trail", "settings", "platform", "governance"}
    BY <1>5 DEF ListPages, DashPages, OneLoadPages
  <2>3. QED
    BY <2>1, <2>2
<1>6. CASE page = "settings"
  <2>1. SettingsInv(ui, calls, shown) /\ page \notin ListPages
    BY <1>6 DEF FrontEndInv, FormPages, ListPages
  <2>2. ui.saving \subseteq Forms
    BY <2>1 DEF SettingsInv, SettingsUi
  <2>3. ~ui.loading /\ ~ui.refreshing /\ ui.saving = {} /\ ~ui.toggling /\ ~ui.creating /\ ui.deleting = Nobody
    BY <1>1, <2>1, <2>2 DEF SettingsInv
  <2>4. QED
    BY <1>6, <2>1, <2>3
<1>7. CASE page = "platform"
  <2>1. AdminSettingsInv(ui, calls, shown) /\ page \notin ListPages
    BY <1>7 DEF FrontEndInv, FormPages, ListPages
  <2>2. ui.saveState \in {"idle", "saving", "saved", "error"}
    BY <2>1 DEF AdminSettingsInv, AdminSettingsUi
  <2>3. ~ui.loading /\ ~ui.refreshing /\ ui.saveState # "saving" /\ (ui.resets = 0 => ui.saveState = "idle")
    BY <1>1, <2>1, <2>2 DEF AdminSettingsInv
  <2>4. QED
    BY <1>7, <2>1, <2>3 DEF saveIndicator
<1>8. CASE page = "governance"
  <2>1. GovernanceInv(ui, calls, shown) /\ page \notin ListPages
    BY <1>8 DEF FrontEndInv, FormPages, ListPages
  <2>2. ~ui.loading /\ ~ui.refreshing /\ ~ui.saving
    BY <1>1, <2>1 DEF GovernanceInv
  <2>3. QED
    BY <1>8, <2>1, <2>2
<1>9. QED
  BY <1>2, <1>3, <1>4, <1>5, <1>6, <1>7, <1>8 DEF WritingPages

\* The rows of a page at rest.
LEMMA GenuineAtRest ==
  ASSUME FrontEndInv, AtRest, shown.list = "current"
  PROVE  Distinct(ui.items) /\ IdsOf(ui.items) \cap shown.told = {}
<1>1. \A op : NoneAwaited(calls, op)
  BY DEF AtRest, NoneAwaited
<1>2. CASE page \in ListPages
  BY <1>1, <1>2 DEF FrontEndInv, WebPages, WebInv, WebList, Genuine
<1>3. CASE page \in AdminListPages
  BY <1>3 DEF FrontEndInv, AdminPages, AdminInv, Genuine
<1>4. CASE page \in DashPages
  BY <1>4 DEF FrontEndInv, FigurePages, DashInv, Genuine
<1>5. CASE page \in WritingPages
  BY <1>5 DEF FrontEndInv, FormPages, WritingPages, SettingsInv, AdminSettingsInv, GovernanceInv, Genuine
<1>6. QED
  BY <1>2, <1>3, <1>4, <1>5 DEF FrontEndInv, AtRest

LEMMA CurrentFollows ==
  ASSUME FrontEndInv
  PROVE  ListIsCurrent
<1>1. page \in {"organizations", "trail"} => ui.offset = shown.query.offset
  BY DEF FrontEndInv, AdminPages, AdminInv, AdminListPages
<1>2. ASSUME AtRest, shown.list = "current"
      PROVE  /\ page \in ListPages \cup {"analytics"} => shown.query = Query(ui)
             /\ page \in AdminListPages => shown.query = [Query(ui) EXCEPT !.search = shown.query.search]
             /\ IsInjective([i \in DOMAIN ui.items |-> ui.items[i].id])
  <2>1. \A op : NoneAwaited(calls, op)
    BY <1>2 DEF AtRest, NoneAwaited
  <2>2. page \in ListPages \cup {"analytics"} => shown.query = Query(ui)
    BY <1>2, <2>1 DEF FrontEndInv, WebPages, WebInv, FigurePages, WebList
  <2>3. page \in AdminListPages => shown.query = [Query(ui) EXCEPT !.search = shown.query.search]
    <3>1. SUFFICES ASSUME page \in AdminListPages
                   PROVE  shown.query = [Query(ui) EXCEPT !.search = shown.query.search]
      OBVIOUS
    <3>2. /\ ui \in AdminUi /\ ui.offset = shown.query.offset /\ shown.query.limit = ui.limit
          /\ shown.query.filter = ui.filter
      BY <1>2, <2>1, <3>1 DEF FrontEndInv, AdminPages, AdminInv
    <3>3. shown.query \in QueryType
      BY DEF FrontEndInv, TabInv, ServerInv, ShownType
    <3>4. Query(ui) \in QueryType
      BY <3>2, AdminUiIs
    <3> DEFINE q == Query(ui)
               s == shown.query
    <3>5. q.offset = s.offset /\ q.limit = s.limit /\ q.filter = s.filter
      BY <3>2, QueryIs
    <3>6. q \in QueryType /\ s \in QueryType
      BY <3>3, <3>4
    <3> HIDE DEF q, s
    <3>7. s = [q EXCEPT !.search = s.search]
      BY <3>5, <3>6 DEF QueryType
    <3>8. QED
      BY <3>7 DEF q, s
  <2>4. IsInjective([i \in DOMAIN ui.items |-> ui.items[i].id])
    BY <1>2, GenuineAtRest DEF IsInjective, Distinct
  <2>5. QED
    BY <2>2, <2>3, <2>4
<1>3. QED
  BY <1>1, <1>2 DEF ListIsCurrent

LEMMA SelectedFollows ==
  ASSUME FrontEndInv
  PROVE  ActsOnTheSelected
<1>1. page \in {"policies", "agents"} /\ SelectedRow(ui) # NoRow => ui.draft.id = ui.sel
  BY DEF FrontEndInv, WebPages, DraftInv
<1>2. page = "threats" /\ AtRest /\ shown.detail # "failed" => ui.detail = ui.sel
  BY DEF FrontEndInv, WebPages, ThreatInv, AtRest, Has
<1>3. page \in {"organizations", "intel"} /\ AtRest /\ ui.sel # Nobody /\ shown.detail # "late"
        => ui.detail \in {ui.sel, Nobody}
  BY DEF FrontEndInv, AdminPages, DialogInv, AtRest, NoneAwaited
<1>4. QED
  BY <1>1, <1>2, <1>3 DEF ActsOnTheSelected

LEMMA ToldFollows ==
  ASSUME FrontEndInv
  PROVE  NothingReturns
<1>1. AtRest /\ shown.list = "current" => IdsOf(ui.items) \cap shown.told = {}
  BY GenuineAtRest
<1>2. page \in OneLoadPages => shown.list # "late"
  BY DEF FrontEndInv, FigurePages, OneLoadInv
<1>3. QED
  BY <1>1, <1>2 DEF NothingReturns

LEMMA HeroFollows ==
  ASSUME FrontEndInv
  PROVE  OneText /\ OneAlarm
<1> SUFFICES ASSUME page = "hero"
             PROVE  OneText /\ OneAlarm
  BY DEF OneText, OneAlarm
<1>1. HeroInv(ui)
  BY DEF FrontEndInv, LandingPages
<1>2. OneText
  BY <1>1 DEF OneText, HeroInv
<1>3. OneAlarm
  <2>1. SUFFICES ASSUME Phase(ui) = "blocked"
                 PROVE  /\ FlowDiagram(ui) = [agent |-> "INTERCEPTED", inward |-> TRUE, shield |-> "red",
                                            outward |-> FALSE, systems |-> "alarmed"]
                        /\ AnalysisBadges(ui)
    BY DEF OneAlarm, BlockedAlert
  <2> DEFINE to == Phase(ui) # "cleared"
             from == Phase(ui) \in {"normal", "cleared"}
  <2>2. PacketStreams(ui).to = TRUE /\ PacketStreams(ui).from = FALSE
    <3>1. PacketStreams(ui) = [to |-> to, from |-> from]
      BY DEF PacketStreams
    <3>2. to = TRUE /\ from = FALSE
      BY <2>1
    <3> HIDE DEF to, from
    <3>3. PacketStreams(ui) = [to |-> TRUE, from |-> FALSE]
      BY <3>1, <3>2
    <3>4. QED
      BY <3>3
  <2>3. /\ AgentCard(ui) = "INTERCEPTED" /\ TrusynShield(ui) = "red" /\ SystemsCard(ui) = "alarmed"
        /\ AnalysisBadges(ui)
    BY <2>1 DEF AgentCard, TrusynShield, SystemsCard, AnalysisBadges, Risky
  <2>4. QED
    BY <2>2, <2>3, Zenon DEF FlowDiagram
<1>4. QED
  BY <1>2, <1>3

LEMMA FeedFollows ==
  ASSUME FrontEndInv
  PROVE  OwnKeys
<1> SUFFICES ASSUME page = "feed"
             PROVE  OwnKeys
  BY DEF OwnKeys
<1>1. FeedInv(ui)
  BY DEF FrontEndInv, LandingPages
<1> DEFINE events == ui.events
           n == Len(events)
           kinds == {i \in DOMAIN events : events[i].status = "blocked"}
<1>2. /\ DOMAIN events = 1 .. n /\ n \in Nat /\ n <= 6 /\ ui.blocked \in Nat /\ ui.blocked >= 6
      /\ Distinct(events)
  BY <1>1 DEF FeedInv
<1>3. Cardinality(kinds) <= ui.blocked
  <2>1. kinds \subseteq 1 .. n
    BY <1>2
  <2> HIDE DEF kinds, n
  <2>2. IsFiniteSet(1 .. n) /\ Cardinality(1 .. n) = n
    BY <1>2, FS_Interval
  <2>3. Cardinality(kinds) <= n /\ Cardinality(kinds) \in Nat
    BY <2>1, <2>2, FS_Subset, FS_CardinalityType
  <2>4. QED
    BY <1>2, <2>3
<1>4. IsInjective([i \in DOMAIN events |-> events[i].id])
  BY <1>2 DEF IsInjective, Distinct
<1>5. IsInjective(ui.risks) /\ Len(ui.risks) = 8
  BY <1>1 DEF FeedInv
<1> HIDE DEF events
<1>6. FeedRows(ui) = events /\ RiskChart(ui) = ui.risks /\ FeedStats(ui).blocked = ui.blocked
  BY DEF FeedRows, RiskChart, FeedStats, events
<1>7. QED
  BY <1>2, <1>3, <1>4, <1>5, <1>6, Zenon DEF OwnKeys

LEMMA OneAtMost ==
  ASSUME NEW S, S = {} \/ \E x : S = {x}
  PROVE  Cardinality(S) <= 1
<1>1. CASE S = {}
  BY <1>1, FS_EmptySet
<1>2. ASSUME NEW x, S = {x}
      PROVE  Cardinality(S) <= 1
  <2>1. Cardinality({x}) = 1
    BY FS_Singleton
  <2>2. QED
    BY <1>2, <2>1
<1>3. QED
  BY <1>1, <1>2

LEMMA FramesFollow ==
  ASSUME FrontEndInv
  PROVE  OneLit
<1>1. page = "frame" => Sidebar(ui) = {ui.active}
  BY DEF FrontEndInv, FigurePages, Sidebar
<1>2. ASSUME page = "shell"
      PROVE  /\ LeftSidebar(ui) = {renderPage(ui)} /\ Cardinality(ui.menus) <= 1
             /\ ~ui.signedIn => calls = <<>> /\ ui.items = <<>> /\ ui.active = "overview"
  <2>1. ShellInv(ui, calls)
    BY <1>2 DEF FrontEndInv, FigurePages
  <2>2. LeftSidebar(ui) = {renderPage(ui)}
    BY <2>1 DEF ShellInv, LeftSidebar, renderPage
  <2>3. Cardinality(ui.menus) <= 1
    <3>1. ui.menus = {} \/ \E m : ui.menus = {m}
      BY <2>1 DEF ShellInv
    <3>2. QED
      BY <3>1, OneAtMost
  <2>4. QED
    BY <2>1, <2>2, <2>3 DEF ShellInv
<1>3. QED
  BY <1>1, <1>2 DEF OneLit

LEMMA WidgetsFollow ==
  ASSUME FrontEndInv
  PROVE  WidgetsAgree
<1>1. OneText /\ OneAlarm /\ OwnKeys /\ OneLit
  BY HeroFollows, FeedFollows, FramesFollow
<1>2. page = "how" => ui.intervals = 1 /\ StepList(ui)[ui.step] = "active"
  BY DEF FrontEndInv, LandingPages, HowInv, StepList, Steps
<1>3. /\ page = "architecture" => (CoreBadge(ui) <=> ui.pending # {})
      /\ page = "decision" => (ui.scanning <=> ui.pending # {})
      /\ page \in {"architecture", "decision"} => Cardinality(ui.pending) <= 1
  <2>1. ASSUME page = "architecture"
        PROVE  (CoreBadge(ui) <=> ui.pending # {}) /\ Cardinality(ui.pending) <= 1
    <3>1. ArchitectureInv(ui)
      BY <2>1 DEF FrontEndInv, LandingPages
    <3>2. ui.pending = {} \/ \E t : ui.pending = {t}
      BY <3>1 DEF ArchitectureInv
    <3>3. QED
      BY <3>1, <3>2, OneAtMost DEF ArchitectureInv, CoreBadge
  <2>2. ASSUME page = "decision"
        PROVE  (ui.scanning <=> ui.pending # {}) /\ Cardinality(ui.pending) <= 1
    <3>1. DecisionInv(ui)
      BY <2>2 DEF FrontEndInv, LandingPages
    <3>2. ui.pending = {} \/ \E t : ui.pending = {t}
      BY <3>1 DEF DecisionInv
    <3>3. QED
      BY <3>1, <3>2, OneAtMost DEF DecisionInv
  <2>3. QED
    BY <2>1, <2>2
<1>4. page = "navigation" => (ui.open => ui.mobile) /\ (ui.over # 0 => ~ui.mobile)
  BY DEF FrontEndInv, LandingPages, NavigationInv
<1>5. page = "features" => Len(ui.points) = 8
  BY DEF FrontEndInv, LandingPages, FeaturesInv
<1>6. page = "demos" => (ui.overflow = "hidden" <=> ui.at = "/demos")
  BY DEF FrontEndInv, LandingPages, DemosInv
<1>7. QED
  BY <1>1, <1>2, <1>3, <1>4, <1>5, <1>6 DEF WidgetsAgree

\* The state of a page, its requests and the rows at the server keep their
\* types, whatever the user does and whatever is answered (Tab.tla).
THEOREM TypesHold == Spec => []TypeOK
<1>1. FrontEndInv => TypeOK
  BY TypesFollow
<1>2. QED
  BY <1>1, Inductive, PTL

\* A page with nothing in flight shows no spinner and has no button disabled
\* for good: every flag that a handler raises is up only while a request that
\* will lower it is on its way, also after failures and time-outs.
THEOREM SpinnersEnd == Spec => []NoSpinnerForever
<1>1. FrontEndInv => NoSpinnerForever
  BY RestFollows
<1>2. QED
  BY <1>1, Inductive, PTL

\* A page at rest shows the list for the filter, the offset and the page size
\* on it, and no row twice, if the answer that came last was to the load sent
\* last; nothing is said of the list that an overtaken load leaves.
THEOREM ListsAreCurrent == Spec => []ListIsCurrent
<1>1. FrontEndInv => ListIsCurrent
  BY CurrentFollows
<1>2. QED
  BY <1>1, Inductive, PTL

\* The form over a selected row was filled from that row.  The details are those
\* of the row, unless they were refused in the Threat Center, or an answer to an
\* earlier click came late in the dialogs of Organizations and Threat
\* Intelligence, where the details of the one then stand under the other.
THEOREM FormIsOfTheRow == Spec => []ActsOnTheSelected
<1>1. FrontEndInv => ActsOnTheSelected
  BY SelectedFollows
<1>2. QED
  BY <1>1, Inductive, PTL

\* A row that the page was told is deleted is not on a page at rest, unless it
\* came with a list that was asked for before it was told; and the pages of the admin panel
\* that load once at a time never show older figures.
THEOREM DeletedStays == Spec => []NothingReturns
<1>1. FrontEndInv => NothingReturns
  BY ToldFollows
<1>2. QED
  BY <1>1, Inductive, PTL

\* The parts of the landing page and of the frames agree with each other
\* through every order of their timers, clicks and window sizes.
THEOREM PartsAgree == Spec => []WidgetsAgree
<1>1. FrontEndInv => WidgetsAgree
  BY WidgetsFollow
<1>2. QED
  BY <1>1, Inductive, PTL
=============================================================================

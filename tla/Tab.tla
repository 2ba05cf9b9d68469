-------------------------------- MODULE Tab --------------------------------
(***************************************************************************)
(* A browser tab of the web application or of the admin panel with one of  *)
(* its pages mounted.  The modules of the pages say what the page does; this*)
(* one has what they share: the state of the mounted page, the requests it *)
(* has sent and the rows at the server that they read and write.           *)
(*                                                                         *)
(* A step of a page is a whole handler with the render and the effects that*)
(* follow it: React batches the updates of a handler and flushes the effects*)
(* before the next event.  The handlers of a page interleave only with the *)
(* answers to what they sent.  The pages are modelled over a session store *)
(* whose snapshot is stable (ConsoleSession has the session).              *)
(***************************************************************************)
EXTENDS Naturals, Sequences, FiniteSets, SequencesExt

CONSTANTS Ids, Nobody,     \* the rows of a resource, and the id of none
          Manages,         \* whether the role of the user may change rows
          MaxSteps,        \* bounds what the user, the network's failures and
                           \* the rest of the world do
          MaxCalls         \* bounds the requests in flight when the user acts

VARIABLES
  page,     \* the page that is mounted
  ui,       \* the state of its hooks
  calls,    \* its requests in flight, in the order they were sent
  rows,     \* the rows at the server, newest first
  gone,     \* the ids of the rows it has had before
  shown,    \* what the list and the detail on the page were answered to, and
            \* the deletions it was told of: kept for the properties
  left      \* steps left of MaxSteps

tabVars == <<page, ui, calls, rows, gone, shown, left>>

\* What the pages tell rows apart by: a status, a severity, enabled or not.
Tags == {"on", "off"}
All == "ALL"
Blank == ""

Row == [id : Ids, tag : Tags]
NoRow == [id |-> Nobody, tag |-> Blank]

IdsOf(seq) == {seq[i].id : i \in DOMAIN seq}

\* The members of seq at the positions P, in their order; and the rows of seq
\* but those of one id.
Nth(P, k) == CHOOSE i \in P : Cardinality({j \in P : j <= i}) = k
Kept(seq, P) == [k \in 1 .. Cardinality(P) |-> seq[Nth(P, k)]]
Minus(seq, id) == Kept(seq, {i \in DOMAIN seq : seq[i].id # id})

ASSUME TabAssumption ==
  /\ IsFiniteSet(Ids) /\ Nobody \notin Ids /\ Manages \in BOOLEAN
  /\ MaxSteps \in Nat /\ MaxCalls \in Nat

-----------------------------------------------------------------------------
(* Requests.                                                               *)

\* What a list request asks for.
Query(u) == [offset |-> u.offset, limit |-> u.limit, filter |-> u.filter, search |-> u.search]
AnyQuery == [offset |-> 0, limit |-> Cardinality(Ids), filter |-> All, search |-> Nobody]

\* What is asked for of the rows, and what has nothing to do with them.
RowOperations == {"list", "detail", "create", "save", "delete"}
OtherOperations == {"export", "profile", "organization", "integration"}

\* A request with what its handler has closed over: the selection, a row and
\* the rows on the page.  passed: see Passing.
Call(op, query, sel, row, items) ==
  [op |-> op, query |-> query, sel |-> sel, row |-> row, items |-> items, passed |-> FALSE,
   done |-> FALSE, ok |-> FALSE, answer |-> <<>>, total |-> 0]

ListCall(u) == Call("list", Query(u), u.sel, NoRow, <<>>)
RowCall(op, row) == Call(op, AnyQuery, Nobody, row, <<>>)

NothingShown == [query |-> AnyQuery, list |-> "none", detail |-> "none", told |-> {}]

Without(i) == RemoveAt(calls, i)

\* Request i ends with ok: the page gets its answer, or it fails: the network
\* does, or 15 s have passed, whatever the server has done meanwhile.
Ends(i, ok) ==
  \/ calls[i].done /\ ok = calls[i].ok /\ UNCHANGED left
  \/ ~ok /\ left > 0 /\ left' = left - 1

\* The other requests when i has ended and put new rows on the page: lists or
\* details asked for before i are late, and a deletion has closed over old rows.
Passing(i) ==
  [k \in 1 .. Len(calls) - 1 |->
     IF \/ calls[i].op \in {"list", "detail"} /\ calls[k].op = calls[i].op /\ k < i
        \/ Without(i)[k].op = "delete"
       THEN [Without(i)[k] EXCEPT !.passed = TRUE] ELSE Without(i)[k]]

\* The other requests when the page is told that a row is deleted: the lists on
\* their way may still have it.
Overtaken(i) ==
  [k \in DOMAIN Without(i) |->
     IF Without(i)[k].op = "list" THEN [Without(i)[k] EXCEPT !.passed = TRUE] ELSE Without(i)[k]]

Matches(row, q) == (q.filter = All \/ row.tag = q.filter) /\ (q.search = Nobody \/ row.id = q.search)

Found(q) == Kept(rows, {i \in DOMAIN rows : Matches(rows[i], q)})

PageOf(q) ==
  SubSeq(Found(q), q.offset + 1,
         IF q.offset + q.limit < Len(Found(q)) THEN q.offset + q.limit ELSE Len(Found(q)))

\* The server gives an id to one row only.
FreshIds == Ids \ (IdsOf(rows) \cup gone)

Others(id) == Minus(rows, id)

\* The server answers request i.
Answered(i, ok, answer, total) ==
  calls' = [calls EXCEPT ![i].done = TRUE, ![i].ok = ok, ![i].answer = answer, ![i].total = total]

ServeList(i) ==
  /\ calls[i].op = "list"
  /\ Answered(i, TRUE, PageOf(calls[i].query), Len(Found(calls[i].query)))
  /\ UNCHANGED <<rows, gone>>

ServeDetail(i) ==
  /\ calls[i].op = "detail"
  /\ Answered(i, calls[i].row.id \in IdsOf(rows), <<>>, 0)
  /\ UNCHANGED <<rows, gone>>

ServeOther(i) ==
  /\ calls[i].op \in OtherOperations
  /\ Answered(i, TRUE, <<>>, 0)
  /\ UNCHANGED <<rows, gone>>

\* A row is refused where the model has no id left for it.
ServeCreate(i) ==
  /\ calls[i].op = "create"
  /\ IF FreshIds = {}
       THEN Answered(i, FALSE, <<>>, 0) /\ UNCHANGED rows
       ELSE LET row == [id |-> CHOOSE id \in FreshIds : TRUE, tag |-> calls[i].row.tag]
            IN  Answered(i, TRUE, <<row>>, 0) /\ rows' = <<row>> \o rows
  /\ UNCHANGED gone

\* An updated row is the newest.  The server refuses blank values, and rows it
\* does not have.
ServeSave(i) ==
  LET row == calls[i].row IN
  /\ calls[i].op = "save"
  /\ IF row.id \in IdsOf(rows) /\ row.tag \in Tags
       THEN Answered(i, TRUE, <<row>>, 0) /\ rows' = <<row>> \o Others(row.id)
       ELSE Answered(i, FALSE, <<>>, 0) /\ UNCHANGED rows
  /\ UNCHANGED gone

ServeDelete(i) ==
  LET id == calls[i].row.id IN
  /\ calls[i].op = "delete"
  /\ Answered(i, id \in IdsOf(rows), <<>>, 0)
  /\ rows' = Others(id)
  /\ gone' = gone \cup {id}

Serve ==
  /\ \E i \in DOMAIN calls :
       /\ ~calls[i].done
       /\ \/ ServeList(i) \/ ServeDetail(i) \/ ServeOther(i)
          \/ ServeCreate(i) \/ ServeSave(i) \/ ServeDelete(i)
  /\ UNCHANGED <<page, ui, shown, left>>

-----------------------------------------------------------------------------
(* What else happens.                                                      *)

\* One of the bounded steps is taken.
Spend == left > 0 /\ left' = left - 1

\* The user acts on a page.
Acts == Spend /\ Len(calls) < MaxCalls

\* The rest of the world adds a row, or takes the newest away.
World ==
  /\ Spend
  /\ \/ \E id \in FreshIds : rows' = <<[id |-> id, tag |-> "on"]>> \o rows /\ gone' = gone
     \/ rows # <<>> /\ rows' = Tail(rows) /\ gone' = gone \cup {rows[1].id}
  /\ UNCHANGED <<page, ui, calls, shown>>
=============================================================================

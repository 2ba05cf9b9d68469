---------------------------- MODULE AuditLogsPage ----------------------------
(***************************************************************************)
(* The Audit Logs of the web application: a list with a search, a severity *)
(* and a page size, each of which loads it again from its first row, and   *)
(* the details of the selected log, taken from the list.                   *)
(***************************************************************************)
EXTENDS WebLists

AuditState == Blankness

AuditInit == page = "audit" /\ ui = AuditState /\ calls = <<ListCall(AuditState)>>

\* The controls that each part of the page offers in state u.
AuditToolbar(u) == IF u.refreshing THEN {} ELSE {"refresh"}
AuditList(u) == Pickable(u) \cup Paging(u)
AuditDetail(u) == SelectedRow(u)

\* The inputs of the filters: every key typed into the search is a change.
AuditFilters(u) ==
  {[u EXCEPT !.offset = 0, !.search = id] : id \in Ids \cup {Nobody}}
    \cup {[u EXCEPT !.offset = 0, !.filter = f] : f \in {All, "on"}}
    \cup {[u EXCEPT !.offset = 0, !.limit = n] : n \in 1 .. Cardinality(Ids)}

-----------------------------------------------------------------------------
AuditRefresh ==
  /\ "refresh" \in AuditToolbar(ui)
  /\ Render([ui EXCEPT !.refreshing = TRUE], Append(calls, ListCall(ui)), FALSE)
  /\ UNCHANGED shown

AuditLoaded(i, ok) ==
  /\ calls[i].op = "list"
  /\ Render(IF ok THEN Listed(ui, calls[i]) ELSE Unlisted(ui), Passing(i), ok)
  /\ shown' = ShownAfter(calls[i], ok)

AuditFilter == \E u \in AuditFilters(ui) \ {ui} : Render(u, calls, FALSE) /\ UNCHANGED shown

AuditPick ==
  \E c \in AuditList(ui) :
    /\ Render(IF c \in Ids THEN [ui EXCEPT !.sel = c] ELSE Turned(ui, c), calls, FALSE)
    /\ UNCHANGED shown

AuditUser == AuditRefresh \/ AuditFilter \/ AuditPick

AuditAnswer == \E i \in DOMAIN calls, ok \in BOOLEAN : Ends(i, ok) /\ AuditLoaded(i, ok)
=============================================================================

----------------------------- MODULE AdminLists -----------------------------
(***************************************************************************)
(* The four list pages of the admin panel.  A function loads the list, at  *)
(* an offset where the page has one; the effect calls it only when the     *)
(* filter changes, a search is sent when the user asks.  A click on a row  *)
(* opens a dialog over the page, on two of the pages with a request of its *)
(* own that nothing cancels.                                               *)
(***************************************************************************)
EXTENDS Tab

AdminBlankness ==
  [items |-> <<>>, total |-> 0, offset |-> 0, limit |-> Cardinality(Ids), filter |-> All,
   search |-> Nobody, loading |-> TRUE, sel |-> Nobody, detail |-> Nobody, exporting |-> FALSE]

\* The list of organizations, of threats or of audit logs.
Asking(u, offset) == Call("list", [Query(u) EXCEPT !.offset = offset], u.sel, NoRow, <<>>)

\* The services of the dialogs and of the export, which asks past the client:
\* without its time-out, and without new tokens.
apiMonitoringRequests(id) == RowCall("detail", [NoRow EXCEPT !.id = id])
investigation(id) == RowCall("detail", [NoRow EXCEPT !.id = id])
exportAuditCsv == RowCall("export", NoRow)

\* The list function is called: from the state u and for an offset.
Loading(u, offset) ==
  /\ ui' = [u EXCEPT !.loading = TRUE]
  /\ calls' = Append(calls, Asking(u, offset))
  /\ UNCHANGED shown

\* What the list, and what the dialog, were answered to.
ListEnded(i, ok) ==
  shown' = IF ok THEN [shown EXCEPT !.query = calls[i].query,
                                   !.list = IF calls[i].passed THEN "late" ELSE "current"]
                 ELSE [shown EXCEPT !.list = IF calls[i].passed THEN @ ELSE "failed"]

DetailEnded(i, ok) ==
  shown' = [shown EXCEPT !.detail = IF calls[i].passed THEN "late" ELSE IF ok THEN "current" ELSE "failed"]

\* Nothing but the dialog can be used while it is open.
Closed(u) == u.sel = Nobody
Close == ui.sel # Nobody /\ ui' = [ui EXCEPT !.sel = Nobody] /\ UNCHANGED <<calls, shown>>

Search(id) == ui' = [ui EXCEPT !.search = id] /\ UNCHANGED <<calls, shown>>

-----------------------------------------------------------------------------
(* Organizations.                                                          *)

OrgState == [AdminBlankness EXCEPT !.limit = 1]

OrgHeader(u) == IF u.loading THEN {} ELSE {"refresh"}
OrgFilters == {"apply", "enter"}
OrgTable(u) ==
  IdsOf(u.items) \cup (IF u.offset = 0 THEN {} ELSE {"prev"})
                \cup (IF u.offset + u.limit >= u.total THEN {} ELSE {"next"})
OrgDialog(u) == IF u.sel = Nobody THEN {} ELSE {"close"}

loadOrganizations(offset) == Loading(ui, offset)

OrgLoaded(i, ok) ==
  /\ calls[i].op = "list"
  /\ ui' = IF ok THEN [ui EXCEPT !.items = calls[i].answer, !.total = calls[i].total,
                                 !.offset = calls[i].query.offset, !.loading = FALSE]
                 ELSE [ui EXCEPT !.loading = FALSE]
  /\ calls' = Passing(i)
  /\ ListEnded(i, ok)

OrgStatus(f) == Loading([ui EXCEPT !.filter = f], 0)

OrgTurn(way) ==
  loadOrganizations(IF way = "next" THEN ui.offset + ui.limit
                    ELSE IF ui.offset > ui.limit THEN ui.offset - ui.limit ELSE 0)

\* The requests of the organization before stay until the answer.
openOrganization(id) ==
  /\ ui' = [ui EXCEPT !.sel = id]
  /\ calls' = Append(calls, apiMonitoringRequests(id))
  /\ UNCHANGED shown

OrgOpened(i, ok) ==
  /\ calls[i].op = "detail"
  /\ ui' = [ui EXCEPT !.detail = IF ok THEN calls[i].row.id ELSE Nobody]
  /\ calls' = Passing(i)
  /\ DetailEnded(i, ok)

OrgUser ==
  \/ Closed(ui) /\ \/ "refresh" \in OrgHeader(ui) /\ loadOrganizations(ui.offset)
                   \/ \E c \in OrgFilters : loadOrganizations(0)
                   \/ \E f \in {All, "on"} \ {ui.filter} : OrgStatus(f)
                   \/ \E id \in (Ids \cup {Nobody}) \ {ui.search} : Search(id)
                   \/ \E c \in OrgTable(ui) : IF c \in Ids THEN openOrganization(c) ELSE OrgTurn(c)
  \/ "close" \in OrgDialog(ui) /\ Close

OrgAnswer ==
  \E i \in DOMAIN calls, ok \in BOOLEAN : Ends(i, ok) /\ (OrgLoaded(i, ok) \/ OrgOpened(i, ok))

-----------------------------------------------------------------------------
(* AI agents: one page of them, searched in the browser.                   *)

FleetState == AdminBlankness

FleetHeader(u) == IF u.loading THEN {} ELSE {"refresh"}
FleetFilters(u) == {All, "on"} \ {u.filter}
FleetTable(u) == IdsOf(u.items) \cap (IF u.search = Nobody THEN Ids ELSE {u.search})
FleetDialog(u) == IF u.sel = Nobody THEN {} ELSE {"close"}

\* The search is not sent.
agentService(u) == Call("list", [Query(u) EXCEPT !.search = Nobody], u.sel, NoRow, <<>>)

FleetLoad(u) ==
  /\ ui' = [u EXCEPT !.loading = TRUE]
  /\ calls' = Append(calls, agentService(u))
  /\ UNCHANGED shown

FleetLoaded(i, ok) ==
  /\ calls[i].op = "list"
  /\ ui' = [ui EXCEPT !.items = IF ok THEN calls[i].answer ELSE @, !.loading = FALSE]
  /\ calls' = Passing(i)
  /\ ListEnded(i, ok)

FleetUser ==
  \/ Closed(ui) /\ \/ "refresh" \in FleetHeader(ui) /\ FleetLoad(ui)
                   \/ \E f \in FleetFilters(ui) : FleetLoad([ui EXCEPT !.filter = f])
                   \/ \E id \in (Ids \cup {Nobody}) \ {ui.search} : Search(id)
                   \/ \E id \in FleetTable(ui) : ui' = [ui EXCEPT !.sel = id] /\ UNCHANGED <<calls, shown>>
  \/ "close" \in FleetDialog(ui) /\ Close

FleetAnswer == \E i \in DOMAIN calls, ok \in BOOLEAN : Ends(i, ok) /\ FleetLoaded(i, ok)

-----------------------------------------------------------------------------
(* Threat intelligence.                                                    *)

IntelState == AdminBlankness

IntelHeader(u) == IF u.loading THEN {} ELSE {"refresh"}
IntelList(u) == IdsOf(u.items) \cup ({All, "on"} \ {u.filter})
IntelSheet(u) == IF u.sel = Nobody THEN {} ELSE {"close"}

IntelLoaded(i, ok) ==
  /\ calls[i].op = "list"
  /\ ui' = [ui EXCEPT !.items = IF ok THEN calls[i].answer ELSE @, !.loading = FALSE]
  /\ calls' = Passing(i)
  /\ ListEnded(i, ok)

openInvestigation(id) ==
  /\ ui' = [ui EXCEPT !.sel = id, !.detail = Nobody]
  /\ calls' = Append(calls, investigation(id))
  /\ UNCHANGED shown

IntelOpened(i, ok) ==
  /\ calls[i].op = "detail"
  /\ ui' = [ui EXCEPT !.detail = IF ok THEN calls[i].row.id ELSE Nobody]
  /\ calls' = Passing(i)
  /\ DetailEnded(i, ok)

IntelUser ==
  \/ Closed(ui) /\ \/ "refresh" \in IntelHeader(ui) /\ Loading(ui, 0)
                   \/ \E c \in IntelList(ui) :
                        IF c \in Ids THEN openInvestigation(c) ELSE Loading([ui EXCEPT !.filter = c], 0)
  \/ "close" \in IntelSheet(ui) /\ Close

IntelAnswer ==
  \E i \in DOMAIN calls, ok \in BOOLEAN : Ends(i, ok) /\ (IntelLoaded(i, ok) \/ IntelOpened(i, ok))

-----------------------------------------------------------------------------
(* Audit logs, with an export.  The time range is one more filter.         *)

TrailState == [AdminBlankness EXCEPT !.limit = 1]

TrailHeader(u) == IF u.exporting THEN {} ELSE {"export"}
TrailFilters(u) == (IF u.loading THEN {} ELSE {"apply"}) \cup {"enter"}
TrailTable(u) ==
  IdsOf(u.items) \cup (IF u.offset = 0 THEN {} ELSE {"prev"})
                \cup (IF u.offset + u.limit >= u.total THEN {} ELSE {"next"})
TrailDialog(u) == IF u.sel = Nobody THEN {} ELSE {"close"}

TrailLoaded(i, ok) ==
  /\ calls[i].op = "list"
  /\ ui' = IF ok THEN [ui EXCEPT !.items = calls[i].answer, !.total = calls[i].total,
                                 !.offset = calls[i].query.offset, !.loading = FALSE]
                 ELSE [ui EXCEPT !.loading = FALSE]
  /\ calls' = Passing(i)
  /\ ListEnded(i, ok)

TrailTurn(way) ==
  Loading(ui, IF way = "next" THEN ui.offset + ui.limit
              ELSE IF ui.offset > ui.limit THEN ui.offset - ui.limit ELSE 0)

handleExportCsv ==
  /\ "export" \in TrailHeader(ui)
  /\ ui' = [ui EXCEPT !.exporting = TRUE]
  /\ calls' = Append(calls, exportAuditCsv)
  /\ UNCHANGED shown

TrailExported(i, ok) ==
  /\ calls[i].op = "export"
  /\ ui' = [ui EXCEPT !.exporting = FALSE]
  /\ calls' = Without(i)
  /\ UNCHANGED shown

TrailUser ==
  \/ Closed(ui) /\ \/ handleExportCsv
                   \/ \E c \in TrailFilters(ui) : Loading(ui, 0)
                   \/ \E f \in {All, "on"} \ {ui.filter} : Loading([ui EXCEPT !.filter = f], 0)
                   \/ \E id \in (Ids \cup {Nobody}) \ {ui.search} : Search(id)
                   \/ \E c \in TrailTable(ui) :
                        IF c \in Ids THEN ui' = [ui EXCEPT !.sel = c] /\ UNCHANGED <<calls, shown>>
                                     ELSE TrailTurn(c)
  \/ "close" \in TrailDialog(ui) /\ Close

TrailAnswer ==
  \E i \in DOMAIN calls, ok \in BOOLEAN : Ends(i, ok) /\ (TrailLoaded(i, ok) \/ TrailExported(i, ok))
=============================================================================

----------------------------- MODULE Dashboards -----------------------------
(***************************************************************************)
(* The pages that only show figures: the dashboard and the analytics of the*)
(* web application; the overview, the API monitor and the system health of *)
(* the admin panel.  Each loads everything it shows with one function,     *)
(* several requests at once that succeed or fail together (Promise.all),   *)
(* here one request for rows: an agent, a threat, a request or a component *)
(* each.                                                                   *)
(***************************************************************************)
EXTENDS Tab

DashBlankness ==
  [items |-> <<>>, offset |-> 0, limit |-> Cardinality(Ids), filter |-> All, search |-> Nobody,
   loading |-> TRUE, refreshing |-> FALSE, loaded |-> FALSE]

\* A load in state u; a failed one leaves the figures of the one before.
DashCall(u) == Call("list", Query(u), Nobody, NoRow, <<>>)

\* The services that the loads ask.  Only analytics has parameters that the user
\* chooses: the dates, the granularity, an agent.
dashboardService(u) == DashCall(u)
analyticsService(u) == DashCall(u)
adminService(u) == DashCall(u)
healthService(u) == DashCall(u)

DashEnded(i, ok, failed) ==
  /\ calls[i].op = "list"
  /\ ui' = IF ok THEN [ui EXCEPT !.items = calls[i].answer, !.loaded = TRUE,
                                 !.loading = FALSE, !.refreshing = FALSE]
                 ELSE [failed EXCEPT !.loading = FALSE, !.refreshing = FALSE]
  /\ calls' = Passing(i)
  /\ shown' = IF ok THEN [shown EXCEPT !.query = calls[i].query,
                                       !.list = IF calls[i].passed THEN "late" ELSE "current"]
                    ELSE [shown EXCEPT !.list = IF calls[i].passed THEN @ ELSE "failed"]

\* What a panel shows that has a text of its own for no data.
PanelOf(u) == IF u.items = <<>> THEN "none" ELSE "rows"

-----------------------------------------------------------------------------
(* The dashboard, refreshed by a timer and by its button.                  *)

SummaryState == DashBlankness
SummaryHeader(u) == IF u.refreshing THEN {} ELSE {"refresh"}
SummaryCards(u) == IF u.loading THEN "--" ELSE IF u.loaded THEN "figures" ELSE "zeros"
SummaryCharts(u) == PanelOf(u)
SummaryLists(u) == PanelOf(u)

loadSummary(refresh) ==
  /\ ui' = IF refresh THEN [ui EXCEPT !.refreshing = TRUE] ELSE [ui EXCEPT !.loading = TRUE]
  /\ calls' = Append(calls, dashboardService(ui))
  /\ UNCHANGED shown

SummaryUser == "refresh" \in SummaryHeader(ui) /\ loadSummary(TRUE)
SummaryTimer == loadSummary(TRUE)
SummaryAnswer == \E i \in DOMAIN calls, ok \in BOOLEAN : Ends(i, ok) /\ DashEnded(i, ok, ui)

-----------------------------------------------------------------------------
(* Analytics: an effect loads when the dates or the granularity change, and*)
(* so does a button that is never disabled.                                *)

AnalyticsState == DashBlankness
AnalyticsHeader(u) == IF u.refreshing THEN {} ELSE {"refresh"}
AnalyticsApply == {"apply"}
AnalyticsFilters(u) ==
  {[u EXCEPT !.search = id] : id \in Ids \cup {Nobody}} \cup {[u EXCEPT !.filter = f] : f \in {All, "on"}}
AnalyticsCards(u) == IF u.loaded THEN "figures" ELSE "zeros"
AnalyticsCharts(u) == PanelOf(u)

AnalyticsLoad(u, busy) ==
  /\ ui' = busy
  /\ calls' = Append(calls, analyticsService(u))
  /\ UNCHANGED shown

AnalyticsUser ==
  \/ \E c \in AnalyticsHeader(ui) \cup AnalyticsApply :
       AnalyticsLoad(ui, [ui EXCEPT !.refreshing = TRUE])
  \/ \E u \in AnalyticsFilters(ui) \ {ui} : AnalyticsLoad(u, [u EXCEPT !.loading = TRUE])
AnalyticsAnswer == \E i \in DOMAIN calls, ok \in BOOLEAN : Ends(i, ok) /\ DashEnded(i, ok, ui)

-----------------------------------------------------------------------------
(* The pages of the admin panel: one load at a time.                       *)

OverviewState == DashBlankness
OverviewHeader(u) == IF u.loading THEN {} ELSE {"refresh"}
OverviewCards(u) == IF u.loaded THEN "figures" ELSE "zeros"
OverviewFeed(u) == PanelOf(u)
OverviewCharts(u) == PanelOf(u)
OverviewAgents(u) == PanelOf(u)

OverviewLoad ==
  /\ ui' = [ui EXCEPT !.loading = TRUE]
  /\ calls' = Append(calls, adminService(ui))
  /\ UNCHANGED shown
OverviewUser == "refresh" \in OverviewHeader(ui) /\ OverviewLoad
OverviewAnswer == \E i \in DOMAIN calls, ok \in BOOLEAN : Ends(i, ok) /\ DashEnded(i, ok, ui)

MonitorState == DashBlankness
MonitorHeader(u) == IF u.loading THEN {} ELSE {"refresh"}
MonitorCards(u) == IF u.loaded THEN "figures" ELSE "zeros"
MonitorStream(u) == PanelOf(u)
MonitorCharts(u) == PanelOf(u)

MonitorLoad ==
  /\ ui' = [ui EXCEPT !.loading = TRUE]
  /\ calls' = Append(calls, adminService(ui))
  /\ UNCHANGED shown
MonitorUser == "refresh" \in MonitorHeader(ui) /\ MonitorLoad
MonitorAnswer == \E i \in DOMAIN calls, ok \in BOOLEAN : Ends(i, ok) /\ DashEnded(i, ok, ui)

\* The components: the tag of a row says whether it is operational.  No
\* components, before the first answer, are all operational.
HealthState == DashBlankness
allOperational(u) == \A i \in DOMAIN u.items : u.items[i].tag = "on"
HealthHeader(u) ==
  {IF allOperational(u) THEN "all operational" ELSE "degraded"}
    \cup (IF u.loading THEN {} ELSE {"refresh"})
HealthCards(u) == IF u.items = <<>> THEN "zeros" ELSE "figures"
HealthCharts(u) == PanelOf(u)
HealthIncidents(u) == {u.items[i].id : i \in {k \in DOMAIN u.items : u.items[k].tag # "on"}}

HealthLoad ==
  /\ ui' = [ui EXCEPT !.loading = TRUE]
  /\ calls' = Append(calls, healthService(ui))
  /\ UNCHANGED shown
HealthUser == "refresh" \in HealthHeader(ui) /\ HealthLoad
HealthAnswer == \E i \in DOMAIN calls, ok \in BOOLEAN : Ends(i, ok) /\ DashEnded(i, ok, ui)
=============================================================================

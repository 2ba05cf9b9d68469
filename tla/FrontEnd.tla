------------------------------ MODULE FrontEnd ------------------------------
(***************************************************************************)
(* A tab of one of the three front ends with one of its pages: the web     *)
(* application, the admin panel or the landing page.                       *)
(***************************************************************************)
EXTENDS PolicyEnginePage, AgentsPage, ThreatCenterPage, AuditLogsPage, AdminLists,
        Frames, SettingsPages, GovernancePage, LandingSections

ListPages == {"policies", "agents", "threats", "audit"}
AdminListPages == {"organizations", "fleet", "intel", "trail"}
OneLoadPages == {"overview", "monitor", "health"}
DashPages == OneLoadPages \cup {"dashboard", "analytics", "frame", "shell"}
WritingPages == {"settings", "platform", "governance"}

CONSTANT Rows    \* what the server may have when the page is opened

\* An id is a key of its table.
ASSUME FrontEndAssumption ==
  \A seq \in Rows : seq \in Seq(Row) /\ IsInjective([i \in DOMAIN seq |-> seq[i].id])

-----------------------------------------------------------------------------
(* Mounting: the state of the hooks, and what the effects ask for.         *)

Mounted(p, u, first) == page = p /\ ui = u /\ calls = first

Mount ==
  \/ PolicyInit \/ AgentInit \/ ThreatInit \/ AuditInit
  \/ Mounted("organizations", OrgState, <<Asking(OrgState, 0)>>)
  \/ Mounted("fleet", FleetState, <<Asking(FleetState, 0)>>)
  \/ Mounted("intel", IntelState, <<Asking(IntelState, 0)>>)
  \/ Mounted("trail", TrailState, <<Asking(TrailState, 0)>>)
  \/ Mounted("dashboard", SummaryState, <<dashboardService(SummaryState)>>)
  \/ Mounted("frame", FrameState, <<dashboardService(FrameState)>>)
  \/ Mounted("shell", ShellState, <<adminService(ShellState)>>)
  \/ Mounted("analytics", AnalyticsState, <<analyticsService(AnalyticsState)>>)
  \/ Mounted("overview", OverviewState, <<adminService(OverviewState)>>)
  \/ Mounted("monitor", MonitorState, <<adminService(MonitorState)>>)
  \/ Mounted("health", HealthState, <<healthService(HealthState)>>)
  \/ Mounted("settings", SettingsState, <<KeysCall>>)
  \/ Mounted("platform", AdminSettingsState, <<KeysCall>>)
  \/ Mounted("governance", GovernanceState, <<GovernanceCall(NoRow)>>)

Displayed ==
  \/ Mounted("hero", HeroState, <<>>) \/ Mounted("how", HowState, <<>>)
  \/ Mounted("architecture", ArchitectureState, <<>>) \/ Mounted("decision", DecisionState, <<>>)
  \/ Mounted("feed", FeedState, <<>>) \/ Mounted("navigation", NavigationState, <<>>)
  \/ Mounted("features", FeaturesState, <<>>) \/ Mounted("demos", DemoState, <<>>)

-----------------------------------------------------------------------------
(* The user acts, an answer or a failure arrives, a timer fires.           *)

User ==
  /\ Acts
  /\ \/ page = "policies" /\ PolicyUser
     \/ page = "agents" /\ AgentUser
     \/ page = "threats" /\ ThreatUser
     \/ page = "audit" /\ AuditUser
     \/ page = "organizations" /\ OrgUser
     \/ page = "fleet" /\ FleetUser
     \/ page = "intel" /\ IntelUser
     \/ page = "trail" /\ TrailUser
     \/ page = "dashboard" /\ (SummaryUser \/ SummaryTimer)
     \/ page = "frame" /\ (FrameUser \/ FramePoll)
     \/ page = "shell" /\ ShellUser
     \/ page = "analytics" /\ AnalyticsUser
     \/ page = "overview" /\ OverviewUser
     \/ page = "monitor" /\ MonitorUser
     \/ page = "health" /\ HealthUser
     \/ page = "settings" /\ SettingsUser
     \/ page = "platform" /\ AdminSettingsUser
     \/ page = "governance" /\ GovernanceUser
  /\ UNCHANGED <<page, rows, gone>>

Answer ==
  /\ \/ page = "policies" /\ PolicyAnswer
     \/ page = "agents" /\ AgentAnswer
     \/ page = "threats" /\ ThreatAnswer
     \/ page = "audit" /\ AuditAnswer
     \/ page = "organizations" /\ OrgAnswer
     \/ page = "fleet" /\ FleetAnswer
     \/ page = "intel" /\ IntelAnswer
     \/ page = "trail" /\ TrailAnswer
     \/ page = "dashboard" /\ SummaryAnswer
     \/ page = "frame" /\ FrameAnswer
     \/ page = "shell" /\ ShellAnswer
     \/ page = "analytics" /\ AnalyticsAnswer
     \/ page = "overview" /\ OverviewAnswer
     \/ page = "monitor" /\ MonitorAnswer
     \/ page = "health" /\ HealthAnswer
     \/ page = "settings" /\ SettingsAnswer
     \/ page = "platform" /\ AdminSettingsAnswer
     \/ page = "governance" /\ GovernanceAnswer
  /\ UNCHANGED <<page, rows, gone>>

SaveTimer == page = "platform" /\ resetSaveState /\ UNCHANGED <<page, rows, gone>>

\* The landing page asks no server.
Outside == page \notin Widgets /\ World

Init ==
  /\ \/ Mount /\ rows \in Rows
     \/ Displayed /\ rows = <<>>
  /\ gone = {} /\ shown = NothingShown /\ left = MaxSteps

Next ==
  \/ User \/ Answer \/ SaveTimer \/ Serve \/ Outside
  \/ LandingNext \/ LandingFeed \/ SectionsNext \/ ObservabilityTick

Spec == Init /\ [][Next]_tabVars

\* A request ends: it is answered, or given up after 15 s.  A timer fires.
FairSpec == Spec /\ WF_tabVars(Serve) /\ WF_tabVars(Answer) /\ WF_tabVars(SaveTimer)

-----------------------------------------------------------------------------
(* Properties.                                                             *)

\* The types of what the pages have in common.
TypeOK ==
  /\ page \in ListPages \cup AdminListPages \cup DashPages \cup WritingPages \cup Widgets
  /\ rows \in Seq(Row) /\ gone \subseteq Ids /\ left \in 0 .. MaxSteps
  /\ \A i \in DOMAIN calls :
       /\ calls[i].op \in RowOperations \cup OtherOperations
       /\ calls[i].query.offset \in Nat /\ calls[i].query.search \in Ids \cup {Nobody}
       /\ calls[i].answer \in Seq(Row) /\ {calls[i].passed, calls[i].done, calls[i].ok} \subseteq BOOLEAN
  /\ page \notin Widgets => ui.items \in Seq(Row) /\ ui.loading \in BOOLEAN
  /\ page \in ListPages \cup AdminListPages => {ui.offset, ui.total} \subseteq Nat /\ ui.sel \in Ids \cup {Nobody}

AtRest == calls = <<>> /\ page \notin Widgets

\* A page with nothing in flight shows no spinner and has no button disabled
\* for good, whatever was answered, refused or lost in which order; and the
\* save indicator of the admin panel goes away.  Not so the investigation of
\* the Threat Center: with nothing selected its spinner stays.
NoSpinnerForever ==
  AtRest =>
    /\ ~ui.loading /\ (page \notin AdminListPages => ~ui.refreshing)
    /\ page \in ListPages => ~ui.saving /\ ~ui.creating /\ ~ui.deleting
    /\ page = "threats" /\ ui.sel # Nobody => ~ui.detailLoading
    /\ page = "trail" => ~ui.exporting
    /\ page = "settings" => ui.saving = {} /\ ~ui.toggling /\ ~ui.creating /\ ui.deleting = Nobody
    /\ page = "platform" => ui.saveState # "saving" /\ (ui.resets = 0 => ~saveIndicator(ui))
    /\ page = "governance" => ~ui.saving

\* A page with nothing in flight shows the list for the filter, the offset and
\* the page size on it, and no row twice, if the answer that came last was to the
\* load sent last, and was none that failed or that a row was put into since.
\* Only so: the pages take whichever answer comes last, and a load that a newer
\* one overtakes leaves them with the list of an earlier filter.  A search of the admin panel counts
\* when it is sent; its pager tells the page of the rows above it even when
\* answers overtake each other.
ListIsCurrent ==
  /\ page \in {"organizations", "trail"} => ui.offset = shown.query.offset
  /\ AtRest /\ shown.list = "current" =>
       /\ page \in ListPages \cup {"analytics"} => shown.query = Query(ui)
       /\ page \in AdminListPages => shown.query = [Query(ui) EXCEPT !.search = shown.query.search]
       /\ IsInjective([i \in DOMAIN ui.items |-> ui.items[i].id])

\* The user acts on the row that is selected.  The form over it was filled from
\* that row: what is saved was never typed over another.  The details on a page
\* at rest are those of the row, or none.  In the Threat Center they are so
\* unless they were refused; in the dialogs of Organizations and Threat
\* Intelligence unless the answer to an earlier click came after that to a later
\* one, which leaves the details of the one under the other's name.
ActsOnTheSelected ==
  /\ page \in {"policies", "agents"} /\ SelectedRow(ui) # NoRow => ui.draft.id = ui.sel
  /\ page = "threats" /\ AtRest /\ shown.detail # "failed" => ui.detail = ui.sel
  /\ page \in {"organizations", "intel"} /\ AtRest /\ ui.sel # Nobody /\ shown.detail # "late"
       => ui.detail \in {ui.sel, Nobody}

\* A row that the page was told is deleted does not come back with a list that
\* was asked for after; one asked for before may still bring it.  And the figures of the admin panel never go
\* back to older ones.
NothingReturns ==
  /\ AtRest /\ shown.list = "current" => IdsOf(ui.items) \cap shown.told = {}
  /\ page \in OneLoadPages => shown.list # "late"

\* The parts of a page agree.  The landing page: one prompt is typed at a time,
\* and the parts of the diagram agree on the phase; one interval plays the
\* steps; a time-out has ended before the next begins; the keys of the feed and
\* of the charts are distinct; the menu is closed in a wide window; one can
\* scroll unless the demos are shown.  The frames: the item lit is that of the
\* page shown, and in the admin panel one menu is open, none without a user.
OneText ==
  page = "hero" =>
    /\ ui.typing \subseteq {Risky(ui)} /\ Len(ui.displayed) <= TextLength
    /\ \A i \in DOMAIN ui.displayed : ui.displayed[i][1] = Risky(ui)
OneAlarm ==
  page = "hero" /\ BlockedAlert(ui) =>
    /\ FlowDiagram(ui) = [agent |-> "INTERCEPTED", inward |-> TRUE, shield |-> "red",
                          outward |-> FALSE, systems |-> "alarmed"]
    /\ AnalysisBadges(ui)
OwnKeys ==
  page = "feed" =>
    /\ IsInjective([i \in DOMAIN FeedRows(ui) |-> FeedRows(ui)[i].id]) /\ Len(FeedRows(ui)) <= 6
    /\ IsInjective(RiskChart(ui)) /\ Len(RiskChart(ui)) = 8
    /\ Cardinality({i \in DOMAIN FeedRows(ui) : FeedRows(ui)[i].status = "blocked"}) <= FeedStats(ui).blocked
OneLit ==
  /\ page = "frame" => Sidebar(ui) = {ui.active}
  /\ page = "shell" => LeftSidebar(ui) = {renderPage(ui)} /\ Cardinality(ui.menus) <= 1
  /\ page = "shell" /\ ~ui.signedIn => calls = <<>> /\ ui.items = <<>> /\ ui.active = "overview"
WidgetsAgree ==
  /\ OneText /\ OneAlarm /\ OwnKeys /\ OneLit
  /\ page = "how" => ui.intervals = 1 /\ StepList(ui)[ui.step] = "active"
  /\ page \in {"architecture", "decision"} => Cardinality(ui.pending) <= 1
  /\ page = "architecture" => (CoreBadge(ui) <=> ui.pending # {})
  /\ page = "decision" => (ui.scanning <=> ui.pending # {})
  /\ page = "navigation" => (ui.open => ui.mobile) /\ (ui.over # 0 => ~ui.mobile)
  /\ page = "features" => Len(ui.points) = 8
  /\ page = "demos" => (ui.overflow = "hidden" <=> ui.at = "/demos")

\* The effects never load for ever: when the user and the others have done
\* what they do, the page comes to rest.
Settles == <>[](calls = <<>>)
=============================================================================

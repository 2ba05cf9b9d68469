---------------------------- MODULE LandingPage ----------------------------
(***************************************************************************)
(* The landing page: widgets that change on their own, by timers of the    *)
(* browser, and by what the visitor does.  Nothing is asked of a server,   *)
(* and no widget depends on another: each is checked as a page of its own. *)
(* What the parts of a widget show is an operator of its state.            *)
(***************************************************************************)
EXTENDS Tab

LandingWidgets == {"hero", "how", "architecture", "decision", "feed", "navigation"}

-----------------------------------------------------------------------------
(* The hero: a cycle of phases, and a prompt that is typed while they last.*)

PhaseSequence == <<"normal", "analyzing", "blocked", "cleared">>
TextLength == 2    \* of both prompts, some sixty characters in the code

HeroState == [phase |-> 1, delay |-> TRUE, typing |-> {}, displayed |-> <<>>, at |-> 0]

Phase(u) == PhaseSequence[u.phase]
Risky(u) == Phase(u) \in {"analyzing", "blocked"}

\* What the parts of the diagram say of the phase.
PacketStreams(u) ==
  [to |-> Phase(u) # "cleared", from |-> Phase(u) \in {"normal", "cleared"}]
AnalysisBadges(u) == Risky(u)
TrusynShield(u) ==
  IF Phase(u) = "blocked" THEN "red" ELSE IF Phase(u) = "analyzing" THEN "amber" ELSE "purple"
AgentCard(u) == IF Risky(u) THEN "INTERCEPTED" ELSE "PROCESSING"
SystemsCard(u) == IF Phase(u) = "blocked" THEN "alarmed" ELSE "quiet"
BlockedAlert(u) == Phase(u) = "blocked"

\* The diagram: what comes to the shield, and what leaves it for the systems.
FlowDiagram(u) ==
  [agent |-> AgentCard(u), inward |-> PacketStreams(u).to, shield |-> TrusynShield(u),
   outward |-> PacketStreams(u).from, systems |-> SystemsCard(u)]

\* Mutant: the clean-up leaves the interval running.
ForgetInterval(u) == [u EXCEPT !.displayed = <<>>, !.at = 0, !.delay = TRUE]

\* The effect runs for another text: both timers are cleared, and the delay
\* starts again.
Retype(u) == [u EXCEPT !.displayed = <<>>, !.at = 0, !.delay = TRUE, !.typing = {}]

HeroPhase ==
  LET u == [ui EXCEPT !.phase = 1 + (@ % Len(PhaseSequence))]
  IN  ui' = IF Risky(u) = Risky(ui) THEN u ELSE Retype(u)

HeroDelay ==
  /\ ui.delay
  /\ ui' = [ui EXCEPT !.delay = FALSE, !.typing = @ \cup {Risky(ui)}]

\* The character is read by an updater that React may run at once or, after
\* the index has moved on, with the next render.
HeroKey ==
  \E text \in ui.typing, ahead \in {0, 1} :
    ui' = IF ui.at < TextLength
            THEN [ui EXCEPT !.displayed = Append(@, <<text, ui.at + ahead>>), !.at = @ + 1]
            ELSE [ui EXCEPT !.typing = {}]

-----------------------------------------------------------------------------
(* How it works: steps that play one after another until one is clicked.   *)

Steps == 0 .. 5

HowState == [step |-> 0, intervals |-> 1, narrow |-> FALSE]

StepList(u) == [i \in Steps |-> IF i < u.step THEN "done" ELSE IF i = u.step THEN "active" ELSE "next"]

\* What the window shows for each step: the story of one request.
VISUALS ==
  <<"request", "agent acts", "intercepted", "risk 94", "blocked", "audit record">>
StepWindow(u) == VISUALS[u.step + 1]

startAutoPlay(u) == [u EXCEPT !.intervals = 1]

HowTick == ui.intervals > 0 /\ ui' = [ui EXCEPT !.step = (@ + 1) % 6]
HowClick == \E i \in Steps : ui' = startAutoPlay([ui EXCEPT !.step = i])
HowResize == ui' = [ui EXCEPT !.narrow = ~@]

-----------------------------------------------------------------------------
(* The architecture and the decision demo: an interval starts a time-out,  *)
(* which nothing clears.  Time passes in tenths of a second.               *)

ArchitectureState == [blocked |-> FALSE, pending |-> {}, next |-> 55]
FlowConnector(u) == IF u.blocked THEN "intercepted" ELSE "passing"
CoreBadge(u) == u.blocked

\* One tenth of a second: the time-outs that end, then the interval.
Elapsed(u) == {t - 1 : t \in u.pending}
ArchitectureTick ==
  ui' = [blocked |-> (ui.blocked /\ 0 \notin Elapsed(ui)) \/ ui.next = 1,
         pending |-> (Elapsed(ui) \ {0}) \cup (IF ui.next = 1 THEN {28} ELSE {}),
         next    |-> IF ui.next = 1 THEN 55 ELSE ui.next - 1]

DecisionState == [scanning |-> FALSE, decision |-> "allowed", pending |-> {}, next |-> 28]
DecisionPanel(u) == IF u.scanning THEN "analyzing" ELSE u.decision

DecisionTick ==
  LET ends == 0 \in Elapsed(ui) IN
  ui' = [scanning |-> (ui.scanning /\ ~ends) \/ ui.next = 1,
         decision |-> IF ~ends THEN ui.decision ELSE IF ui.decision = "allowed" THEN "blocked" ELSE "allowed",
         pending  |-> (Elapsed(ui) \ {0}) \cup (IF ui.next = 1 THEN {9} ELSE {}),
         next     |-> IF ui.next = 1 THEN 28 ELSE ui.next - 1]

-----------------------------------------------------------------------------
(* The feed of events, newest first, at most six, with the count of the    *)
(* blocked ones; and the chart of eight risks.  Each event and each risk has*)
(* its own key.                                                            *)

INCOMING == <<"blocked", "flagged", "blocked", "allowed", "blocked", "flagged">>
INITIAL_FEED ==
  <<[id |-> 1, status |-> "blocked"], [id |-> 2, status |-> "flagged"], [id |-> 3, status |-> "allowed"],
    [id |-> 4, status |-> "blocked"], [id |-> 5, status |-> "allowed"]>>
INIT_RISK == [i \in 1 .. 8 |-> i - 1]

FeedState ==
  [events |-> INITIAL_FEED, counter |-> 6, incoming |-> 0, total |-> 247, blocked |-> 12,
   risks |-> INIT_RISK, nextRisk |-> 8]
FeedRows(u) == u.events
FeedStats(u) == [total |-> u.total, blocked |-> u.blocked]
RiskChart(u) == u.risks

FeedTick ==
  LET status == INCOMING[1 + (ui.incoming % Len(INCOMING))]
      events == <<[id |-> ui.counter + 1, status |-> status]>> \o ui.events
  IN  ui' = [ui EXCEPT !.events = SubSeq(events, 1, IF Len(events) < 6 THEN Len(events) ELSE 6),
                       !.counter = @ + 1, !.incoming = @ + 1, !.total = @ + 1,
                       !.blocked = IF status = "blocked" THEN @ + 1 ELSE @]

\* The last seven and a new one.
RiskTick ==
  ui' = [ui EXCEPT !.risks = Append(SubSeq(@, Len(@) - 6, Len(@)), ui.nextRisk), !.nextRisk = @ + 1]

-----------------------------------------------------------------------------
(* The navigation bar and the form that asks for access.                   *)

NavigationState == [mobile |-> FALSE, open |-> FALSE, over |-> 0, email |-> FALSE, submitted |-> FALSE]
NavigationBar(u) == IF u.mobile THEN {"menu"} ELSE {"links", "demo"}
NavigationMenu(u) == IF u.mobile /\ u.open THEN {"links", "demo"} ELSE {}
AccessForm(u) == IF u.submitted THEN "thanks" ELSE "form"

\* A link lights up under the pointer, unless it has gone with a narrow window.
NavLink == "links" \in NavigationBar(ui) /\ \E link \in 0 .. 4 : ui' = [ui EXCEPT !.over = link]

\* A window that is wide again closes the menu.
NavigationResize == ui' = [ui EXCEPT !.mobile = ~@, !.open = @ /\ ~ui.mobile, !.over = 0]
NavigationClick ==
  \/ "menu" \in NavigationBar(ui) /\ ui' = [ui EXCEPT !.open = ~@]
  \/ NavigationMenu(ui) # {} /\ ui' = [ui EXCEPT !.open = FALSE]
AccessSubmit ==
  /\ AccessForm(ui) = "form"
  /\ \/ ui' = [ui EXCEPT !.email = ~@]
     \/ ui.email /\ ui' = [ui EXCEPT !.submitted = TRUE]

-----------------------------------------------------------------------------
LandingNext ==
  /\ \/ page = "hero" /\ (HeroPhase \/ HeroDelay \/ HeroKey)
     \/ page = "how" /\ (HowTick \/ HowClick \/ HowResize)
     \/ page = "architecture" /\ ArchitectureTick
     \/ page = "decision" /\ DecisionTick
     \/ page = "navigation" /\ (NavLink \/ NavigationResize \/ NavigationClick \/ AccessSubmit)
  /\ UNCHANGED <<page, calls, rows, gone, shown, left>>

LandingFeed == page = "feed" /\ Spend /\ (FeedTick \/ RiskTick) /\ UNCHANGED <<page, calls, rows, gone, shown>>
=============================================================================

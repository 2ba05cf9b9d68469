-------------------------- MODULE LandingSections --------------------------
(***************************************************************************)
(* More of the landing page: the cards of its features, each with a demo of*)
(* its own, the threats, and the page of the demos.                        *)
(***************************************************************************)
EXTENDS LandingPage

Widgets == LandingWidgets \cup {"features", "demos"}

-----------------------------------------------------------------------------
(* The features: three demos with an interval each (the fourth, "decision",*)
(* is in LandingPage), and the card that is under the pointer, of these or *)
(* of the threats.                                                         *)

POLICIES == <<"DENY", "DENY", "REVIEW", "ALLOW">>
FEATURES == {"governance", "policies", "observability", "audit"}
THREATS ==
  {"Prompt Injection", "Data Exfiltration", "Compliance Violations", "Unauthorized Access",
   "Unsafe Automation", "Hallucinated Decisions"}

FeaturesState ==
  [highlight |-> 1, points |-> [i \in 1 .. 8 |-> 0], live |-> 247, expanded |-> FALSE, over |-> "none"]

PolicyDemo(u) == POLICIES[u.highlight]
ObservabilityDemo(u) == [events |-> u.live, points |-> u.points]
AuditDemo(u) == IF u.expanded THEN "reasons" ELSE "event"
FeatureCard(u) == FEATURES \cap {u.over}
ThreatCard(u) == THREATS \cap {u.over}

PolicyTick == ui' = [ui EXCEPT !.highlight = 1 + (@ % Len(POLICIES))]
AuditTick == ui' = [ui EXCEPT !.expanded = ~@]

\* A point that is high or low comes, the oldest goes, and one to three events
\* are counted.
ObservabilityTick ==
  /\ page = "features" /\ Spend
  /\ \E v \in {0, 1}, n \in 1 .. 3 :
       ui' = [ui EXCEPT !.points = Append(SubSeq(@, Len(@) - 6, Len(@)), v), !.live = @ + n]
  /\ UNCHANGED <<page, calls, rows, gone, shown>>

\* The pointer comes to a card or leaves it.
CardHover ==
  \/ ui.over = "none" /\ \E c \in FEATURES \cup THREATS : ui' = [ui EXCEPT !.over = c]
  \/ ui.over # "none" /\ ui' = [ui EXCEPT !.over = "none"]

-----------------------------------------------------------------------------
(* The demos, a document of their own that does not scroll.                *)

DemoState == [at |-> "/", overflow |-> "visible", original |-> "visible"]
DEMO_CARDS == {"/", "user app", "admin panel"}

\* The effect of the page when it is mounted in a new document, and the one
\* when it is unmounted, which a link that leaves the document does not run.
DemoShowcasePage(u) == [u EXCEPT !.original = u.overflow, !.overflow = "hidden"]
Document(at) ==
  LET u == [at |-> at, overflow |-> "visible", original |-> "visible"]
  IN  IF at = "/demos" THEN DemoShowcasePage(u) ELSE u

navigateToDemoHub == ui.at = "/" /\ ui' = Document("/demos")
AnimatedCard == ui.at = "/demos" /\ \E at \in DEMO_CARDS : ui' = Document(at)

-----------------------------------------------------------------------------
SectionsNext ==
  /\ \/ page = "features" /\ (PolicyTick \/ AuditTick \/ CardHover)
     \/ page = "demos" /\ (navigateToDemoHub \/ AnimatedCard)
  /\ UNCHANGED <<page, calls, rows, gone, shown, left>>
=============================================================================

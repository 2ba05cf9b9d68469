------------------------------- MODULE Frames -------------------------------
(***************************************************************************)
(* What stays around the pages while the user goes from one to another: the*)
(* side bar, which lights the item of the page shown, and the top bar with *)
(* its menus and what it knows of threats.  The frame of the web           *)
(* application asks again and again, the one of the admin panel once, when *)
(* it is mounted.                                                          *)
(***************************************************************************)
EXTENDS Dashboards

FrameBlankness ==
  [items |-> <<>>, offset |-> 0, limit |-> Cardinality(Ids), filter |-> All, search |-> Nobody,
   loading |-> FALSE, refreshing |-> FALSE, loaded |-> FALSE,
   menus |-> {}, active |-> "none", signedIn |-> TRUE]

Menus == {"notifications", "profile"}

-----------------------------------------------------------------------------
(* The web application.                                                    *)

navItems == {"dashboard", "agents", "threats", "policies", "audit-logs", "analytics", "settings"}

FrameState == [FrameBlankness EXCEPT !.active = "dashboard"]

\* The items lit for the path, and the count of threats.
Sidebar(u) == {path \in navItems : path = u.active}
TopBar(u) == IF u.items = <<>> THEN "calm" ELSE "threats"

FramePoll == ui' = ui /\ calls' = Append(calls, dashboardService(ui)) /\ UNCHANGED shown

\* A poll that fails says that there are no threats.
FrameAnswer ==
  \E i \in DOMAIN calls, ok \in BOOLEAN :
    Ends(i, ok) /\ DashEnded(i, ok, [ui EXCEPT !.items = <<>>])

\* Each menu has a state of its own: both may be open.
FrameUser ==
  /\ \/ \E path \in navItems : ui' = [ui EXCEPT !.active = path]
     \/ \E m \in Menus : ui' = [ui EXCEPT !.menus = IF m \in @ THEN @ \ {m} ELSE @ \cup {m}]
  /\ UNCHANGED <<calls, shown>>

-----------------------------------------------------------------------------
(* The admin panel.                                                        *)

ShellItems ==
  {"overview", "organizations", "threats", "agents", "api", "governance", "audit", "health", "settings"}
Notified == 1    \* the notifications that are kept, five in the code

ShellState == [FrameBlankness EXCEPT !.active = "overview"]

LeftSidebar(u) == {id \in ShellItems : id = u.active}
renderPage(u) == IF u.active \in ShellItems THEN u.active ELSE "overview"

\* A click on one menu closes the other.
ShellMenus(u, m) == IF m \in u.menus THEN {} ELSE {m}

ShellClick ==
  /\ ui.signedIn
  /\ \/ \E id \in ShellItems : ui' = [ui EXCEPT !.active = id]
     \/ \E m \in Menus : ui' = [ui EXCEPT !.menus = ShellMenus(ui, m)]
  /\ UNCHANGED <<calls, shown>>

\* The bar is gone, and what it has asked for is not heard of; the next user
\* starts with the overview.
ShellLogout ==
  /\ "profile" \in ui.menus
  /\ ui' = [ShellState EXCEPT !.signedIn = FALSE]
  /\ calls' = <<>>
  /\ UNCHANGED shown

ShellLogin ==
  /\ ~ui.signedIn
  /\ ui' = [ui EXCEPT !.signedIn = TRUE]
  /\ calls' = <<adminService(ui)>>
  /\ UNCHANGED shown

Notifications(answer) == SubSeq(answer, 1, IF Len(answer) < Notified THEN Len(answer) ELSE Notified)

\* The latest threats are the notifications; a failure says that there are none.
TopNavbar(i, ok) ==
  /\ ui' = [ui EXCEPT !.loaded = TRUE,
                      !.items = IF ok THEN Notifications(calls[i].answer) ELSE <<>>]
  /\ calls' = Without(i)
  /\ UNCHANGED shown

ShellUser == ShellClick \/ ShellLogout \/ ShellLogin
ShellAnswer == \E i \in DOMAIN calls, ok \in BOOLEAN : Ends(i, ok) /\ TopNavbar(i, ok)
=============================================================================

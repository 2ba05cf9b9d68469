-------------------------- MODULE ThreatCenterPage --------------------------
(***************************************************************************)
(* The Threat Center of the web application: the list of threats, and the  *)
(* investigation of the selected one, which an effect loads whenever       *)
(* another is selected, dropping the one still on its way.                 *)
(***************************************************************************)
EXTENDS WebLists

ThreatState == Blankness

ThreatInit == page = "threats" /\ ui = ThreatState /\ calls = <<ListCall(ThreatState)>>

\* The controls that each part of the page offers in state u, and what the
\* panel of the investigation shows.
ThreatToolbar(u) == IF u.refreshing THEN {} ELSE {"refresh"}
ThreatList(u) == Pickable(u) \cup Paging(u)
ThreatPanel(u) == IF u.detailLoading THEN "loading" ELSE IF u.detail = Nobody THEN "none" ELSE u.detail

\* The clean-up of the effect: the answer is dropped, whatever it is.
DropInvestigations(cs) == Kept(cs, {i \in DOMAIN cs : cs[i].op # "detail"})

DetailCall(id) == RowCall("detail", [NoRow EXCEPT !.id = id])

\* The render and both effects.  Nothing selected: the investigation goes, and
\* detailLoading stays what it was.
ThreatRender(u, cs) ==
  LET kept    == IF u.sel = ui.sel THEN cs ELSE DropInvestigations(cs)
      listing == IF Reloads(u) THEN Append(kept, ListCall(u)) ELSE kept
  IN  /\ calls' = IF u.sel \in {ui.sel, Nobody} THEN listing ELSE Append(listing, DetailCall(u.sel))
      /\ ui' = [u EXCEPT !.loading = @ \/ Reloads(u),
                         !.detail = IF u.sel = Nobody THEN Nobody ELSE @,
                         !.detailLoading = @ \/ u.sel \notin {ui.sel, Nobody}]

-----------------------------------------------------------------------------
ThreatRefresh ==
  /\ "refresh" \in ThreatToolbar(ui)
  /\ ThreatRender([ui EXCEPT !.refreshing = TRUE], Append(calls, ListCall(ui)))
  /\ UNCHANGED shown

ThreatLoaded(i, ok) ==
  /\ calls[i].op = "list"
  /\ ThreatRender(IF ok THEN Listed(ui, calls[i]) ELSE Unlisted(ui), Passing(i))
  /\ shown' = ShownAfter(calls[i], ok)

ThreatFilter(f) == ThreatRender([ui EXCEPT !.offset = 0, !.filter = f], calls) /\ UNCHANGED shown

ThreatPick ==
  \E c \in ThreatList(ui) :
    /\ ThreatRender(IF c \in Ids THEN [ui EXCEPT !.sel = c] ELSE Turned(ui, c), calls)
    /\ UNCHANGED shown

\* A refused investigation leaves the one that was there.
ThreatInvestigated(i, ok) ==
  /\ calls[i].op = "detail"
  /\ ThreatRender([ui EXCEPT !.detail = IF ok THEN calls[i].row.id ELSE @, !.detailLoading = FALSE],
                  Without(i))
  /\ shown' = [shown EXCEPT !.detail = IF ok THEN "current" ELSE "failed"]

-----------------------------------------------------------------------------
ThreatUser ==
  ThreatRefresh \/ ThreatPick \/ \E f \in {All, "on", "off"} \ {ui.filter} : ThreatFilter(f)

ThreatAnswer ==
  \E i \in DOMAIN calls, ok \in BOOLEAN :
    Ends(i, ok) /\ (ThreatLoaded(i, ok) \/ ThreatInvestigated(i, ok))
=============================================================================

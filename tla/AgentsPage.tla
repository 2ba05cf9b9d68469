----------------------------- MODULE AgentsPage -----------------------------
(***************************************************************************)
(* The Agents page of the web application: the list of the agents of the   *)
(* organization, and a panel to edit or delete the selected one.           *)
(***************************************************************************)
EXTENDS WebLists

AgentState == Blankness

AgentInit == page = "agents" /\ ui = AgentState /\ calls = <<ListCall(AgentState)>>

\* The controls that each part of the page offers in state u.  Saving needs no
\* role: the server decides.
AgentToolbar(u) == IF u.refreshing THEN {} ELSE {"refresh"}
AgentList(u) == Pickable(u) \cup Paging(u)
AgentPanel(u) ==
  IF SelectedRow(u) = NoRow THEN {}
  ELSE (IF u.saving THEN {} ELSE {"save"})
         \cup (IF ~Manages \/ u.deleting THEN {} ELSE {"delete"})

-----------------------------------------------------------------------------
AgentRefresh ==
  /\ "refresh" \in AgentToolbar(ui)
  /\ Render([ui EXCEPT !.refreshing = TRUE], Append(calls, ListCall(ui)), FALSE)
  /\ UNCHANGED shown

AgentLoaded(i, ok) ==
  /\ calls[i].op = "list"
  /\ Render(IF ok THEN Listed(ui, calls[i]) ELSE Unlisted(ui), Passing(i), ok)
  /\ shown' = ShownAfter(calls[i], ok)

AgentFilter(f) == Render([ui EXCEPT !.offset = 0, !.filter = f], calls, FALSE) /\ UNCHANGED shown

AgentPick ==
  \E c \in AgentList(ui) :
    /\ Render(IF c \in Ids THEN [ui EXCEPT !.sel = c] ELSE Turned(ui, c), calls, FALSE)
    /\ UNCHANGED shown

\* The user edits the draft.  The page checks none of it.
AgentType(t) ==
  /\ SelectedRow(ui) # NoRow
  /\ ui' = [ui EXCEPT !.draft.tag = t]
  /\ UNCHANGED <<calls, shown>>

AgentSave ==
  /\ "save" \in AgentPanel(ui)
  /\ ui' = [ui EXCEPT !.saving = TRUE]
  /\ calls' = Append(calls, RowCall("save", [ui.draft EXCEPT !.id = ui.sel]))
  /\ UNCHANGED shown

AgentSaved(i, ok) ==
  /\ calls[i].op = "save"
  /\ IF ok THEN Render(Saved(ui, calls[i].row), Passing(i), calls[i].row.id = ui.sel)
           ELSE Render([ui EXCEPT !.saving = FALSE], Without(i), FALSE)
  /\ UNCHANGED shown

AgentDelete ==
  /\ "delete" \in AgentPanel(ui)
  /\ ui' = [ui EXCEPT !.deleting = TRUE]
  /\ calls' = Append(calls, Call("delete", AnyQuery, ui.sel, SelectedRow(ui), ui.items))
  /\ UNCHANGED shown

AgentDeleted(i, ok) ==
  LET u == IF ok THEN Deleted(ui, calls[i]) ELSE [ui EXCEPT !.deleting = FALSE]
  IN  /\ calls[i].op = "delete"
      /\ Render(u, IF ok THEN Overtaken(i) ELSE Without(i), ok /\ calls[i].passed)
      /\ shown' = IF ok THEN Patched(u, {calls[i].row.id}) ELSE shown

-----------------------------------------------------------------------------
AgentUser ==
  \/ AgentRefresh \/ AgentPick \/ \E f \in {All, "on", "off"} \ {ui.filter} : AgentFilter(f)
  \/ \E t \in Tags \cup {Blank} : AgentType(t)
  \/ AgentSave \/ AgentDelete

AgentAnswer ==
  \E i \in DOMAIN calls, ok \in BOOLEAN :
    Ends(i, ok) /\ (AgentLoaded(i, ok) \/ AgentSaved(i, ok) \/ AgentDeleted(i, ok))
=============================================================================

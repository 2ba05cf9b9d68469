-------------------------- MODULE PolicyEnginePage --------------------------
(***************************************************************************)
(* The Policy Engine page of the web application: the list of policies, a  *)
(* form to create one and a form to edit or delete the selected one.       *)
(***************************************************************************)
EXTENDS WebLists

PolicyState == Blankness

PolicyInit == page = "policies" /\ ui = PolicyState /\ calls = <<ListCall(PolicyState)>>

\* The controls that each part of the page offers in state u.
PolicyToolbar(u) == IF u.refreshing THEN {} ELSE {"refresh"}
PolicyList(u) == Pickable(u) \cup Paging(u)
PolicyCreateForm(u) == IF ~Manages \/ u.creating THEN {} ELSE {"create"}
PolicyEditForm(u) ==
  IF SelectedRow(u) = NoRow \/ ~Manages THEN {}
  ELSE (IF u.saving THEN {} ELSE {"save"}) \cup (IF u.deleting THEN {} ELSE {"delete"})

-----------------------------------------------------------------------------
(* loadPolicies and its effect.                                            *)

PolicyRefresh ==
  /\ "refresh" \in PolicyToolbar(ui)
  /\ Render([ui EXCEPT !.refreshing = TRUE], Append(calls, ListCall(ui)), FALSE)
  /\ UNCHANGED shown

PolicyLoaded(i, ok) ==
  /\ calls[i].op = "list"
  /\ Render(IF ok THEN Listed(ui, calls[i]) ELSE Unlisted(ui), Passing(i), ok)
  /\ shown' = ShownAfter(calls[i], ok)

PolicyFilter(f) == Render([ui EXCEPT !.offset = 0, !.filter = f], calls, FALSE) /\ UNCHANGED shown

PolicyPick ==
  \E c \in PolicyList(ui) :
    /\ Render(IF c \in Ids THEN [ui EXCEPT !.sel = c] ELSE Turned(ui, c), calls, FALSE)
    /\ UNCHANGED shown

-----------------------------------------------------------------------------
(* Creating, saving and deleting.  A blank value stands for a name that is *)
(* missing or a rule definition that is no object: nothing is sent then.   *)

PolicyType(t) ==
  /\ ui' \in {[ui EXCEPT !.form = t]} \cup
              (IF SelectedRow(ui) = NoRow THEN {} ELSE {[ui EXCEPT !.draft.tag = t]})
  /\ UNCHANGED <<calls, shown>>

handleCreatePolicy ==
  /\ "create" \in PolicyCreateForm(ui) /\ ui.form # Blank
  /\ ui' = [ui EXCEPT !.creating = TRUE]
  /\ calls' = Append(calls, RowCall("create", [NoRow EXCEPT !.tag = ui.form]))
  /\ UNCHANGED shown

PolicyCreated(i, ok) ==
  LET u == IF ok THEN [ui EXCEPT !.creating = FALSE, !.items = calls[i].answer \o @, !.total = @ + 1,
                                 !.sel = calls[i].answer[1].id, !.form = Blank]
                 ELSE [ui EXCEPT !.creating = FALSE]
  IN  /\ calls[i].op = "create"
      /\ Render(u, Without(i), FALSE)
      /\ shown' = IF ok THEN Patched(u, {}) ELSE shown

handleSavePolicy ==
  /\ "save" \in PolicyEditForm(ui) /\ ui.draft.tag # Blank
  /\ ui' = [ui EXCEPT !.saving = TRUE]
  /\ calls' = Append(calls, RowCall("save", [ui.draft EXCEPT !.id = ui.sel]))
  /\ UNCHANGED shown

PolicySaved(i, ok) ==
  /\ calls[i].op = "save"
  /\ IF ok THEN Render(Saved(ui, calls[i].row), Passing(i), calls[i].row.id = ui.sel)
           ELSE Render([ui EXCEPT !.saving = FALSE], Without(i), FALSE)
  /\ UNCHANGED shown

handleDeletePolicy ==
  /\ "delete" \in PolicyEditForm(ui)
  /\ ui' = [ui EXCEPT !.deleting = TRUE]
  /\ calls' = Append(calls, Call("delete", AnyQuery, ui.sel, SelectedRow(ui), ui.items))
  /\ UNCHANGED shown

PolicyDeleted(i, ok) ==
  LET u == IF ok THEN Deleted(ui, calls[i]) ELSE [ui EXCEPT !.deleting = FALSE]
  IN  /\ calls[i].op = "delete"
      /\ Render(u, IF ok THEN Overtaken(i) ELSE Without(i), ok /\ calls[i].passed)
      /\ shown' = IF ok THEN Patched(u, {calls[i].row.id}) ELSE shown

-----------------------------------------------------------------------------
PolicyUser ==
  \/ PolicyRefresh \/ PolicyPick \/ \E f \in {All, "on", "off"} \ {ui.filter} : PolicyFilter(f)
  \/ \E t \in Tags \cup {Blank} : PolicyType(t)
  \/ handleCreatePolicy \/ handleSavePolicy \/ handleDeletePolicy

PolicyAnswer ==
  \E i \in DOMAIN calls, ok \in BOOLEAN :
    /\ Ends(i, ok)
    /\ PolicyLoaded(i, ok) \/ PolicyCreated(i, ok) \/ PolicySaved(i, ok) \/ PolicyDeleted(i, ok)
=============================================================================

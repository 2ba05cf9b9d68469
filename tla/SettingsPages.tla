---------------------------- MODULE SettingsPages ----------------------------
(***************************************************************************)
(* The settings of the web application and of the admin panel: a profile,  *)
(* an organization, an integration and the API keys, which are the rows.   *)
(* One function loads them all, and puts what it loaded into the forms.    *)
(***************************************************************************)
EXTENDS Tab

Forms == {"profile", "organization"}

KeysCall == RowCall("list", NoRow)

\* What the pages ask for besides: the same in the web application and in the
\* admin panel.
settingsService(op, row) == RowCall(op, row)
adminSettingsService(op, row) == RowCall(op, row)

\* typed: the forms the user has typed into since they were filled.
SettingsState ==
  [items |-> <<>>, loading |-> TRUE, refreshing |-> FALSE, loaded |-> FALSE, typed |-> {},
   saving |-> {}, enabled |-> TRUE, toggling |-> FALSE, keyName |-> Blank, creating |-> FALSE,
   deleting |-> Nobody]

\* What a load leaves: the forms are filled again, whatever was typed.
Filled(u, answer, enabled) ==
  [u EXCEPT !.items = answer, !.loaded = TRUE, !.typed = {}, !.enabled = enabled,
            !.loading = FALSE, !.refreshing = FALSE]

KeysShown(i, ok) ==
  shown' = IF ok THEN [shown EXCEPT !.list = IF calls[i].passed THEN "late" ELSE "current"]
                 ELSE [shown EXCEPT !.list = IF calls[i].passed THEN @ ELSE "failed"]

\* Mutant: a deleted key stays.
KeepKey(u, id) == u.items

WithoutKey(u, id) == Minus(u.items, id)

-----------------------------------------------------------------------------
(* The web application.                                                    *)

\* The controls of each part in state u; a page that loads has its header only.
SettingsHeader(u) == IF u.refreshing THEN {} ELSE {"refresh"}
SettingsProfile(u) == IF u.loading \/ "profile" \in u.saving THEN {} ELSE {"profile"}
SettingsOrganization(u) == IF u.loading \/ ~Manages \/ "organization" \in u.saving THEN {} ELSE {"organization"}
SettingsIntegrations(u) == IF u.loading \/ ~Manages \/ ~u.loaded \/ u.toggling THEN {} ELSE {"toggle"}
SettingsKeyForm(u) == IF u.loading \/ ~Manages \/ u.creating THEN {} ELSE {"create"}
SettingsKeys(u) == IF u.loading \/ ~Manages THEN {} ELSE IdsOf(u.items) \ {u.deleting}

loadAll ==
  /\ ui' = [ui EXCEPT !.refreshing = TRUE]
  /\ calls' = Append(calls, KeysCall)
  /\ UNCHANGED shown

SettingsLoaded(i, ok) ==
  /\ calls[i].op = "list"
  /\ \E enabled \in BOOLEAN :
       LET u == IF ok THEN Filled(ui, calls[i].answer, enabled)
                      ELSE [ui EXCEPT !.loading = FALSE, !.refreshing = FALSE]
       IN  ui' = [u EXCEPT !.creating = @ /\ calls[i].row = NoRow]
  /\ calls' = Passing(i)
  /\ KeysShown(i, ok)

SettingsType ==
  /\ \E form \in Forms : ~ui.loading /\ ui' = [ui EXCEPT !.typed = @ \cup {form}]
  /\ UNCHANGED <<calls, shown>>

SettingsTypeKey ==
  /\ ~ui.loading /\ ui' = [ui EXCEPT !.keyName = IF @ = Blank THEN "on" ELSE Blank]
  /\ UNCHANGED <<calls, shown>>

\* The profile is saved when there is a user, the organization by its managers.
SettingsSave(form) ==
  /\ form \in SettingsProfile(ui) \cup SettingsOrganization(ui)
  /\ form = "profile" => ui.loaded
  /\ ui' = [ui EXCEPT !.saving = @ \cup {form}]
  /\ calls' = Append(calls, settingsService(form, NoRow))
  /\ UNCHANGED shown

SettingsSaved(i, ok) ==
  /\ calls[i].op \in Forms
  /\ ui' = [ui EXCEPT !.saving = @ \ {calls[i].op}]
  /\ calls' = Without(i)
  /\ UNCHANGED shown

handleToggleIntegration ==
  /\ "toggle" \in SettingsIntegrations(ui)
  /\ ui' = [ui EXCEPT !.toggling = TRUE]
  /\ calls' = Append(calls, settingsService("integration", [NoRow EXCEPT !.tag = IF ui.enabled THEN "off" ELSE "on"]))
  /\ UNCHANGED shown

SettingsToggled(i, ok) ==
  /\ calls[i].op = "integration"
  /\ ui' = [ui EXCEPT !.toggling = FALSE, !.enabled = IF ok THEN calls[i].row.tag = "on" ELSE @]
  /\ calls' = Without(i)
  /\ UNCHANGED shown

handleCreateApiKey ==
  /\ "create" \in SettingsKeyForm(ui) /\ ui.keyName # Blank
  /\ ui' = [ui EXCEPT !.creating = TRUE]
  /\ calls' = Append(calls, settingsService("create", [NoRow EXCEPT !.tag = ui.keyName]))
  /\ UNCHANGED shown

\* The new key is not put into the list: everything is loaded again, and
\* creating is over when that load is.
SettingsKeyCreated(i, ok) ==
  /\ calls[i].op = "create"
  /\ IF ok THEN /\ ui' = [ui EXCEPT !.keyName = Blank, !.refreshing = TRUE]
               /\ calls' = Append(Without(i), [KeysCall EXCEPT !.row = calls[i].answer[1]])
           ELSE ui' = [ui EXCEPT !.creating = FALSE] /\ calls' = Without(i)
  /\ UNCHANGED shown

handleDeleteApiKey(id) ==
  /\ id \in SettingsKeys(ui)
  /\ ui' = [ui EXCEPT !.deleting = id]
  /\ calls' = Append(calls, settingsService("delete", [NoRow EXCEPT !.id = id]))
  /\ UNCHANGED shown

SettingsKeyDeleted(i, ok) ==
  /\ calls[i].op = "delete"
  /\ ui' = [ui EXCEPT !.deleting = Nobody, !.items = IF ok THEN WithoutKey(ui, calls[i].row.id) ELSE @]
  /\ calls' = IF ok THEN Overtaken(i) ELSE Without(i)
  /\ shown' = IF ok THEN [shown EXCEPT !.told = @ \cup {calls[i].row.id}] ELSE shown
SettingsUser ==
  \/ "refresh" \in SettingsHeader(ui) /\ loadAll
  \/ SettingsType \/ SettingsTypeKey \/ \E form \in Forms : SettingsSave(form)
  \/ handleToggleIntegration \/ handleCreateApiKey \/ \E id \in Ids : handleDeleteApiKey(id)

SettingsAnswer ==
  \E i \in DOMAIN calls, ok \in BOOLEAN :
    /\ Ends(i, ok)
    /\ \/ SettingsLoaded(i, ok) \/ SettingsSaved(i, ok) \/ SettingsToggled(i, ok)
       \/ SettingsKeyCreated(i, ok) \/ SettingsKeyDeleted(i, ok)

-----------------------------------------------------------------------------
(* The admin panel.  One indicator tells of the saves of both forms; it is *)
(* cleared 1.6 s after each of them has ended, by a timer nothing stops.   *)
(* No button but Refresh waits for an answer.                              *)

AdminSettingsState ==
  [items |-> <<>>, loading |-> TRUE, typed |-> {}, enabled |-> TRUE, keyName |-> Blank,
   loaded |-> FALSE, saveState |-> "idle", resets |-> 0, refreshing |-> FALSE]

AdminSettingsHeader(u) == IF u.loading THEN {} ELSE {"refresh"}
AdminSettingsForms == Forms
AdminSettingsIntegrations(u) == IF u.loaded THEN {"toggle"} ELSE {}
AdminSettingsKeys(u) == IdsOf(u.items) \cup {"create"}
AdminSettingsSwitches == {}
saveIndicator(u) == u.saveState # "idle"

AdminSettingsLoad ==
  /\ ui' = [ui EXCEPT !.loading = TRUE]
  /\ calls' = Append(calls, KeysCall)
  /\ UNCHANGED shown

\* The list asked for after a key was created has the keys only.
AdminSettingsLoaded(i, ok) ==
  /\ calls[i].op = "list"
  /\ \E enabled \in BOOLEAN :
       ui' = IF calls[i].row # NoRow
               THEN [ui EXCEPT !.items = IF ok THEN calls[i].answer ELSE @]
             ELSE IF ok THEN Filled(ui, calls[i].answer, enabled)
             ELSE [ui EXCEPT !.loading = FALSE]
  /\ calls' = Passing(i)
  /\ KeysShown(i, ok)

AdminSettingsType ==
  /\ \/ \E form \in Forms : ui' = [ui EXCEPT !.typed = @ \cup {form}]
     \/ ui' = [ui EXCEPT !.keyName = IF @ = Blank THEN "on" ELSE Blank]
  /\ UNCHANGED <<calls, shown>>

AdminSettingsSave(form) ==
  /\ form \in AdminSettingsForms
  /\ ui' = [ui EXCEPT !.saveState = "saving"]
  /\ calls' = Append(calls, adminSettingsService(form, NoRow))
  /\ UNCHANGED shown

\* Mutant: a save that fails forgets the timer.
FailForGood(i, ok) ==
  /\ calls[i].op \in Forms
  /\ ui' = [ui EXCEPT !.saveState = IF ok THEN "saved" ELSE "error", !.resets = IF ok THEN @ + 1 ELSE @]
  /\ calls' = Without(i)
  /\ UNCHANGED shown

AdminSettingsSaved(i, ok) ==
  /\ calls[i].op \in Forms
  /\ ui' = [ui EXCEPT !.saveState = IF ok THEN "saved" ELSE "error", !.resets = @ + 1]
  /\ calls' = Without(i)
  /\ UNCHANGED shown

resetSaveState ==
  /\ ui.resets > 0
  /\ ui' = [ui EXCEPT !.saveState = "idle", !.resets = @ - 1]
  /\ UNCHANGED <<calls, shown, left>>

AdminSettingsToggle ==
  /\ "toggle" \in AdminSettingsIntegrations(ui)
  /\ calls' = Append(calls, adminSettingsService("integration", [NoRow EXCEPT !.tag = IF ui.enabled THEN "off" ELSE "on"]))
  /\ UNCHANGED <<ui, shown>>

AdminSettingsToggled(i, ok) ==
  /\ calls[i].op = "integration"
  /\ ui' = [ui EXCEPT !.enabled = IF ok THEN calls[i].row.tag = "on" ELSE @]
  /\ calls' = Without(i)
  /\ UNCHANGED shown

\* Nothing is sent without a name.
createApiKey ==
  /\ "create" \in AdminSettingsKeys(ui) /\ ui.keyName # Blank
  /\ calls' = Append(calls, adminSettingsService("create", [NoRow EXCEPT !.tag = ui.keyName]))
  /\ UNCHANGED <<ui, shown>>

AdminSettingsKeyCreated(i, ok) ==
  /\ calls[i].op = "create"
  /\ IF ok THEN /\ ui' = [ui EXCEPT !.keyName = Blank]
               /\ calls' = Append(Without(i), [KeysCall EXCEPT !.row = calls[i].answer[1]])
           ELSE ui' = ui /\ calls' = Without(i)
  /\ UNCHANGED shown

removeApiKey(id) ==
  /\ id \in AdminSettingsKeys(ui)
  /\ calls' = Append(calls, adminSettingsService("delete", [NoRow EXCEPT !.id = id]))
  /\ UNCHANGED <<ui, shown>>

AdminSettingsKeyRemoved(i, ok) ==
  /\ calls[i].op = "delete"
  /\ ui' = [ui EXCEPT !.items = IF ok THEN WithoutKey(ui, calls[i].row.id) ELSE @]
  /\ calls' = IF ok THEN Overtaken(i) ELSE Without(i)
  /\ shown' = IF ok THEN [shown EXCEPT !.told = @ \cup {calls[i].row.id}] ELSE shown

AdminSettingsUser ==
  \/ "refresh" \in AdminSettingsHeader(ui) /\ AdminSettingsLoad
  \/ AdminSettingsType \/ \E form \in Forms : AdminSettingsSave(form)
  \/ AdminSettingsToggle \/ createApiKey \/ \E id \in Ids : removeApiKey(id)

AdminSettingsAnswer ==
  \E i \in DOMAIN calls, ok \in BOOLEAN :
    /\ Ends(i, ok)
    /\ \/ AdminSettingsLoaded(i, ok) \/ AdminSettingsSaved(i, ok) \/ AdminSettingsToggled(i, ok)
       \/ AdminSettingsKeyCreated(i, ok) \/ AdminSettingsKeyRemoved(i, ok)
=============================================================================

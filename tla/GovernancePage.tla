--------------------------- MODULE GovernancePage ---------------------------
(***************************************************************************)
(* Governance in the admin panel: all policies and how often they decided. *)
(* A policy is switched on or off, or created, and then everything is      *)
(* loaded again: the page never changes its rows itself.                   *)
(***************************************************************************)
EXTENDS Tab

GovernanceState ==
  [items |-> <<>>, loading |-> TRUE, refreshing |-> FALSE, showCreate |-> FALSE, saving |-> FALSE,
   form |-> Blank]

\* The controls that each part of the page offers in state u.
GovernanceHeader(u) == IF u.loading THEN {"open"} ELSE {"open", "refresh"}
GovernanceForm(u) == IF u.showCreate /\ ~u.saving THEN {"create"} ELSE {}
GovernanceCards(u) == {u.items[i].id : i \in {k \in DOMAIN u.items : u.items[k].tag = "on"}}
GovernanceList(u) == Range(u.items)
GovernanceStats(u) == IF u.items = <<>> THEN "none" ELSE "rows"

policyService(op, row) == RowCall(op, row)

\* A load that creating has started holds its row.
GovernanceCall(row) == policyService("list", row)

-----------------------------------------------------------------------------
GovernanceLoad ==
  /\ "refresh" \in GovernanceHeader(ui)
  /\ ui' = [ui EXCEPT !.loading = TRUE]
  /\ calls' = Append(calls, GovernanceCall(NoRow))
  /\ UNCHANGED shown

GovernanceLoaded(i, ok) ==
  /\ calls[i].op = "list"
  /\ ui' = [ui EXCEPT !.items = IF ok THEN calls[i].answer ELSE @, !.loading = FALSE,
                      !.saving = @ /\ calls[i].row = NoRow]
  /\ calls' = Passing(i)
  /\ shown' = IF ok THEN [shown EXCEPT !.list = IF calls[i].passed THEN "late" ELSE "current"]
                    ELSE [shown EXCEPT !.list = IF calls[i].passed THEN @ ELSE "failed"]

togglePolicy ==
  /\ \E row \in GovernanceList(ui) :
       calls' = Append(calls, policyService("save", [row EXCEPT !.tag = IF @ = "on" THEN "off" ELSE "on"]))
  /\ UNCHANGED <<ui, shown>>

GovernanceToggled(i, ok) ==
  /\ calls[i].op = "save"
  /\ ui' = IF ok THEN [ui EXCEPT !.loading = TRUE] ELSE ui
  /\ calls' = IF ok THEN Append(Without(i), GovernanceCall(NoRow)) ELSE Without(i)
  /\ UNCHANGED shown

GovernanceType ==
  /\ \/ "open" \in GovernanceHeader(ui) /\ ui' = [ui EXCEPT !.showCreate = ~@]
     \/ ui.showCreate /\ ui' = [ui EXCEPT !.form = IF @ = Blank THEN "on" ELSE Blank]
  /\ UNCHANGED <<calls, shown>>

\* Nothing is sent without a name.
createPolicy ==
  /\ "create" \in GovernanceForm(ui) /\ ui.form # Blank
  /\ ui' = [ui EXCEPT !.saving = TRUE]
  /\ calls' = Append(calls, policyService("create", [NoRow EXCEPT !.tag = ui.form]))
  /\ UNCHANGED shown

GovernanceCreated(i, ok) ==
  /\ calls[i].op = "create"
  /\ ui' = IF ok THEN [ui EXCEPT !.form = Blank, !.showCreate = FALSE, !.loading = TRUE]
                 ELSE [ui EXCEPT !.saving = FALSE]
  /\ calls' = IF ok THEN Append(Without(i), GovernanceCall(calls[i].answer[1])) ELSE Without(i)
  /\ UNCHANGED shown

-----------------------------------------------------------------------------
GovernanceUser == GovernanceLoad \/ togglePolicy \/ GovernanceType \/ createPolicy

GovernanceAnswer ==
  \E i \in DOMAIN calls, ok \in BOOLEAN :
    Ends(i, ok) /\ (GovernanceLoaded(i, ok) \/ GovernanceToggled(i, ok) \/ GovernanceCreated(i, ok))
=============================================================================

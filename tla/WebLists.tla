------------------------------ MODULE WebLists ------------------------------
(***************************************************************************)
(* What the four list pages of the web application have in common: a page  *)
(* of rows at an offset, a filter, a selected row, and an effect that loads*)
(* the list again whenever one of them changes.  The banners with errors   *)
(* and messages are left out: nothing on the pages depends on them.        *)
(***************************************************************************)
EXTENDS Tab, Integers

\* The state of a list page before its first render.
Blankness ==
  [items |-> <<>>, total |-> 0, offset |-> 0, limit |-> 1, filter |-> All, search |-> Nobody,
   sel |-> Nobody, loading |-> TRUE, refreshing |-> FALSE,
   saving |-> FALSE, creating |-> FALSE, deleting |-> FALSE, draft |-> NoRow, form |-> Blank,
   detail |-> Nobody, detailLoading |-> FALSE]

\* The row of the list that is selected, or NoRow.
SelectedRow(u) ==
  LET i == SelectInSeq(u.items, LAMBDA row : row.id = u.sel) IN
  IF i = 0 THEN NoRow ELSE u.items[i]

\* Mutants of Reloads: the effect forgets the offset, or its function is new at
\* every render.
ReloadUnlessPaged(u) == [Query(u) EXCEPT !.offset = ui.offset] # Query(ui) \/ u.sel # ui.sel
ReloadAlways(u) == TRUE

\* The effect that loads the list runs when its function is a new one.
Reloads(u) == Query(u) # Query(ui) \/ u.sel # ui.sel

\* A mutant of Refills: the form is filled once.
FillOnce(u, replaced) == SelectedRow(u) # NoRow /\ ui.draft = NoRow

\* The effect that fills the draft runs when the selected row is another
\* object: another row, or a new object for the same one (replaced).
Refills(u, replaced) == SelectedRow(u) # NoRow /\ (replaced \/ SelectedRow(u) # SelectedRow(ui))

\* The render after a handler has made u of the state and cs of the requests,
\* with the effects of a page that loads a list and fills a draft.
Render(u, cs, replaced) ==
  /\ ui' = [u EXCEPT !.loading = @ \/ Reloads(u),
                     !.draft = IF Refills(u, replaced) THEN SelectedRow(u) ELSE @]
  /\ calls' = IF Reloads(u) THEN Append(cs, ListCall(u)) ELSE cs

-----------------------------------------------------------------------------
(* The state that a handler leaves, before the render.                     *)

\* A list answer keeps the selection if the one it was sent with is in it.
Listed(u, c) ==
  [u EXCEPT !.items = c.answer, !.total = c.total, !.loading = FALSE, !.refreshing = FALSE,
            !.sel = IF c.sel \in IdsOf(c.answer) \cup {Nobody} /\ (c.sel = Nobody => c.answer = <<>>)
                      THEN @
                    ELSE IF c.answer = <<>> THEN Nobody ELSE c.answer[1].id]

Unlisted(u) == [u EXCEPT !.loading = FALSE, !.refreshing = FALSE]

Saved(u, row) ==
  [u EXCEPT !.saving = FALSE,
            !.items = [i \in DOMAIN @ |-> IF @[i].id = row.id THEN row ELSE @[i]]]

\* A mutant of Deleted: one row less than none.
DeletedBelowZero(u, c) ==
  LET left_over == Minus(c.items, c.row.id) IN
  [u EXCEPT !.deleting = FALSE, !.items = left_over, !.total = @ - 1,
            !.sel = IF left_over = <<>> THEN Nobody ELSE left_over[1].id]

\* A deletion puts back the rows that the page had when it was sent.
Deleted(u, c) ==
  LET left_over == Minus(c.items, c.row.id) IN
  [u EXCEPT !.deleting = FALSE, !.items = left_over, !.total = IF @ > 0 THEN @ - 1 ELSE 0,
            !.sel = IF left_over = <<>> THEN Nobody ELSE left_over[1].id]

Turned(u, way) ==
  IF way = "next" THEN [u EXCEPT !.offset = @ + u.limit]
                  ELSE [u EXCEPT !.offset = IF @ > u.limit THEN @ - u.limit ELSE 0]

\* What the list was answered to, after list request c has ended, and after
\* rows were put into it.
ShownAfter(c, ok) ==
  IF ok THEN [shown EXCEPT !.query = c.query, !.list = IF c.passed THEN "late" ELSE "current"]
        ELSE [shown EXCEPT !.list = IF c.passed THEN @ ELSE "failed"]

Patched(u, told) ==
  [shown EXCEPT !.list = IF Reloads(u) THEN @ ELSE "patched", !.told = @ \cup told]

\* The buttons under a list, and its rows.
Paging(u) ==
  (IF u.offset = 0 THEN {} ELSE {"prev"})
    \cup (IF u.offset + u.limit >= u.total THEN {} ELSE {"next"})

Pickable(u) == IF u.loading THEN {} ELSE IdsOf(u.items)
=============================================================================

---------------------------- MODULE BrowseProps ----------------------------
(***************************************************************************)
(* A browse is a cursor on the visible records.                            *)
(***************************************************************************)
EXTENDS Browse

Cursor == INSTANCE RecordCursor WITH
  Page <- PageLength,
  records <- Visible(area.recs), total <- Len(area.recs),
  screen <- SubSeq(browse.rangeMax, 1, browse.rows), cursor <- GetValue(browse),
  place <- area.recno, told <- notified, valued <- browse.value,
  stale <- toRefresh, sync <- set.sync, eachClick <- set.eachClick

(* The cursor's answer to each command *)
CommandsMoveTheCursor ==
  /\ BrowseHome => Cursor!ToFirst
  /\ BrowseEnd => Cursor!ToLast
  /\ BrowseUp => Cursor!LineUp
  /\ BrowseDown => Cursor!LineDown
  /\ BrowsePrior => Cursor!PageUp
  /\ BrowseNext => Cursor!PageDown
  /\ Shows(browse'.value) /\ SetValue(browse'.value) =>
       Cursor!Choose(browse'.value)
  /\ (\E row \in 1 .. browse.rows : Click(row)) => Cursor!Click
  /\ (\E fails \in BOOLEAN : BrowseDelete(fails)) => Cursor!Remove

(* Wherever the program has left its record pointer, whatever is deleted,  *)
(* filtered out, appended or fails to be: the list view holds consecutive  *)
(* visible records and no other, a key moves by one record or page also    *)
(* over the border of a page and around hidden records, and no command     *)
(* loses the cursor but those of RecordCursor that do.  The ON CHANGE      *)
(* procedure of a key or a value that is set reads where the cursor is,    *)
(* and the record pointer is put back or brought to it.  A click runs the  *)
(* procedure exactly if the record is not the last one clicked or set,     *)
(* which after a key is another question than whether the cursor moved.    *)
(* Records are appended to an emptied list in no careful program           *)
(* (~AppendToNone): there the new row would get another record's number.   *)
BrowseIsCursor == Cursor!CursorSpec /\ [][CommandsMoveTheCursor]_browseVars

(* A click on the row that is selected runs no ON CHANGE procedure, if the *)
(* last message has told the program of its record already and the program *)
(* has not asked for each click: doc/ChangeLog.txt:1709 lists it as fixed  *)
(* that "The 'OnChange' event fired by a mouse click in a Browse control   *)
(* without changing of the row".  h_events.prg:2745 does not compare rows, *)
(* but the record with a value that keys leave behind.                     *)
ClickNeedsChange ==
  [][\A row \in 1 .. browse.rows :
       Click(row) /\ row = browse.sel /\ browse.rangeMax[row] = notified /\ ~set.eachClick =>
         notified' = NotFired]_browseVars
=============================================================================

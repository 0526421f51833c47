------------------------------- MODULE Browse -------------------------------
(***************************************************************************)
(* BROWSE (h_browse.prg): a list view that holds one page of a work area,  *)
(* the numbers of the records on it, and the record pointer, which every   *)
(* command moves to find its page and puts back.                           *)
(*                                                                         *)
(* The records are in natural order.  ON CHANGE procedures give the browse *)
(* no commands, and the program refreshes the browse when it has changed   *)
(* the file, before the next message.                                      *)
(***************************************************************************)
EXTENDS Integers, Sequences

CONSTANTS
  PageLength,   \* ListViewGetCountPerPage
  FileStates,   \* bound: the records of the file at the start
  Places,       \* bound: the records at which the program leaves the pointer,
                \* unless that is at the end
  Settings,     \* bound: [deleted, sync, eachClick]
  MaxRecCount,  \* bound: records of the file
  MaxWorks,     \* bound: changes of the file
  AppendToNone  \* records are also appended while the browse shows none
                \* though it did before

RecordStates == {"live", "deleted", "filtered"}

ASSUME BrowseAssumption ==
  /\ PageLength \in Nat /\ PageLength > 2
  /\ FileStates \subseteq Seq(RecordStates)
  /\ Settings \subseteq [deleted : BOOLEAN, sync : BOOLEAN, eachClick : BOOLEAN]
  /\ MaxRecCount \in Nat /\ MaxWorks \in Nat /\ AppendToNone \in BOOLEAN

VARIABLES
  area,     \* the work area: recs, each "live", "deleted" or "filtered", and recno
  browse,   \* rangeMax, _HMG_aControlRangeMax; rows and sel, of the list view;
            \* atEnd, _HMG_aControlContainerHandle; value, _HMG_aControlValue
  notified, \* what the ON CHANGE procedure could read as the value, if the
            \* last message or command ran it
  toRefresh,
  works,
  set       \* SET DELETED, BROWSESYNC and BROWSEUPDATEONCLICK

browseVars == <<area, browse, notified, toRefresh, works, set>>

-----------------------------------------------------------------------------
(* The work area *)

Eof(recs) == Len(recs) + 1
Hidden(state) == state = "filtered" \/ (state = "deleted" /\ set.deleted)

Shows(r) == r \in DOMAIN area.recs /\ ~Hidden(area.recs[r])

(* The visible records from a to b *)
VisibleIn(recs, a, b) ==
  LET upto[n \in 0 .. Len(recs)] ==
        IF n = 0 THEN <<>>
        ELSE IF a <= n /\ n <= b /\ ~Hidden(recs[n]) THEN Append(upto[n - 1], n)
        ELSE upto[n - 1]
  IN  upto[Len(recs)]

Visible(recs) == VisibleIn(recs, 1, Len(recs))
Behind(recs, r) == VisibleIn(recs, r + 1, Len(recs))
Before(recs, r) == VisibleIn(recs, 1, r - 1)

GoTop(recs) == LET all == Visible(recs) IN IF all = <<>> THEN Eof(recs) ELSE all[1]
GoBottom(recs) == LET all == Visible(recs) IN IF all = <<>> THEN Eof(recs) ELSE all[Len(all)]

(* SKIP n from record r, visible or not: SKIP 0 stays *)
Skip(recs, r, n) ==
  LET behind == Behind(recs, r)
      before == Before(recs, r)
  IN  IF n = 0 THEN r
      ELSE IF n > 0 THEN IF n <= Len(behind) THEN behind[n] ELSE Eof(recs)
      ELSE IF -n <= Len(before) THEN before[Len(before) + n + 1] ELSE GoTop(recs)

-----------------------------------------------------------------------------
(* The list view *)

SetCursel(b, row) == IF row \in 1 .. b.rows THEN [b EXCEPT !.sel = row] ELSE b

SelectRecord(b, r) ==
  LET same == {i \in DOMAIN b.rangeMax : b.rangeMax[i] = r}
  IN  IF same = {} THEN b ELSE SetCursel(b, CHOOSE i \in same : \A j \in same : i <= j)

(* The numbers of the records stay *)
ListViewReset(b) == [b EXCEPT !.rows = 0, !.sel = 0]

(* _BrowseUpdate at record r, visible or not *)
BrowseUpdate(recs, b, r) ==
  LET behind == Behind(recs, r)
      more == IF Len(behind) < PageLength THEN Len(behind) ELSE PageLength - 1
      page == <<r>> \o SubSeq(behind, 1, more)
  IN  [b EXCEPT !.rangeMax = page, !.rows = Len(page), !.sel = 0,
                !.atEnd = Len(behind) < PageLength]

GetValue(b) == IF b.sel = 0 THEN 0 ELSE b.rangeMax[b.sel]

(* _BrowseOnChange with _BrowseSync, after GO _RecNo *)
OnChange(b) ==
  /\ browse' = b
  /\ notified' = GetValue(b)
  /\ area' = IF ~set.sync THEN area
             ELSE [area EXCEPT !.recno = IF GetValue(b) = 0 THEN Eof(area.recs) ELSE GetValue(b)]

NotFired == -1
NoChange == notified' = NotFired

(* A message is handled: the browse is up to date *)
Message == ~toRefresh /\ UNCHANGED <<toRefresh, set>>
Reading == Message /\ UNCHANGED works
Writing == works < MaxWorks /\ works' = works + 1

-----------------------------------------------------------------------------
(* Keys *)

FromRow(r, n) == BrowseUpdate(area.recs, browse, Skip(area.recs, r, n))
ToLastRow(b) == SetCursel(b, Len(b.rangeMax))
LastPage == browse.sel = PageLength /\ browse.atEnd

BrowseNext ==
  /\ Reading /\ ~LastPage
  /\ OnChange(ToLastRow(IF browse.sel = PageLength
                        THEN FromRow(browse.rangeMax[PageLength], 0) ELSE browse))

BrowsePrior ==
  /\ Reading
  /\ OnChange(SetCursel(IF browse.sel = 1
                        THEN FromRow(browse.rangeMax[1], 1 - PageLength) ELSE browse, 1))

BrowseHome ==
  /\ Reading
  /\ OnChange(SetCursel(FromRow(GoTop(area.recs), 0), 1))

BrowseEnd ==
  LET bottom == GoBottom(area.recs)
  IN  /\ Reading
      /\ OnChange(SelectRecord(FromRow(bottom, 1 - PageLength), bottom))

BrowseUp ==
  LET top == browse.rangeMax[1]
      moves == browse.sel = 1 /\ Skip(area.recs, top, -1) # top
  IN  /\ Reading
      /\ OnChange(IF moves THEN SetCursel(FromRow(top, -1), 1)
                  ELSE SetCursel(browse, browse.sel - 1))

BrowseDown ==
  /\ Reading /\ ~LastPage
  /\ OnChange(IF browse.sel = PageLength THEN ToLastRow(FromRow(browse.rangeMax[1], 1))
              ELSE SetCursel(browse, browse.sel + 1))

-----------------------------------------------------------------------------
(* The value *)

(* _BrowseSetValue(value), to row m of the page.  Behind the last record   *)
(* it empties the list.                                                    *)
Valued(recs, value, m) ==
  LET b == [browse EXCEPT !.value = value]
  IN  IF value = Eof(recs) THEN ListViewReset(b)
      ELSE SelectRecord(BrowseUpdate(recs, b, Skip(recs, value, 1 - m)), value)

(* Of the program or the scroll bar, which give no record that SET DELETED *)
(* hides; one that the filter hides is ignored.                            *)
SetValue(value) ==
  /\ Reading
  /\ Shows(value) \/ value = Eof(area.recs)
  /\ OnChange(Valued(area.recs, value, PageLength \div 2))

(* A click on a row, or below them all.  Keys do not keep the value that   *)
(* the record is compared with: after them a click on the selected row     *)
(* fires, and one that goes back to that record does not.                  *)
Click(row) ==
  LET b == [browse EXCEPT !.sel = row, !.value = browse.rangeMax[row]]
  IN  /\ Reading
      /\ IF browse.value # b.value \/ set.eachClick THEN OnChange(b)
         ELSE browse' = b /\ NoChange /\ UNCHANGED area

ClickOutside ==
  /\ Reading
  /\ browse' = [browse EXCEPT !.sel = 0]
  /\ NoChange /\ UNCHANGED area

-----------------------------------------------------------------------------
(* Records come and go *)

(* Faulty: the record before the deleted one, if that is hidden *)
AfterDeleteBack(recs, r) ==
  IF Skip(recs, r, 1) = Eof(recs) THEN GoBottom(recs) ELSE Skip(recs, Skip(recs, r, 1), -1)

AfterDelete(recs, r) ==
  LET next == Skip(recs, r, 1)
  IN  IF next = Eof(recs) THEN GoBottom(recs)
      ELSE IF set.deleted THEN next ELSE Skip(recs, next, -1)

(* The record may be locked by another station.  GO _RecNo comes after     *)
(* ON CHANGE here.                                                         *)
BrowseDelete(locked) ==
  LET value == GetValue(browse)
      recs == IF locked \/ value = Eof(area.recs) THEN area.recs
              ELSE [area.recs EXCEPT ![value] = "deleted"]
      to == IF locked THEN value ELSE AfterDelete(recs, value)
  IN  /\ Message /\ Writing
      /\ browse.sel # 0
      /\ value \in DOMAIN area.recs => area.recs[value] # "deleted"
      /\ area' = [area EXCEPT !.recs = recs]
      /\ browse' = Valued(recs, to, browse.sel)
      /\ notified' = GetValue(browse')

(* _BrowseInPlaceAppend.  Of a list that was emptied, rangeMax still has   *)
(* the numbers of before, and the row of the new record gets another one's.*)
(* The row shown for an empty file stays, in front of the new one.         *)
AppendRow(b, r) ==
  [b EXCEPT !.rangeMax = Append(@, r), !.rows = @ + 1]

Emptied == IF browse.rows = 0 THEN browse.rangeMax # <<>> ELSE Visible(area.recs) = <<>>

BrowseInPlaceAppend(netError) ==
  LET recs == area.recs
      page == IF browse.rows = 0 THEN browse
              ELSE FromRow(GoBottom(recs), 2 - PageLength)
      b == ToLastRow(AppendRow(page, Eof(recs)))
  IN  /\ Message /\ Writing
      /\ AppendToNone \/ ~Emptied
      /\ IF netError THEN browse' = page /\ NoChange /\ UNCHANGED area
         ELSE /\ Len(recs) < MaxRecCount
              /\ browse' = b
              /\ notified' = GetValue(b)
              /\ area' = [recs |-> Append(recs, "live"),
                          recno |-> IF set.sync THEN GetValue(b) ELSE area.recno]

PointersOf(recs) == (Places \cap DOMAIN recs) \cup {Eof(recs)}

(* The program: it edits, deletes, recalls or adds a record, and leaves    *)
(* the record pointer anywhere                                             *)
LeavesFile(recs) ==
  /\ Len(recs) <= MaxRecCount
  /\ \E recno \in PointersOf(recs) : area' = [recs |-> recs, recno |-> recno]

Change ==
  /\ Writing
  /\ toRefresh' = TRUE
  /\ \/ LeavesFile(area.recs) \/ LeavesFile(Append(area.recs, "live"))
     \/ \E r \in DOMAIN area.recs, state \in RecordStates :
          LeavesFile([area.recs EXCEPT ![r] = state])
  /\ NoChange /\ UNCHANGED <<browse, set>>

(* _BrowseRefresh: the place in the file that the page is drawn from *)
RefreshFrom(recs, r) ==
  LET next == IF r = Eof(recs) \/ recs[r] # "filtered" THEN r ELSE Skip(recs, r, 1)
  IN  IF browse.sel > 1 THEN r
      ELSE IF next # Eof(recs) /\ set.deleted /\ recs[next] = "deleted" THEN GoTop(recs)
      ELSE next

Refreshed(recs, recno) ==
  LET v == IF GetValue(browse) = 0 THEN recno ELSE GetValue(browse)
      r == RefreshFrom(recs, v)
      start == IF browse.sel = 0 THEN r ELSE Skip(recs, r, 1 - browse.sel)
  IN  IF r = Eof(recs) THEN ListViewReset(browse)
      ELSE SelectRecord(BrowseUpdate(recs, browse, start), v)

BrowseRefresh ==
  /\ browse' = Refreshed(area.recs, area.recno)
  /\ toRefresh' = FALSE
  /\ NoChange /\ UNCHANGED <<area, works, set>>

-----------------------------------------------------------------------------
(* The definition of the control ends with _BrowseRefresh. *)
BrowseInit ==
  /\ \E recs \in FileStates : \E recno \in PointersOf(recs) :
       area = [recs |-> recs, recno |-> recno]
  /\ set \in Settings
  /\ browse = [rangeMax |-> <<>>, rows |-> 0, sel |-> 0, atEnd |-> FALSE, value |-> 0]
  /\ notified = NotFired /\ toRefresh = TRUE /\ works = 0

BrowseStep ==
  \/ BrowseNext \/ BrowsePrior \/ BrowseHome \/ BrowseEnd \/ BrowseUp \/ BrowseDown
  \/ \E value \in 1 .. Eof(area.recs) : SetValue(value)
  \/ \E row \in 1 .. browse.rows : Click(row)
  \/ ClickOutside
  \/ \E fails \in BOOLEAN : BrowseDelete(fails) \/ BrowseInPlaceAppend(fails)
  \/ Change \/ BrowseRefresh

BrowseSpec == BrowseInit /\ [][BrowseStep]_browseVars
=============================================================================

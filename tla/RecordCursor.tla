---------------------------- MODULE RecordCursor ----------------------------
(***************************************************************************)
(* What a browse promises: a cursor on the visible records of a file, with *)
(* a page of consecutive records around it on the screen; it moves by      *)
(* records and pages and never skips, repeats or invents one.  Of a move by *)
(* key or by the program, the program is told where the cursor is, and its *)
(* own place in the file is left alone, or brought to the cursor.  Of a    *)
(* click it is told, and its place is brought along, if the record is not  *)
(* the one that was last clicked or chosen: that need not be the record    *)
(* under the cursor, which keys have moved since.                          *)
(***************************************************************************)
EXTENDS Integers, Sequences

CONSTANT Page   \* rows on the screen

VARIABLES
  records,  \* the visible records, in their order
  total,    \* all records; total + 1 is the place behind them
  screen,   \* the records on the screen
  cursor,   \* the record under the cursor, 0 if there is none
  place,    \* where the program is in the file
  told,     \* the cursor, if the last step told the program
  valued,   \* the record last clicked or chosen
  stale,    \* the program has changed the file since the screen was drawn
  sync,     \* the program's place follows the cursor
  eachClick \* the program is told of each click

cursorVars == <<records, total, screen, cursor, place, told, valued, stale, sync, eachClick>>

Members(s) == {s[i] : i \in DOMAIN s}
Place(s, r) == CHOOSE i \in DOMAIN s : s[i] = r
Visible == Members(records)
Rank(r) == Place(records, r)
Within(i) == IF i < 1 THEN 1 ELSE IF i > Len(records) THEN Len(records) ELSE i
Least(i, j) == IF i < j THEN i ELSE j
Without(i) == SubSeq(records, 1, i - 1) \o SubSeq(records, i + 1, Len(records))

(* A page starts anywhere and is full unless it ends with the last record. *)
(* An empty file may show the row behind its records.                      *)
Pages(s, n) ==
  {SubSeq(s, i, Least(i + Page - 1, Len(s))) : i \in DOMAIN s}
    \cup IF s = <<>> THEN {<<>>, <<n + 1>>} ELSE {}

FirstRow == IF screen = <<>> THEN 0 ELSE screen[1]
LastRow == IF screen = <<>> THEN 0 ELSE screen[Len(screen)]

Tell ==
  /\ told' = cursor'
  /\ place' = IF ~sync THEN place ELSE IF cursor' = 0 THEN total' + 1 ELSE cursor'

Untold == -1
Silent == told' = Untold /\ UNCHANGED place

(* The record last chosen is that under the cursor, the place behind all   *)
(* of them if there is none.                                               *)
Chosen == valued' = IF cursor' = 0 THEN total' + 1 ELSE cursor'

SameFile == ~stale /\ UNCHANGED <<records, total, stale, sync, eachClick>>

(* The cursor is brought to record r, on some page *)
BroughtTo(r) ==
  /\ cursor' = r
  /\ SameFile
  /\ Tell
  /\ screen' = screen \/ screen' \in Pages(records, total)
  /\ r \in Members(screen') \cup {0}

GoTo(r) == BroughtTo(r) /\ UNCHANGED valued

(* The row behind the records takes the cursor if there are none *)
ToFirst == GoTo(IF records = <<>> THEN total + 1 ELSE records[1])
ToLast == GoTo(IF records = <<>> THEN total + 1 ELSE records[Len(records)])

(* From nowhere, down is the first row *)
LineDown ==
  \/ cursor \in Visible /\ GoTo(records[Within(Rank(cursor) + 1)])
  \/ cursor = 0 /\ GoTo(FirstRow)
  \/ cursor > total /\ GoTo(cursor)
LineUp ==
  \/ cursor \in Visible /\ GoTo(records[Within(Rank(cursor) - 1)])
  \/ cursor \notin Visible /\ GoTo(cursor)

(* To the end of the page and, from there, a page further *)
PageDown ==
  IF cursor \in Visible /\ cursor = LastRow /\ Len(screen) = Page
  THEN GoTo(records[Within(Rank(cursor) + Page - 1)])
  ELSE GoTo(LastRow)
PageUp ==
  IF cursor \in Visible /\ cursor = FirstRow
  THEN GoTo(records[Within(Rank(cursor) - Page + 1)])
  ELSE GoTo(FirstRow)

(* The program or the scroll bar chooses a record, or the place behind all *)
(* of them, which empties the screen.                                      *)
Choose(r) == r \in Visible /\ BroughtTo(r) /\ Chosen
ChooseNone == SameFile /\ screen' = <<>> /\ cursor' = 0 /\ Tell /\ Chosen

(* A click.  The program is told of each if it asked to be, otherwise if   *)
(* the record is not the one last clicked or chosen.                       *)
Click ==
  /\ SameFile
  /\ screen' = screen
  /\ cursor' \in Members(screen) /\ Chosen
  /\ IF eachClick \/ cursor' # valued THEN Tell ELSE Silent

ClickOutside ==
  /\ SameFile
  /\ cursor' = 0
  /\ Silent /\ UNCHANGED <<screen, valued>>

(* The record under the cursor goes, or stays if it could not be deleted   *)
(* or if deleted records are visible.  The cursor goes to the next one, or *)
(* to the last one.  The program's place is left alone, also in step.      *)
Remove ==
  LET behind == {i \in DOMAIN records : records[i] > cursor}
      before == {i \in DOMAIN records : records[i] < cursor}
      next == IF cursor \in Members(records') THEN cursor
              ELSE IF behind # {} THEN records[CHOOSE i \in behind : \A j \in behind : i <= j]
              ELSE IF before # {} THEN records[CHOOSE i \in before : \A j \in before : i >= j]
              ELSE 0
  IN  /\ ~stale /\ cursor # 0
      /\ records' = records \/ (cursor \in Visible /\ records' = Without(Rank(cursor)))
      /\ screen' \in Pages(records', total)
      /\ cursor' = next
      /\ next \in Members(screen') \cup {0}
      /\ told' = cursor' /\ Chosen
      /\ UNCHANGED <<total, place, stale, sync, eachClick>>

(* A record is added at the end, under the cursor; or nothing is, and the  *)
(* cursor is lost with the page it was on.                                 *)
AppendOne ==
  /\ ~stale
  /\ total' = total + 1
  /\ records' = Append(records, total')
  /\ screen' \in Pages(records', total') /\ screen'[Len(screen')] = total'
  /\ cursor' = total'
  /\ Tell
  /\ UNCHANGED <<valued, stale, sync, eachClick>>
AppendFails ==
  /\ SameFile
  /\ screen' \in Pages(records, total) \cup {screen}
  /\ cursor' \in {0, cursor}
  /\ screen' # screen => cursor' = 0
  /\ Silent /\ UNCHANGED valued

(* The program does what it likes with the file and its place in it ...    *)
Work ==
  /\ stale'
  /\ told' = Untold
  /\ UNCHANGED <<screen, cursor, valued, sync, eachClick>>

(* ... and refreshes the screen.  The cursor stays on its record if that   *)
(* is still visible, otherwise it is lost; from nowhere it comes to the    *)
(* program's place.  The screen may be left empty if nothing is visible    *)
(* from there on.                                                          *)
Refresh ==
  LET at == IF cursor = 0 THEN place ELSE cursor
      behind == {i \in DOMAIN records : records[i] > at}
  IN  /\ ~stale'
      /\ Silent /\ UNCHANGED <<records, total, valued, sync, eachClick>>
      /\ screen' \in Pages(records, total) \/ (at \notin Visible /\ behind = {} /\ screen' = <<>>)
      /\ cursor' = IF at \in Visible THEN at ELSE 0
      /\ cursor' \in Members(screen') \cup {0}

CursorInit ==
  /\ screen = <<>> /\ cursor = 0
  /\ told = Untold /\ valued = 0
  /\ stale = TRUE

CursorNext ==
  \/ Choose(cursor') \/ ChooseNone \/ Click \/ ClickOutside
  \/ ToFirst \/ ToLast \/ LineUp \/ LineDown \/ PageUp \/ PageDown
  \/ Remove \/ AppendOne \/ AppendFails \/ Work \/ Refresh

CursorSpec == CursorInit /\ [][CursorNext]_cursorVars
=============================================================================

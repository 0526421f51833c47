------------------------------- MODULE PgCopy -------------------------------
(***************************************************************************)
(* HB_PQCOPYFROMWA (HbPgSql/rddcopy.c): the records of a work area are     *)
(* written as CSV into a buffer, which is sent to a PostgreSQL server each *)
(* time it is full, within one COPY command.  Reading and sending may fail *)
(* at any point.  On a nonblocking connection (PQSETNONBLOCKING) a buffer  *)
(* may also not be taken, which the code does not tell from success.       *)
(***************************************************************************)
EXTENDS Naturals, Sequences, SequencesExt

CONSTANTS
  Values,       \* bound: the strings in the fields, sequences of characters
  FieldCount,   \* fields of the work area
  FieldLists,   \* lengths of the lists of fields a program asks for
  BufferLength, \* 1400 times nBufLen in the code
  MaxRecords    \* bound: records that are copied

ASSUME PgCopyAssumption ==
  /\ Values \subseteq Seq(STRING)
  /\ FieldCount \in Nat \ {0} /\ FieldLists \subseteq 1 .. FieldCount
  /\ BufferLength \in Nat /\ BufferLength > 2 /\ MaxRecords \in Nat

VARIABLES
  blocking, \* of the connection
  step,    \* "idle", "record", "field", "end", "fail"
  fields,  \* how many fields are copied (uiFieldCopy, or all of them)
  nCount,  \* records at most, 0 for all
  buffer, sentData, \* context->buffer; what PQputCopyData has taken
  record,  \* the values of the record at hand that are in the buffer
  records, \* those of the records before: uiRecCount is their number
  table,   \* the server's table
  ret,     \* what the call returned: "none" before, "true" or "false"
  trouble  \* for the properties: "none", "failed", "dropped" if a buffer was
           \* not taken, or "answer" if only the connection failed, after
           \* the server had everything

pgVars ==
  <<blocking, step, fields, nCount, buffer, sentData, record, records, table, ret, trouble>>

Control == "control" \* a character below a space, not white space
Quote == "quote"
EndOfCopy == "\\."   \* the marker, a line of its own, where the server gets all of it
Marker == <<"\\", ".", "LF">>   \* a piece of it is text

-----------------------------------------------------------------------------
(* exportBufSqlVar for a string: blanks at the end and control characters  *)
(* are dropped.  Values of other types are characters that need no quotes. *)

RTrim(s) ==
  LET kept == {n \in 0 .. Len(s) : \A i \in n + 1 .. Len(s) : s[i] = " "}
  IN  SubSeq(s, 1, CHOOSE n \in kept : \A m \in kept : n <= m)

Copied(t, c) == IF c = Control THEN t ELSE Append(t, c)
Stored(s) == FoldLeft(Copied, <<>>, RTrim(s))

(* Faulty: quotes are not doubled *)
NotDoubled(s) == <<Quote>> \o Stored(s) \o <<Quote>>

Doubled(t, c) == IF c = Quote THEN t \o <<Quote, Quote>> ELSE Append(t, c)
Quoted(s) == <<Quote>> \o FoldLeft(Doubled, <<>>, Stored(s)) \o <<Quote>>

(* The field behind which the line ends is the last one of the work area,  *)
(* also when fewer are copied                                              *)
Delimiter(i) == IF i = FieldCount THEN <<"LF">> ELSE <<",">>

(* addToContext, addStrToContext: a full buffer is sent when there is      *)
(* another character for it.  PQputCopyData = 0, not taken, counts as      *)
(* success, and the buffer is emptied.                                     *)
Flushes(s) == IF s = <<>> THEN 0 ELSE (Len(buffer \o s) - 1) \div BufferLength

AddToContext(s) ==
  LET all == buffer \o s
      n == Flushes(s) * BufferLength
      full(i) == SubSeq(all, (i - 1) * BufferLength + 1, i * BufferLength)
  IN  /\ buffer' = SubSeq(all, n + 1, Len(all))
      /\ \/ /\ sentData' = sentData \o SubSeq(all, 1, n)
            /\ UNCHANGED trouble
         \/ /\ ~blocking
            /\ \E taken \in SUBSET (1 .. Flushes(s)) \ {1 .. Flushes(s)} :
                 sentData' = sentData \o FlattenSeq(
                   [i \in 1 .. Flushes(s) |-> IF i \in taken THEN full(i) ELSE <<>>])
            /\ trouble' = "dropped"

(* The call of PQputCopyData within it fails *)
AddFails(s) ==
  /\ Flushes(s) > 0
  /\ step' = "fail"
  /\ trouble' = "failed"
  /\ UNCHANGED <<buffer, sentData, record, records>>

-----------------------------------------------------------------------------
(* The server reads CSV in rows of as many columns as the command names.   *)
(* (External.)                                                             *)

NextChar(p, c) ==
  LET endField == [p EXCEPT !.row = Append(@, p.field), !.field = <<>>, !.mode = "start"]
      add(mode) == [p EXCEPT !.field = Append(@, c), !.mode = mode]
  IN  IF p.mode = "done" THEN p
      ELSE IF p.mode = "start" /\ p.row = <<>> /\ c = EndOfCopy THEN [p EXCEPT !.mode = "done"]
      ELSE IF p.mode = "quoted" THEN IF c = Quote THEN [p EXCEPT !.mode = "quote"] ELSE add("quoted")
      ELSE IF c = Quote THEN IF p.mode = "start" THEN [p EXCEPT !.mode = "quoted"] ELSE add("quoted")
      ELSE IF c = "," THEN endField
      ELSE IF c = "LF" THEN [endField EXCEPT !.rows = Append(@, endField.row), !.row = <<>>]
      ELSE add("plain")

Parsed(data) ==
  FoldLeft(NextChar, [rows |-> <<>>, row |-> <<>>, field |-> <<>>, mode |-> "start"], data)

(* If the data end without the marker, what is left is a row               *)
Rows(data) ==
  LET p == Parsed(data)
  IN  IF p.mode = "done" \/ (p.mode = "start" /\ p.row = <<>>) THEN p.rows
      ELSE Append(p.rows, Append(p.row, p.field))

(* No quote is left open, and each row has its columns *)
Accepts(data) ==
  /\ Parsed(data).mode # "quoted"
  /\ \A i \in DOMAIN Rows(data) : Len(Rows(data)[i]) = fields

-----------------------------------------------------------------------------
Start(n, most) ==
  /\ step = "idle"
  /\ fields' = n /\ nCount' = most
  /\ buffer' = <<>> /\ sentData' = <<>>
  /\ record' = <<>> /\ records' = <<>>
  /\ ret' = "none"
  /\ \/ step' = "record" /\ trouble' = "none"
     \/ step' = "fail" /\ trouble' = "failed"
  /\ UNCHANGED <<blocking, table>>

(* End of the work area, nCount reached, the WHILE block says no, or the   *)
(* work area cannot be read: the copy ends here and is not a failure.      *)
(* (A record that the FOR block refuses is skipped, and changes nothing.)  *)
LastRecord ==
  /\ step = "record"
  /\ step' = "end"
  /\ UNCHANGED <<blocking, fields, nCount, buffer, sentData, record, records, table, ret, trouble>>

(* Bound: MaxRecords *)
NextRecord ==
  /\ step = "record"
  /\ nCount = 0 \/ Len(records) < nCount
  /\ Len(records) < MaxRecords
  /\ step' = "field"
  /\ record' = <<>>
  /\ UNCHANGED <<blocking, fields, nCount, buffer, sentData, records, table, ret, trouble>>

Field(value) ==
  LET i == Len(record) + 1
      s == Quoted(value) \o Delimiter(i)
      done == i = fields
      all == Append(record, Stored(value))
  IN  /\ step = "field"
      /\ \/ /\ AddToContext(s)
            /\ record' = IF done THEN <<>> ELSE all
            /\ records' = IF done THEN Append(records, all) ELSE records
            /\ step' = IF done THEN "record" ELSE "field"
         \/ AddFails(s)
      /\ UNCHANGED <<blocking, fields, nCount, table, ret>>

(* The value cannot be read, or is of a type that cannot be exported *)
FieldFails ==
  /\ step = "field"
  /\ step' = "fail"
  /\ trouble' = "failed"
  /\ UNCHANGED <<blocking, fields, nCount, buffer, sentData, record, records, table, ret>>

Return(r) == step' = "idle" /\ ret' = r

(* Faulty: the rest of the buffer is sent only if it is full *)
RestIfFull == IF Len(buffer) = BufferLength THEN buffer ELSE <<>>

(* The rest of the buffer, sent after the last record *)
Rest == buffer

AllData == sentData \o Rest \o <<EndOfCopy>>

(* The same if the rest, the marker or both are not taken: they share a    *)
(* buffer if there is room for them, otherwise the marker is split.        *)
CutData ==
  LET room == BufferLength - Len(buffer)
      tail == IF room = 0 THEN <<EndOfCopy>> ELSE SubSeq(Marker, room + 1, 3)
  IN  {sentData} \cup
      IF room >= 3 THEN {}
      ELSE {sentData \o Rest \o SubSeq(Marker, 1, room), sentData \o tail}

(* The end of the transfer: the marker, the rest of the buffer,            *)
(* PQputCopyEnd and the results                                            *)
Ends(data) ==
  \/ /\ Accepts(data)
     /\ table' = table \o Rows(data)
     /\ Return("true")
     /\ trouble' = IF data = AllData THEN trouble ELSE "dropped"
  \/ /\ ~Accepts(data)
     /\ Return("false")
     /\ trouble' = IF data = AllData THEN trouble ELSE "dropped"
     /\ UNCHANGED table
  \/ /\ Accepts(data)
     /\ table' = table \o Rows(data)
     /\ Return("false")
     /\ trouble' = "answer"
  \/ /\ Return("false")
     /\ trouble' = "failed"
     /\ UNCHANGED table

Finish ==
  /\ step = "end"
  /\ Ends(AllData) \/ (~blocking /\ \E data \in CutData : Ends(data))
  /\ UNCHANGED <<blocking, fields, nCount, buffer, sentData, record, records>>

(* PQputCopyEnd with a message: the server drops the rows it has *)
GiveUp ==
  /\ step = "fail"
  /\ Return("false")
  /\ UNCHANGED <<blocking, fields, nCount, buffer, sentData, record, records, table, trouble>>

PgInit ==
  /\ blocking \in BOOLEAN
  /\ step = "idle" /\ fields = 1 /\ nCount = 0
  /\ buffer = <<>> /\ sentData = <<>> /\ record = <<>> /\ records = <<>>
  /\ table = <<>> /\ ret = "none" /\ trouble = "none"

(* Bound: one copy *)
PgNext ==
  \/ ret = "none" /\ \E n \in FieldLists \cup {FieldCount}, most \in 0 .. 1 : Start(n, most)
  \/ LastRecord \/ NextRecord
  \/ \E value \in Values : Field(value)
  \/ FieldFails \/ Finish \/ GiveUp
=============================================================================

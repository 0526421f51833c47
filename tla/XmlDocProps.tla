---------------------------- MODULE XmlDocProps ----------------------------
(***************************************************************************)
(* Properties of documents that are saved and read back.                   *)
(***************************************************************************)
EXTENDS XmlDoc

(* Documents that the properties are about: one element, comments around   *)
(* it; no processing instruction (its title grows by a question mark each  *)
(* time); no string of blanks alone (hbxml_pp may run beyond it); no two   *)
(* strings in a row (they are read as one).                                *)
RECURSIVE Plain(_)
Plain(items) ==
  /\ \A i \in DOMAIN items :
       IF IsText(items[i])
       THEN /\ \E j \in DOMAIN items[i][2] : items[i][2][j] \notin Blank
            /\ i > 1 => ~IsText(items[i - 1])
       ELSE /\ TypeOf(items[i]) # "pi"
            /\ TypeOf(items[i]) \in {"comment", "cdata"} \/ Plain(Items(items[i]))

OneRoot(items) ==
  Len(SelectSeq(items, LAMBDA x : TypeOf(x) = "tag" \/ TypeOf(x) = "single")) = 1
  /\ \A i \in DOMAIN items : TypeOf(items[i]) # "cdata"

(* Strings without the blanks around them, sections without a new line at  *)
(* their end                                                               *)
TrimEnds(s) ==
  LET inner == {i \in DOMAIN s : s[i] \notin Blank}
  IN  IF inner = {} THEN <<>>
      ELSE SubSeq(s, CHOOSE i \in inner : \A j \in inner : i <= j,
                     CHOOSE i \in inner : \A j \in inner : i >= j)

WithoutNewLine(s) ==
  SubSeq(s, 1, CHOOSE n \in 0 .. Len(s) :
                 /\ n > 0 => s[n] \notin {"CR", "LF"}
                 /\ \A i \in n + 1 .. Len(s) : s[i] \in {"CR", "LF"})

(* The last Read had a file to read *)
WasRead == outcome \notin {"", "unopened"}

RECURSIVE Content(_)
Content(items) ==
  [i \in DOMAIN items |->
     IF IsText(items[i]) THEN Text(TrimEnds(items[i][2]))
     ELSE IF TypeOf(items[i]) \in Sections
     THEN <<TypeOf(items[i]), WithoutNewLine(Items(items[i])[1][2])>>
     ELSE Node(TypeOf(items[i]), Title(items[i]), Content(Items(items[i])))]

(* The comments before the element are not part of what is read *)
FromRoot(items) ==
  LET first == CHOOSE i \in DOMAIN items :
                 TypeOf(items[i]) # "comment" /\ \A j \in 1 .. i - 1 : TypeOf(items[j]) = "comment"
  IN  SubSeq(items, first, Len(items))

(* A document that Save wrote is read without an error and with all it     *)
(* had in the element, in its order: neither indentation nor new lines nor *)
(* escaped characters change a string, but for blanks around it.           *)
SavedOpens ==
  WasRead /\ Plain(saved.items) /\ OneRoot(saved.items) =>
    outcome = "ok" /\ Content(doc) = Content(FromRoot(saved.items))

(* A document that was read is not changed any more by Save and Read: no   *)
(* string, comment or section grows each time the file is saved.           *)
SaveSettles ==
  WasRead /\ saved.origin # <<>> /\ Plain(saved.origin) /\ OneRoot(saved.origin) =>
    doc = saved.items
=============================================================================

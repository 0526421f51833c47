------------------------------- MODULE XmlDoc -------------------------------
(***************************************************************************)
(* HXMLDoc and HXMLNode (hbxml/hxmldoc.prg) and the parser they read with  *)
(* (hbxml/xmlparse.c): a document is built, saved to a file, and read back.*)
(*                                                                         *)
(* A file is a sequence of tokens: markup, and the characters between it.  *)
(* Names, attributes (which are written as they are) and the header are    *)
(* left out; text is a sequence of characters and is escaped, indented,    *)
(* decoded and trimmed as the code does it.                                *)
(***************************************************************************)
EXTENDS Naturals, Sequences, SequencesExt

CONSTANTS
  Texts,    \* the strings a program adds, sequences of characters
  SectionTexts, \* what is in the comments and CDATA sections it adds
  MaxAdds   \* bound: items of a document

ASSUME XmlAssumption == MaxAdds \in Nat

VARIABLES
  doc,      \* the items of the document
  file,     \* tokens, <<>> if nothing was saved
  outcome,  \* what the last Read returned: "", "ok", or why it failed;
            \* "unopened" for the empty document that it returns without a file
  origin,   \* for the properties: the items whose file the document was read
            \* from, <<>> if it was built
  saved     \* for the properties: [items, origin] of the document in file

xmlVars == <<doc, file, outcome, origin, saved>>

-----------------------------------------------------------------------------
(* Items: strings and nodes.  The title of a node is a name with a number  *)
(* of question marks behind it.                                            *)

Text(s) == <<"text", s>>
Node(type, title, items) == <<type, title, items, Len(items)>>

IsText(item) == item[1] = "text"
TypeOf(item) == item[1]
Title(item)  == item[2]
Items(item)  == item[3]

Name == <<"name", 0>>
Sections == {"comment", "cdata"}

Blank == {" ", "CR", "LF"}
CRLF == <<"CR", "LF">>

(* A string with the character "long" in it is one of 80 or more           *)
IsLong(s) == Contains(s, "long")

(* predefinedEntity1, predefinedEntity2 *)
Entities == {[code |-> <<"l", "t", ";">>, char |-> "<"],
             [code |-> <<"a", "m", "p", ";">>, char |-> "&"],
             [code |-> <<"n", "b", "s", "p", ";">>, char |-> " "]}

-----------------------------------------------------------------------------
(* Save                                                                    *)

(* HBXML_PRESAVE: a space only behind another *)
EscapedAt(s, i) ==
  IF (s[i] = " " => i > 1 /\ s[i - 1] = " ") /\ \E e \in Entities : e.char = s[i]
  THEN <<"&">> \o (CHOOSE e \in Entities : e.char = s[i]).code
  ELSE <<s[i]>>

(* Faulty: nothing is escaped *)
SaveAsIs(s) == s

PreSave(s) == FlattenSeq([i \in DOMAIN s |-> EscapedAt(s, i)])

Chars(s) == [i \in DOMAIN s |-> <<"char", s[i]>>]
Indent(level) == Chars([i \in 1 .. 2 * level |-> " "])

(* An element without items, or with one short string, is on one line *)
OnOneLine(node) ==
  \/ Items(node) = <<>>
  \/ Len(Items(node)) = 1 /\ IsText(Items(node)[1]) /\ ~IsLong(Items(node)[1][2])

(* Faulty: a new line after every string *)
NewLineAlways(s, lNewLine) == lNewLine

(* A string that does not end with one is followed by a new line *)
NewLineAfter(s, lNewLine) == lNewLine /\ (s = <<>> \/ s[Len(s)] # "LF")

(* Save of an HXMLNode; newLine is hxml_newline, which is shared with the  *)
(* nodes above: .F. after a string, .T. after a node                       *)
RECURSIVE SaveNode(_, _, _)
SaveNode(node, level, newLine) ==
  LET type == TypeOf(node)
      items == Items(node)
      tag == type = "tag"
      lNewLine == IF tag THEN ~OnOneLine(node) ELSE newLine
      SaveString(s) ==
        (IF type \in Sections THEN Chars(s) ELSE Chars(PreSave(s)))
          \o (IF NewLineAfter(s, lNewLine) THEN Chars(CRLF) ELSE <<>>)
      SaveItem(i) ==
        IF IsText(items[i]) THEN SaveString(items[i][2])
        ELSE SaveNode(items[i], level + 1,
                      IF i = 1 THEN lNewLine ELSE ~IsText(items[i - 1]))
  IN  Indent(level) \o <<<<"open", type, Title(node)>>>>
        \o (IF type \in {"single", "pi"} \/ (tag /\ lNewLine) THEN Chars(CRLF) ELSE <<>>)
        \o FlattenSeq([i \in DOMAIN items |-> SaveItem(i)])
        \o (IF tag /\ lNewLine THEN Indent(level) ELSE <<>>)
        \o (IF tag \/ type \in Sections
            THEN <<<<"close", type, Title(node)>>>> \o Chars(CRLF) ELSE <<>>)

(* Save of an HXMLDoc *)
SaveDoc(items) == FlattenSeq([i \in DOMAIN items |-> SaveNode(items[i], 0, TRUE)])

-----------------------------------------------------------------------------
(* Read                                                                    *)

(* What is between the markup; a < that was not escaped is taken for markup *)
IsChar(token) == token[1] = "char" /\ token[2] # "<"

(* The first position from p on that is markup *)
NextMarkup(f, p) == CHOOSE q \in p .. Len(f) :
                      ~IsChar(f[q]) /\ \A r \in p .. q - 1 : IsChar(f[r])

(* The end of a comment or CDATA section that begins before p *)
SectionEnd(f, p) == CHOOSE q \in p .. Len(f) :
                      f[q][1] = "close" /\ \A r \in p .. q - 1 : f[r][1] # "close"

(* HB_SKIPTABSPACES *)
RECURSIVE SkipBlank(_, _)
SkipBlank(f, p) ==
  IF p <= Len(f) /\ f[p][1] = "char" /\ f[p][2] \in Blank THEN SkipBlank(f, p + 1) ELSE p

(* hbxml_pp decodes in place: n characters of mem are left, behind them is *)
(* what was there before.  An entity that is not known is an error.        *)
RECURSIVE Decode(_, _, _)
Decode(mem, at, n) ==
  IF at > n THEN [mem |-> mem, n |-> n, ok |-> TRUE]
  ELSE IF mem[at] # "&" THEN Decode(mem, at + 1, n)
  ELSE LET matches == {e \in Entities : IsPrefix(e.code, SubSeq(mem, at + 1, Len(mem)))}
           e == CHOOSE e \in matches : TRUE
           k == Len(e.code)
       IN  IF matches = {} THEN [mem |-> mem, n |-> n, ok |-> FALSE]
           ELSE Decode([i \in DOMAIN mem |->
                          IF i = at THEN e.char
                          ELSE IF i > at /\ i <= n - k THEN mem[i + k] ELSE mem[i]],
                       at + 1, n - k)

(* The end of hbxml_pp: blanks are skipped, also beyond the n characters:  *)
(* then the length, which is unsigned, is a huge number                    *)
Trimmed(d) ==
  LET first == CHOOSE i \in DOMAIN d.mem :
                 d.mem[i] \notin Blank /\ \A j \in 1 .. i - 1 : d.mem[j] \in Blank
      last == CHOOSE i \in first .. d.n :
                d.mem[i] \notin Blank /\ \A j \in i + 1 .. d.n : d.mem[j] \in Blank
  IN  IF ~d.ok THEN [error |-> "wrong entity", s |-> <<>>]
      ELSE IF first > d.n + 1 THEN [error |-> "overrun", s |-> <<>>]
      ELSE [error |-> "", s |-> IF first = d.n + 1 THEN <<>> ELSE SubSeq(d.mem, first, last)]

(* hbxml_pp for the tokens p .. q - 1, q being markup *)
PP(f, p, q) ==
  Trimmed(Decode([i \in 1 .. q - p |-> f[p + i - 1][2]] \o <<"<">>, 1, q - p))

Failed(error) == [error |-> error, items |-> <<>>, p |-> 0]

(* hbxml_readElement, hbxml_readComment, hbxml_readCDATA: the node that    *)
(* begins at p, in items, and the position behind it.  Neither a PI nor a  *)
(* single tag has items; the question mark before its > stays in the title *)
(* of a PI.                                                                *)
RECURSIVE ReadNode(_, _), ReadItems(_, _, _, _)
ReadNode(f, p) ==
  LET type == f[p][2]
      title == f[p][3]
      q == SectionEnd(f, p + 1)
      body == ReadItems(f, p + 1, title, <<>>)
      Read(items, at) == [error |-> "", items |-> <<Node(type, title, items)>>, p |-> at]
  IN  IF f[p][1] # "open" THEN Failed("not gt")
      ELSE IF type = "pi"
      THEN [error |-> "", p |-> p + 1,
            items |-> <<Node(type, <<title[1], title[2] + 1>>, <<>>)>>]
      ELSE IF type = "single" THEN Read(<<>>, p + 1)
      ELSE IF type \in Sections
      THEN Read(<<Text([i \in 1 .. q - p - 1 |-> f[p + i][2]])>>, q + 1)
      ELSE IF body.error # "" THEN body ELSE Read(body.items, body.p)

(* The loop of hbxml_readElement.  The end tag need only begin with the    *)
(* title.                                                                  *)
ReadItems(f, p, title, items) ==
  LET q == NextMarkup(f, p)
      blank == \A i \in p .. q - 1 : f[i][2] \in Blank
      text == PP(f, p, q)
      before == IF blank THEN items ELSE Append(items, Text(text.s))
      node == ReadNode(f, q)
  IN  IF ~blank /\ text.error # "" THEN Failed(text.error)
      ELSE IF f[q][1] = "close"
      THEN IF f[q][3] = title THEN [error |-> "", items |-> before, p |-> q + 1]
           ELSE Failed("wrong tag end")
      ELSE IF node.error # "" THEN node
      ELSE ReadItems(f, node.p, title, before \o node.items)

(* HBXML_GETDOC: comments before the first element are skipped, and only   *)
(* comments may follow it.  A CDATA section is not expected here: it is    *)
(* taken for an element named ![CDATA[..., and its end is looked for       *)
(* beyond the end of the file.                                             *)
RECURSIVE SkipComments(_, _), ReadRoots(_, _, _, _)
SkipComments(f, p) ==
  IF p <= Len(f) /\ f[p][1] = "open" /\ f[p][2] = "comment"
  THEN SkipComments(f, SkipBlank(f, SectionEnd(f, p + 1) + 1)) ELSE p

ReadRoots(f, p, roots, items) ==
  LET node == ReadNode(f, p)
      isComment == f[p][1] = "open" /\ f[p][2] = "comment"
      next == SkipBlank(f, node.p)
      isCdata == f[p][1] = "open" /\ f[p][2] = "cdata"
      all == items \o node.items
  IN  IF ~isComment /\ roots > 0 THEN Failed("wrong end")
      ELSE IF isCdata THEN Failed("overread")
      ELSE IF node.error # "" THEN node
      ELSE IF next > Len(f) THEN [error |-> "", items |-> all, p |-> next]
      ELSE ReadRoots(f, next, roots + (IF isComment THEN 0 ELSE 1), all)

(* In a file with nothing but comments the first element is read where the *)
(* file has ended                                                          *)
ReadDoc(f) ==
  LET p == SkipComments(f, SkipBlank(f, 1))
  IN  IF p > Len(f) THEN Failed("overread") ELSE ReadRoots(f, p, 0, <<>>)

-----------------------------------------------------------------------------
(* The calls of the program                                                *)

NewItems ==
  {Text(s) : s \in Texts}
    \cup {Node(type, Name, <<>>) : type \in {"tag", "single", "pi"}}
    \cup {Node(type, Name, <<Text(s)>>) : type \in Sections, s \in SectionTexts}

RECURSIVE CountItems(_)
CountItems(items) ==
  FoldLeft(LAMBDA n, item : n + 1 + (IF IsText(item) THEN 0 ELSE CountItems(Items(item))),
           0, items)

(* Items with x added to the node that the path leads to *)
RECURSIVE Added(_, _, _)
Added(items, path, x) ==
  IF path = <<>> THEN Append(items, x)
  ELSE LET node == items[Head(path)]
       IN  [items EXCEPT ![Head(path)] =
              Node(TypeOf(node), Title(node), Added(Items(node), Tail(path), x))]

IsTag(items, i) == i \in DOMAIN items /\ TypeOf(items[i]) = "tag"

(* Add of an HXMLDoc or of an HXMLNode, a tag.  Bound: a document is built *)
(* before it is saved.                                                     *)
AddTo(path, x) ==
  /\ file = <<>>
  /\ CountItems(doc) < MaxAdds
  /\ path = <<>> => ~IsText(x)
  /\ path # <<>> => IsTag(doc, path[1])
  /\ Len(path) = 2 => IsTag(Items(doc[path[1]]), path[2])
  /\ doc' = Added(doc, path, x)
  /\ UNCHANGED <<file, outcome, origin, saved>>

(* Bound: what was saved, read, saved again and read again is not saved a  *)
(* third time                                                              *)
Save ==
  /\ doc # <<>>
  /\ saved.origin = <<>>
  /\ file' = SaveDoc(doc)
  /\ saved' = [items |-> doc, origin |-> origin]
  /\ outcome' = ""
  /\ UNCHANGED <<doc, origin>>

(* Save when the file cannot be created: it returns .T. all the same       *)
SaveFails ==
  /\ doc # <<>>
  /\ saved.origin = <<>>
  /\ outcome' = ""
  /\ UNCHANGED <<doc, file, origin, saved>>

(* What is behind the end of the file may be taken for anything            *)
JunkRead == <<Node("tag", <<"junk", 0>>, <<>>)>>

(* Read into a new HXMLDoc; Nil if it fails *)
Read ==
  LET read == ReadDoc(file)
  IN  /\ file # <<>>
      /\ outcome = ""
      /\ \/ /\ read.error = ""
            /\ doc' = read.items
            /\ outcome' = "ok"
         \/ /\ read.error # ""
            /\ doc' = <<>>
            /\ outcome' = read.error
         \/ /\ read.error = "overread"
            /\ doc' = JunkRead
            /\ outcome' = "ok"
      /\ origin' = saved.items
      /\ UNCHANGED <<file, saved>>

(* Read when the file cannot be opened: the new HXMLDoc, empty, not Nil    *)
ReadUnopened ==
  /\ file # <<>>
  /\ outcome = ""
  /\ doc' = <<>>
  /\ outcome' = "unopened"
  /\ origin' = <<>>
  /\ UNCHANGED <<file, saved>>

XmlInit ==
  /\ doc = <<>> /\ file = <<>>
  /\ outcome = "" /\ origin = <<>>
  /\ saved = [items |-> <<>>, origin |-> <<>>]

(* Bound: a path has two numbers at most, and is the last one possible *)
XmlNext ==
  \/ \E x \in NewItems :
       \/ AddTo(<<>>, x)
       \/ AddTo(<<1>>, x)
       \/ doc # <<>> /\ Len(doc[1]) > 2 /\ AddTo(<<1, Len(Items(doc[1]))>>, x)
  \/ Save \/ SaveFails
  \/ Read \/ ReadUnopened
=============================================================================

------------------------------ MODULE MruList ------------------------------
(***************************************************************************)
(* The list of most recently used files in a menu (h_mru.prg), with the    *)
(* functions it changes the menu by (h_menu.prg): an item is found by the  *)
(* name of its control, through a PUBLIC variable that holds the control's *)
(* index, and in the menu by the control's id.  The list is saved to an    *)
(* ini file entry by entry, and read from it when the menu is defined.     *)
(*                                                                         *)
(* The window of the list is the only one with a main menu: a new item is  *)
(* named after the window whose main menu was defined last.                *)
(***************************************************************************)
EXTENDS Naturals, Sequences
Seqs == INSTANCE SequencesExt

CONSTANTS
  Files,    \* bound: file names, "" is none of them
  Upper,    \* what Harbour's Upper makes of each
  MaxMru,   \* maxMRU_Files, nMaxItems of the program
  MaxMade,  \* bound: controls made by one run of the program
  MaxClears \* bound: lists cleared by one run

Empty == ""

ASSUME MruAssumption ==
  /\ MaxMru \in Nat \ {0} /\ MaxMade \in Nat /\ MaxClears \in Nat
  /\ Empty \notin Files

VARIABLES
  mru,    \* the program's memory: the STATIC variables of h_mru.prg, the menu,
          \* the controls and the PUBLIC variables; NotRunning
  ini,    \* the entries of the section, "" for none
  saving  \* the next entry that SaveMRUFileList writes, 0 if it does not run

mruVars == <<mru, ini, saving>>

NotRunning == [count |-> 0, list |-> <<>>, id |-> <<>>, menu |-> <<>>,
               public |-> <<>>, made |-> 0]
MenuDefined == mru # NotRunning

-----------------------------------------------------------------------------
(* The menu: [id, place, file, enabled], place being the number in front   *)
(* of the caption.  A control's id is its index here: neither is ever used *)
(* again.  Its action is taken for the file it opens.                      *)

(* _GetMenuIds; 0 if there is no such control *)
MenuId(m, name) == IF name \in DOMAIN m.public THEN m.public[name] ELSE 0

(* _ModifyMenuItem, which enables the item as well *)
ModifyMenuItem(m, name, place, file) ==
  [m EXCEPT !.menu = [k \in DOMAIN m.menu |->
     IF m.menu[k].id = MenuId(m, name)
     THEN [id |-> m.menu[k].id, place |-> place, file |-> file, enabled |-> TRUE]
     ELSE m.menu[k]]]

Positions(m, name) == {k \in DOMAIN m.menu : m.menu[k].id = MenuId(m, name)}

(* _InsertMenuItem, in front of another item: always a new control         *)
InsertMenuItem(m, before, file, name) ==
  LET k == CHOOSE k \in Positions(m, before) : TRUE
      item == [id |-> m.made + 1, place |-> 1, file |-> file, enabled |-> TRUE]
  IN  [m EXCEPT !.menu = Seqs!InsertAt(@, k, item),
                !.made = @ + 1,
                !.public = [x \in DOMAIN m.public \cup {name} |->
                              IF x = name THEN m.made + 1 ELSE m.public[x]]]

(* _RemoveMenuItem: the control stays behind *)
RemoveMenuItem(m, name) ==
  IF Positions(m, name) = {} THEN m
  ELSE [m EXCEPT !.menu = Seqs!RemoveAt(@, CHOOSE k \in Positions(m, name) : TRUE)]

-----------------------------------------------------------------------------
(* The list: [name, file, slot].  Names are those of the first item with   *)
(* numbers behind it: cMRU_Id + '_' + hb_ntos(x) is Append(m.id, x).       *)

(* CheckForDuplicateMRU; 0 for NOFOUND *)
CheckForDuplicate(m, file) ==
  LET same == {i \in DOMAIN m.list : Upper[m.list[i].file] = Upper[file]}
  IN  IF same = {} THEN 0 ELSE CHOOSE i \in same : \A j \in same : i <= j

(* ReorderMRUList *)
Reorder(m, i) ==
  [RemoveMenuItem(m, m.list[i].name) EXCEPT !.list = Seqs!RemoveAt(@, i)]

(* Faulty: the items are numbered as they come *)
NextSlot(m) == Len(m.list) + 1

(* The first number that no item has *)
FreeSlot(m) ==
  CHOOSE x \in 1 .. Len(m.list) + 1 :
    /\ \A i \in DOMAIN m.list : m.list[i].slot # x
    /\ \A y \in 1 .. x - 1 : \E i \in DOMAIN m.list : m.list[i].slot = y

Renumber(m) ==
  LET numbered[n \in 0 .. Len(m.list)] ==
        IF n = 0 THEN m
        ELSE ModifyMenuItem(numbered[n - 1], m.list[n].name, n, m.list[n].file)
  IN  numbered[Len(m.list)]

Truncate(m) ==
  IF Len(m.list) > MaxMru
  THEN RemoveMenuItem([m EXCEPT !.list = SubSeq(@, 1, MaxMru)], Seqs!Last(m.list).name)
  ELSE m

AddMenuElement(m, file) ==
  LET x == FreeSlot(m)
      name == Append(m.id, x)
      inserted == InsertMenuItem(m, m.list[1].name, file, name)
      item == [name |-> name, file |-> file, slot |-> x]
      first == [name |-> m.id, file |-> file, slot |-> 1]
      added == IF m.count = 0
               THEN [ModifyMenuItem(m, m.id, 1, file) EXCEPT !.list = Append(@, first)]
               ELSE Truncate(Renumber([inserted EXCEPT !.list = <<item>> \o @]))
  IN  [added EXCEPT !.count = @ + 1]

AddMRUItem(m, file) ==
  LET i == CheckForDuplicate(m, file)
      moved == IF i > 1 THEN Reorder(m, i) ELSE m
  IN  IF i # 1 \/ m.count = 0 THEN AddMenuElement(moved, file) ELSE moved

(* ClearMRUList: the first item stays, disabled, and its name is the one   *)
(* that names begin with from now on                                       *)
FirstOnly(m) ==
  LET left[n \in 0 .. Len(m.list) - 1] ==
        IF n = 0 THEN m
        ELSE RemoveMenuItem(left[n - 1], m.list[Len(m.list) + 1 - n].name)
  IN  left[Len(m.list) - 1]

ClearMRUList(m) ==
  LET first == m.list[1].name
      shown == ModifyMenuItem(FirstOnly(m), first, 0, Empty)
  IN  IF m.list = <<>> THEN m
      ELSE [shown EXCEPT !.menu = [k \in DOMAIN shown.menu |->
                                     IF k \in Positions(shown, first)
                                     THEN [shown.menu[k] EXCEPT !.enabled = FALSE]
                                     ELSE shown.menu[k]],
                         !.id = first, !.list = <<>>, !.count = 0]

-----------------------------------------------------------------------------
(* _DefineMruItem: the entries before the first empty one are added, the   *)
(* last one first                                                          *)
Entries ==
  LET filled == {n \in 0 .. MaxMru : \A i \in 1 .. n : ini[i] # Empty}
  IN  SubSeq(ini, 1, CHOOSE n \in filled : \A k \in filled : k <= n)

Loaded(m, files) ==
  LET added[n \in 0 .. Len(files)] ==
        IF n = 0 THEN m ELSE AddMRUItem(added[n - 1], files[Len(files) + 1 - n])
  IN  added[Len(files)]

DefineMruItem ==
  LET item == [id |-> 1, place |-> 0, file |-> Empty, enabled |-> Entries # <<>>]
      menu == [NotRunning EXCEPT !.menu = <<item>>, !.made = 1, !.public = [x \in {<<>>} |-> 1]]
  IN  /\ ~MenuDefined
      /\ mru' = Loaded(menu, Entries)
      /\ UNCHANGED <<ini, saving>>

Open(file) ==
  /\ MenuDefined /\ saving = 0
  /\ mru.made < MaxMade
  /\ mru' = AddMRUItem(mru, file)
  /\ UNCHANGED <<ini, saving>>

Clear ==
  /\ MenuDefined /\ saving = 0
  /\ Len(mru.id) < MaxClears
  /\ mru' = ClearMRUList(mru)
  /\ UNCHANGED <<ini, saving>>

SaveMRUFileList ==
  /\ MenuDefined /\ saving = 0
  /\ saving' = 1
  /\ UNCHANGED <<mru, ini>>

(* Faulty: entries behind the end of the list stay *)
OldEntry(i) == IF i <= Len(mru.list) THEN mru.list[i].file ELSE ini[i]

EntryFor(i) == IF i <= Len(mru.list) THEN mru.list[i].file ELSE Empty

(* One SET SECTION ENTRY of SaveMRUFileList, or its END INI                *)
WriteEntry ==
  /\ saving > 0
  /\ IF saving <= MaxMru
     THEN /\ ini' = [ini EXCEPT ![saving] = EntryFor(saving)]
          /\ saving' = saving + 1
     ELSE /\ saving' = 0
          /\ UNCHANGED ini
  /\ UNCHANGED mru

(* The program ends, or is killed while it saves *)
Exit ==
  /\ MenuDefined
  /\ mru' = NotRunning
  /\ saving' = 0
  /\ UNCHANGED ini

MruInit == mru = NotRunning /\ ini = [i \in 1 .. MaxMru |-> Empty] /\ saving = 0

MruNext ==
  \/ DefineMruItem \/ Clear \/ SaveMRUFileList \/ WriteEntry \/ Exit
  \/ \E file \in Files : Open(file)

MruSpec == MruInit /\ [][MruNext]_mruVars
=============================================================================

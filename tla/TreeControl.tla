---------------------------- MODULE TreeControl ----------------------------
(***************************************************************************)
(* The items of a TREE: h_tree.prg, the TREE branches of _AddItem,         *)
(* _DeleteItem and _DeleteAllItems in h_controlmisc.prg, and c_tree.c.     *)
(* Win32 keeps the tree itself.  The library keeps, in the order of the    *)
(* tree, the handles of the items, their ids and their cargo, and finds an *)
(* item by its position there or, with ITEMIDS, by its id.                 *)
(*                                                                         *)
(* Procedures of the program that run while an item is being deleted do    *)
(* not change the tree.                                                    *)
(***************************************************************************)
EXTENDS Naturals, Sequences, FiniteSets

CONSTANTS
  TreeHandles, \* bound: handles of items, from 1, in the order of their texts;
               \* none is given out again
  MaxLevels,   \* bound: levels of the tree
  MaxCargo,    \* bound: items with a cargo
  SortOrders,  \* how the program sorts, [recurse, ascending, place]
  DeepAdds     \* the program adds items in front of whose place a first
               \* child has children of its own

ASSUME TreeAssumption ==
  /\ TreeHandles \subseteq Nat \ {0} /\ IsFiniteSet(TreeHandles)
  /\ SortOrders \subseteq [recurse : BOOLEAN, ascending : BOOLEAN,
                              place : {"first", "last", "mix"}]
  /\ MaxLevels \in Nat /\ MaxCargo \in Nat /\ DeepAdds \in BOOLEAN

VARIABLES
  itemIds,   \* _HMG_aControlInputMask: the tree has ITEMIDS
  openNodes, \* _HMG_NodeHandle up to _HMG_NodeIndex; <<>> after END TREE
  children,  \* win32: item -> its children, 0 -> the items without a parent
  made,      \* the last handle that it gave out
  lparam,    \* the memory behind each item, [id, node]
  pageMap,   \* _HMG_aControlPageMap, _HMG_aTreeMap until END TREE: handles
  picture,   \* _HMG_aControlPicture, _HMG_aTreeIdMap until then: ids
  headClick, \* _HMG_aControlHeadClick, a_Node_Item_Cargo until then: cargo
  treeError  \* MsgMiniGuiError has ended the program

treeVars == <<itemIds, openNodes, children, made, lparam, pageMap, picture,
              headClick, treeError>>

NIL == 0

-----------------------------------------------------------------------------
Elements(s) == {s[k] : k \in DOMAIN s}
Least(S) == CHOOSE k \in S : \A j \in S : k <= j
Keep(f, S) == [x \in DOMAIN f \cap S |-> f[x]]
With(f, x, v) == [y \in DOMAIN f \cup {x} |-> IF y = x THEN v ELSE f[y]]

-----------------------------------------------------------------------------
(* Win32 *)
LiveItems == DOMAIN children \ {0}
TreeView_GetCount == Cardinality(LiveItems)
TreeView_GetChild(t, h) == IF h \in DOMAIN t /\ t[h] # <<>> THEN t[h][1] ELSE 0
TreeView_GetParent(t, h) ==
  LET above == {p \in DOMAIN t : h \in Elements(t[p])}
  IN  IF above = {} THEN 0 ELSE CHOOSE p \in above : TRUE
TreeView_GetNextSibling(t, h) ==
  LET all == t[TreeView_GetParent(t, h)]
      after == {k \in 2 .. Len(all) : all[k - 1] = h}
  IN  IF after = {} THEN 0 ELSE all[Least(after)]

(* Each item with those above it; 0 is above all *)
Above(t) ==
  LET above[h \in DOMAIN t] ==
        IF h = 0 THEN {0} ELSE {h} \cup above[TreeView_GetParent(t, h)]
  IN  above

Branch(t, h) == {x \in DOMAIN t : h \in Above(t)[x]}
LevelOf(h) == Cardinality(Above(children)[h] \ {0})

NewItem == made + 1

-----------------------------------------------------------------------------
(* Harbour's arrays *)
AScan(a, x) ==
  LET found == {k \in DOMAIN a : a[k] = x} IN IF found = {} THEN 0 ELSE Least(found)
ASize(a, n) == [k \in 1 .. n |-> IF k \in DOMAIN a THEN a[k] ELSE NIL]
AIns(a, k, x) == [j \in DOMAIN a |-> IF j < k THEN a[j] ELSE IF j = k THEN x ELSE a[j - 1]]
(* Faulty: one element, whatever goes with it *)
ADelOne(a, k, n) ==
  [j \in DOMAIN a |-> IF j < k THEN a[j] ELSE IF j + 1 \in DOMAIN a THEN a[j + 1] ELSE NIL]
(* n elements are taken out at k; the others move up *)
ADel(a, k, n) ==
  [j \in DOMAIN a |-> IF j < k THEN a[j] ELSE IF j + n \in DOMAIN a THEN a[j + n] ELSE NIL]

-----------------------------------------------------------------------------
(* ADDTREEITEM: the last child of its parent.  AddTreeItemLPARAM gives it  *)
(* a block of memory of its own.                                           *)
AddTreeItem(parent, id, node) ==
  /\ NewItem \in TreeHandles /\ LevelOf(parent) < MaxLevels
  /\ made' = NewItem
  /\ children' = With([children EXCEPT ![parent] = Append(@, NewItem)], NewItem, <<>>)
  /\ lparam' = With(lparam, NewItem, [id |-> id, node |-> node])

(* The ids of a program: 0 without ITEMIDS, else one that is not in use.   *)
TreeIds == 1 .. Cardinality(TreeHandles) + 1
NewIds == IF itemIds THEN {Least(TreeIds \ Elements(picture))} ELSE {0}

CargoGiven == Cardinality({k \in DOMAIN headClick : headClick[k] # NIL})
SomeCargo == IF CargoGiven < MaxCargo THEN {NIL, 1} ELSE {NIL}

-----------------------------------------------------------------------------
(* DEFINE TREE .. END TREE *)
AppendItem(id, cargo) ==
  /\ pageMap' = Append(pageMap, NewItem)
  /\ picture' = Append(picture, id)
  /\ headClick' = Append(headClick, cargo)
  /\ UNCHANGED <<itemIds, treeError>>

(* _DefineTreeNode *)
DefineTreeNode(id, cargo) ==
  /\ openNodes # <<>>
  /\ AddTreeItem(openNodes[Len(openNodes)], id, TRUE)
  /\ openNodes' = Append(openNodes, NewItem)
  /\ AppendItem(id, cargo)

(* _EndTreeNode *)
EndTreeNode ==
  /\ Len(openNodes) > 1
  /\ openNodes' = SubSeq(openNodes, 1, Len(openNodes) - 1)
  /\ UNCHANGED <<itemIds, children, made, lparam, pageMap, picture, headClick, treeError>>

(* _DefineTreeItem *)
DefineTreeItem(id, cargo) ==
  /\ openNodes # <<>>
  /\ AddTreeItem(openNodes[Len(openNodes)], id, FALSE)
  /\ AppendItem(id, cargo)
  /\ UNCHANGED openNodes

(* _EndTree *)
EndTree ==
  /\ openNodes # <<>>
  /\ openNodes' = <<>>
  /\ UNCHANGED <<itemIds, children, made, lparam, pageMap, picture, headClick, treeError>>

-----------------------------------------------------------------------------
Ready == openNodes = <<>> /\ ~treeError

(* The position of the item that the program means; not one of them if it  *)
(* means none                                                              *)
ItemPosition(value) == IF itemIds THEN AScan(picture, value) ELSE value
IsItem(value) == ItemPosition(value) \in 1 .. TreeView_GetCount

(* "Determine Position of New Item": from temp on, the items in front of   *)
(* new are counted.  An item counts with its first child, and the walk     *)
(* goes on from there.                                                     *)
StepBack(t, temp) ==
  IF TreeView_GetChild(t, temp) = 0 THEN temp ELSE TreeView_GetChild(t, temp)

Climb(t, back) ==
  LET climb[h \in DOMAIN t] ==
        LET next == TreeView_GetNextSibling(t, h)
        IN  IF next # 0 \/ h = 0 THEN next ELSE climb[TreeView_GetParent(t, h)]
  IN  climb[back]

PositionFrom(t, from, new) ==
  LET walk[n \in 0 .. Cardinality(DOMAIN t)] ==
        IF n = 0 THEN [temp |-> from, i |-> 1]
        ELSE LET w == walk[n - 1]
                 back == StepBack(t, w.temp)
             IN  IF w.temp = new THEN w
                 ELSE [temp |-> Climb(t, back), i |-> w.i + IF back = w.temp THEN 1 ELSE 2]
  IN  walk[Cardinality(DOMAIN t)].i

(* Faulty: counts the children only *)
NewPositionAmong(t, parent, new) == Len(t[parent])
NewPosition(t, parent, new) == PositionFrom(t, TreeView_GetChild(t, parent), new)

(* Where the walk counts every item: no first child below has children.    *)
WalkSeesAll(h) ==
  \A i \in Branch(children, h) \ {h} :
    LET c == TreeView_GetChild(children, i) IN c # 0 => children[c] = <<>>

(* _AddItem below an item.  (Win32 refuses a parent that it has deleted    *)
(* and the walk would not end: left out, the map leads to none.)           *)
AddItem(parent, id) ==
  /\ Ready /\ IsItem(parent)
  /\ LET p == ItemPosition(parent)
         at == p + NewPosition(children', pageMap[p], NewItem)
         Insert(a, x) == AIns(ASize(a, TreeView_GetCount'), at, x)
     IN  /\ pageMap[p] \in LiveItems
         /\ DeepAdds \/ WalkSeesAll(pageMap[p])
         /\ AddTreeItem(pageMap[p], id, FALSE)
         /\ pageMap' = Insert(pageMap, NewItem)
         /\ picture' = Insert(picture, id)
         /\ headClick' = Insert(headClick, NIL)
  /\ UNCHANGED <<itemIds, openNodes, treeError>>

(* _AddItem with parent 0.  Where win32 puts it among the others does not   *)
(* matter to the map.                                                      *)
AddRootItem(id) ==
  /\ Ready
  /\ AddTreeItem(0, id, FALSE)
  /\ AppendItem(id, NIL)
  /\ UNCHANGED openNodes

(* MsgMiniGuiError of _AddItem and _DeleteItem: an id that is in use, or   *)
(* no such item.  The program ends, and nothing is left of the tree.       *)
ItemError ==
  /\ Ready /\ treeError' = TRUE
  /\ (itemIds /\ picture # <<>>) \/ \E value \in TreeIds : ~IsItem(value)
  /\ children' = [h \in {0} |-> <<>>] /\ lparam' = <<>>
  /\ pageMap' = <<>> /\ picture' = <<>> /\ headClick' = <<>>
  /\ UNCHANGED <<itemIds, openNodes, made>>

(* Win32 takes the item out of its parent's list. *)
Without(s, x) ==
  LET k == CHOOSE j \in DOMAIN s : s[j] = x
  IN  IF x \in Elements(s) THEN SubSeq(s, 1, k - 1) \o SubSeq(s, k + 1, Len(s)) ELSE s

(* _DeleteItem.  TREEVIEW_DELETEITEM frees the memory of the item and all  *)
(* below it, then win32 deletes them; as many elements are taken out as    *)
(* win32 has items less.  Without ITEMIDS the ids stay where they are.     *)
DeleteItem(value) ==
  /\ Ready /\ IsItem(value)
  /\ LET p == ItemPosition(value)
         gone == IF pageMap[p] \in LiveItems THEN Branch(children, pageMap[p]) ELSE {}
         deleted == Cardinality(gone)
         after == TreeView_GetCount - deleted
     IN  /\ children' = [h \in DOMAIN children \ gone |->
                           Without(children[h], pageMap[p])]
         /\ lparam' = Keep(lparam, TreeHandles \ gone)
         /\ pageMap' = ASize(ADel(pageMap, p, deleted), after)
         /\ headClick' = ASize(ADel(headClick, p, deleted), after)
         /\ picture' = ASize(IF itemIds THEN ADel(picture, p, deleted) ELSE picture, after)
  /\ UNCHANGED <<itemIds, openNodes, made, treeError>>

(* _DeleteAllItems: the memory is found through the handles of the map.    *)
DeleteAllItems ==
  /\ Ready
  /\ children' = [h \in {0} |-> <<>>]
  /\ lparam' = Keep(lparam, TreeHandles \ Elements(pageMap))
  /\ pageMap' = <<>> /\ picture' = <<>> /\ headClick' = <<>>
  /\ UNCHANGED <<itemIds, openNodes, made, treeError>>

(* TreeNodeItemCargo *)
SetItemCargo(value, cargo) ==
  /\ Ready /\ IsItem(value) /\ cargo \in SomeCargo \cup {NIL}
  /\ headClick[ItemPosition(value)] # cargo
  /\ headClick' = [headClick EXCEPT ![ItemPosition(value)] = cargo]
  /\ UNCHANGED <<itemIds, openNodes, children, made, lparam, pageMap, picture, treeError>>

(* TreeViewCompareFunc *)
IsTreeNode(h) == lparam[h].node \/ children[h] # <<>>
Compared(order, a, b) ==
  IF order.place # "mix" /\ IsTreeNode(a) # IsTreeNode(b)
  THEN IsTreeNode(IF order.place = "first" THEN a ELSE b)
  ELSE IF order.ascending THEN a < b ELSE b < a

Sorted(s, order) ==
  [k \in DOMAIN s |-> CHOOSE a \in Elements(s) :
     Cardinality({b \in Elements(s) : Compared(order, b, a)}) = k - 1]

(* TreeItemSort below an item, or below the first of the tree; win32 sorts *)
(* and the map does not.                                                   *)
SortItems(h, order) ==
  /\ Ready /\ h \in LiveItems /\ children[h] # <<>>
  /\ LET sorted == IF order.recurse THEN Branch(children, h) ELSE {h}
     IN  children' = [x \in DOMAIN children |->
                        IF x \in sorted THEN Sorted(children[x], order) ELSE children[x]]
  /\ UNCHANGED <<itemIds, openNodes, made, lparam, pageMap, picture, headClick, treeError>>

-----------------------------------------------------------------------------
TreeInit ==
  /\ itemIds \in BOOLEAN
  /\ openNodes = <<0>> /\ children = [h \in {0} |-> <<>>] /\ made = 0 /\ lparam = <<>>
  /\ pageMap = <<>> /\ picture = <<>> /\ headClick = <<>>
  /\ treeError = FALSE

TreeValues == IF itemIds THEN Elements(picture) ELSE DOMAIN pageMap

TreeNext ==
  \/ \E id \in NewIds, cargo \in SomeCargo :
       DefineTreeNode(id, cargo) \/ DefineTreeItem(id, cargo)
  \/ EndTreeNode \/ EndTree
  \/ \E id \in NewIds : AddRootItem(id) \/ \E value \in TreeValues : AddItem(value, id)
  \/ ItemError \/ DeleteAllItems
  \/ \E value \in TreeValues :
       \/ DeleteItem(value)
       \/ \E cargo \in {NIL, 1} : SetItemCargo(value, cargo)
  \/ \E h \in Elements(pageMap), order \in SortOrders : SortItems(h, order)

TreeSpec == TreeInit /\ [][TreeNext]_treeVars
=============================================================================

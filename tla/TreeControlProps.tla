-------------------------- MODULE TreeControlProps --------------------------
(***************************************************************************)
(* Properties of the items of a TREE.                                      *)
(***************************************************************************)
EXTENDS TreeControl

(* However items are added, deleted and sorted, the map holds the items of *)
(* the tree, and behind each item all those below it and no others: the    *)
(* number of items that _DeleteItem takes out of the map are those that    *)
(* win32 deleted, and the position of an item is one in its branch.  Each  *)
(* item has its memory and nothing else has, and the id by which it is     *)
(* found (Picture) is the one it tells when selected (nID).                *)
MapFollowsTree ==
  /\ Elements(pageMap) = LiveItems /\ Len(pageMap) = TreeView_GetCount
  /\ \A p \in DOMAIN pageMap :
       LET branch == Branch(children, pageMap[p])
       IN  Elements(SubSeq(pageMap, p, p + Cardinality(branch) - 1)) = branch
  /\ DOMAIN lparam = LiveItems
  /\ itemIds => \A p \in DOMAIN pageMap : picture[p] = lparam[pageMap[p]].id

(* The arrays implement ItemTree: with an item go the items below it, with *)
(* their ids and cargo, and no command gives an item the id or the cargo   *)
(* of another.                                                             *)
ItemAt(h) == CHOOSE p \in DOMAIN pageMap : pageMap[p] = h
TreeNodes ==
  [h \in {pageMap[p] : p \in DOMAIN pageMap} |->
     [parent |-> TreeView_GetParent(children, h),
      id |-> IF itemIds THEN picture[ItemAt(h)] ELSE 0,
      cargo |-> headClick[ItemAt(h)]]]
Forest == INSTANCE ItemTree WITH
  Items <- TreeHandles, Cargos <- {NIL, 1}, Top <- 0, NoId <- 0, node <- TreeNodes
ItemsAreATree == Forest!ForestSpec
=============================================================================

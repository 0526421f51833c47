------------------------------ MODULE ItemTree ------------------------------
(***************************************************************************)
(* What the items of a TREE promise: a forest of items, each with an id    *)
(* and a cargo.  A command adds one item, changes the cargo of one, takes  *)
(* one away with all that is below it, or empties the tree.                *)
(***************************************************************************)

CONSTANTS
  Items, Cargos,
  Top,      \* above the items that have no parent
  NoId      \* the id of items that are told by their position

VARIABLE node   \* item -> [parent, id, cargo]

Present == DOMAIN node

(* i and all below it *)
Under(i) ==
  {j \in Present : \A S \in SUBSET Present :
     i \in S /\ (\A k \in Present : node[k].parent \in S => k \in S) => j \in S}

Restricted(S) == [i \in S |-> node[i]]

ForestInit == node = Restricted({})

(* A new item brings an id that no other has. *)
AddNode(i) ==
  /\ i \in Items \ Present /\ DOMAIN node' = Present \cup {i}
  /\ \A j \in Present : node'[j] = node[j]
  /\ node'[i].cargo \in Cargos /\ node'[i].parent \in Present \cup {Top}
  /\ node'[i].id = NoId \/ \A j \in Present : node[j].id # node'[i].id

RemoveNode(i) == node' = Restricted(Present \ Under(i))

RemoveAll == node' = Restricted({})

SetCargo(i) ==
  /\ node'[i].cargo \in Cargos \ {node[i].cargo}
  /\ node' = [node EXCEPT ![i].cargo = node'[i].cargo]

ForestNext ==
  \/ \E i \in DOMAIN node' \ Present : AddNode(i)
  \/ \E i \in Present \ DOMAIN node' : RemoveNode(i)
  \/ RemoveAll
  \/ DOMAIN node' = Present /\ \E i \in Present : SetCargo(i)

ForestSpec == ForestInit /\ [][ForestNext]_node
=============================================================================

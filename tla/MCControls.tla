----------------------------- MODULE MCControls -----------------------------
(***************************************************************************)
(* The controls table, with two windows and one name and key: enough for   *)
(* windows to want the same key and for slots and ids to be reused; or the *)
(* items of a TREE.  A behaviour is of one of them.  Bound: a program with *)
(* global hot keys is also one careful with its timers.                    *)
(***************************************************************************)
EXTENDS HmgControlsProps, TreeControlProps, TLC

CONSTANTS w1, w2, n1, k1, i1, i2, i3

VARIABLE part

Symmetric == Permutations(Windows) \cup Permutations(UserNames) \cup Permutations(Ids)

MCSortOrders == {[recurse |-> TRUE, ascending |-> FALSE, place |-> "mix"],
                 [recurse |-> FALSE, ascending |-> TRUE, place |-> "last"]}

ControlsInit ==
  /\ part \in {"table", "tree"} /\ Init /\ TreeInit
  /\ part = "table" => ~itemIds /\ (globalHotkeys => careful)
  /\ part = "tree" => careful /\ ~globalHotkeys

Table == part = "table" /\ Next /\ UNCHANGED <<part, treeVars>>
Tree == part = "tree" /\ TreeNext /\ UNCHANGED <<part, vars>>

ControlsNext == Table \/ Tree

ControlsSpec == ControlsInit /\ [][ControlsNext]_<<part, vars, treeVars>>
=============================================================================

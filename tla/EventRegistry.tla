--------------------------- MODULE EventRegistry ---------------------------
(***************************************************************************)
(* What ON, UPDATE and REMOVE APPEVENT (WINEVENT) promise: each window has *)
(* a table from event ids to actions for ON and another for ONCE, of a     *)
(* limited size; a command changes the entry it names and no other, except *)
(* REMOVE ALL and the end of the window, which empty the tables.           *)
(***************************************************************************)
EXTENDS Naturals, FiniteSets

CONSTANTS Tables, Ids, Actions, NoAction, Limit
VARIABLES action,   \* table -> id -> action, or NoAction
          active    \* table -> the ids whose action is to be run

Used(t) == {m \in Ids : action[t][m] # NoAction}

Init ==
  /\ action = [t \in Tables |-> [m \in Ids |-> NoAction]]
  /\ active = [t \in Tables |-> {}]

Put(t, m, a, on) ==
  /\ m \in Used(t) \/ Cardinality(Used(t)) < Limit
  /\ action' = [action EXCEPT ![t][m] = a]
  /\ active' = [active EXCEPT ![t] = IF on THEN @ \cup {m} ELSE @ \ {m}]

Delete(t, m) ==
  /\ action' = [action EXCEPT ![t][m] = NoAction]
  /\ active' = [active EXCEPT ![t] = @ \ {m}]

Clear(ts) ==
  /\ action' = [t \in Tables |-> IF t \in ts THEN [m \in Ids |-> NoAction] ELSE action[t]]
  /\ active' = [t \in Tables |-> IF t \in ts THEN {} ELSE active[t]]

Next ==
  \/ \E ts \in SUBSET Tables : Clear(ts)
  \/ \E t \in Tables, m \in Ids : Delete(t, m)
  \/ \E t \in Tables, m \in Ids, a \in Actions, on \in BOOLEAN : Put(t, m, a, on)

Spec == Init /\ [][Next]_<<action, active>>

=============================================================================

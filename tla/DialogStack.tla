---------------------------- MODULE DialogStack ----------------------------
(***************************************************************************)
(* What modal windows promise: the dialogs on the screen form a stack.     *)
(* Only a window that is not on the stack can be opened, it becomes the    *)
(* top, and only the top can be closed or hidden.                          *)
(***************************************************************************)
EXTENDS Naturals, Sequences

CONSTANT Windows
VARIABLE dialogs   \* the open dialogs, the one that takes input first

OpenDialogs == {dialogs[j] : j \in DOMAIN dialogs}

Init == dialogs = <<>>

Open(h) ==
  /\ h \in Windows \ OpenDialogs
  /\ dialogs' = <<h>> \o dialogs

CloseTop ==
  /\ dialogs # <<>>
  /\ dialogs' = Tail(dialogs)

Next == CloseTop \/ \E h \in Windows : Open(h)

Spec == Init /\ [][Next]_dialogs

=============================================================================

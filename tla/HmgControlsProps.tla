-------------------------- MODULE HmgControlsProps --------------------------
(***************************************************************************)
(* Properties of the controls table, its timers and its hot keys.          *)
(***************************************************************************)
EXTENDS HmgControls

Control == [type : Types, name : Names \cup {NoName}, parent : Windows \cup {NoWindow},
            id : Ids \cup {NoId}, once : BOOLEAN, enabled : BOOLEAN,
            key : Keys \cup {NoKey}, blink : BOOLEAN]

(* The type invariant of the arrays, the public variables and win32 *)
ControlsTypeOK ==
  /\ ctl \in [Slots -> Control]
  /\ index \in [Windows \X Names -> Slots \cup {0}]
  /\ open \subseteq Windows
  /\ osTimers \subseteq Windows \X Ids
  /\ osKeys \subseteq [win : Windows, id : Ids, key : Keys]
  /\ front \in Windows \cup {NoWindow} /\ focus \in Windows \cup {NoWindow}
  /\ globalHotkeys \in BOOLEAN /\ error \in BOOLEAN /\ careful \in Programs
  /\ since \subseteq Ids /\ fired \in [Slots -> 0 .. 2]

(* However slots are erased and taken again, the public variable of a      *)
(* timer or label leads to its slot, no variable of an erased control      *)
(* leads to the control that took its slot, and only windows that exist    *)
(* have controls.                                                          *)
IndexIsExact ==
  /\ \A w \in Windows, n \in Names : index[<<w, n>>] # 0 =>
       LET c == ctl[index[<<w, n>>]] IN c.parent = w /\ c.name = n /\ c.type # "ERASED"
  /\ \A k \in Slots :
       /\ ctl[k].type \in {"TIMER", "LABEL"} => index[<<ctl[k].parent, ctl[k].name>>] = k
       /\ ctl[k].type # "ERASED" => ctl[k].parent \in open

(* _GetId never gives out the id of a control that is in use, so a message *)
(* that carries an id means one control.                                   *)
IdsAreUnique == \A j, k \in Slots : ctl[j].id = ctl[k].id /\ ctl[j].id # NoId => j = k

(* A timer ticks exactly as long as its control is enabled: none is left   *)
(* in win32 for a control that is gone, and killing or releasing one timer *)
(* never stops another.  (A program that releases a running timer leaves   *)
(* it in win32.)                                                           *)
TimersMatch ==
  /\ \A k \in Slots : ctl[k].type = "TIMER" =>
       (ctl[k].enabled <=> <<ctl[k].parent, ctl[k].id>> \in osTimers)
  /\ careful => \A x \in osTimers :
       \E k \in Slots : ctl[k].type = "TIMER" /\ ctl[k].parent = x[1] /\ ctl[k].id = x[2]

(* Every hot key that win32 would report belongs to a control: neither the *)
(* end of a window nor the redefinition of a key leaves one registered.    *)
NoOrphanHotKey ==
  \A r \in osKeys : \E k \in Slots :
    ctl[k].type = "HOTKEY" /\ ctl[k].parent = r.win /\ ctl[k].id = r.id /\ ctl[k].key = r.key

(* Between one WM_SETFOCUS and the next, the keys registered are those of  *)
(* the window with the focus and those defined since, and no key that the  *)
(* window had when it got the focus is missing.                            *)
KeysFollowFocus ==
  /\ \A r \in osKeys : r.win = focus \/ r.id \in since
  /\ front # NoWindow =>
       \A k \in ControlsOf(front, "HOTKEY") : ctl[k].id \notin since =>
         [win |-> front, id |-> ctl[k].id, key |-> ctl[k].key] \in osKeys

(* A blinking label has its timer, and no timer of a label outlives or     *)
(* changes its label.                                                      *)
BlinkPaired ==
  /\ \A k \in Slots : ctl[k].blink =>
       LET t == index[<<ctl[k].parent, BlinkTimer(k)>>] IN t > 0 /\ ctl[t].type = "TIMER"
  /\ \A k \in Slots, w \in Windows : index[<<w, BlinkTimer(k)>>] # 0 =>
       ctl[k].blink /\ ctl[k].parent = w

(* No call or message makes the library read the arrays at index 0 or take *)
(* another control for a timer, in a program that is careful with timers.  *)
NoRuntimeError == careful => ~error

(* A ONCE timer runs its procedure once: it does not tick again unless the *)
(* program enables it again.  (In a careless program the timer left over   *)
(* from another control may carry its id and makes it run.)                *)
OnceTicksOnce == careful => \A k \in Slots : fired[k] <= 1

(* Closing a window with blinking labels does not fail (ChangeLog.txt:     *)
(* fixed, a problem with the blinking of a label when its form closes).    *)
BlinkCloses == [][\A w \in Windows : DestroyWindow(w) => ~error']_vars
=============================================================================

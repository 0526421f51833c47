----------------------------- MODULE HmgControls -----------------------------
(***************************************************************************)
(* The controls table of MiniGUI with the three kinds of control that live *)
(* outside their window: timers (h_timer.prg), hot keys (h_hotkey.prg) and *)
(* blinking labels, which own a timer (h_label.prg, h_controlmisc.prg).    *)
(*                                                                         *)
(* A control is a slot of the arrays _HMG_aControl...; a public variable   *)
(* per window and name holds the slot.  Win32 keeps timers and hot keys by *)
(* window and id and knows nothing of slots; ids of erased controls are    *)
(* given out again.  All of it runs in one thread, and a procedure of the  *)
(* program may make any of the calls below.                                *)
(***************************************************************************)
EXTENDS Naturals

CONSTANTS
  Windows,     \* names of windows; a name has one handle at a time
  UserNames,   \* names of labels and timers
  Keys,        \* pairs of modifier and key
  Ids,         \* bound: the ids that _GetId draws from
  MaxSlots,    \* bound: length of the arrays
  NoWindow, NoName, NoKey, NoId,
  Programs     \* which programs are checked, see careful

BlinkTimer(k) == <<"BlinkTimer", k>>

Slots == 1 .. MaxSlots
Names == UserNames \cup {BlinkTimer(k) : k \in Slots}

ASSUME HmgControlsAssumption ==
  /\ MaxSlots \in Nat
  /\ NoWindow \notin Windows /\ NoName \notin Names /\ NoKey \notin Keys /\ NoId \notin Ids
  /\ \A k \in Slots : BlinkTimer(k) \notin UserNames
  /\ Programs \subseteq BOOLEAN

VARIABLES
  ctl,      \* _HMG_aControl...: the arrays
  index,    \* the public variables _<window>_<name>, 0 when erased
  open,     \* windows that exist
  osTimers, \* win32: <<window, id>> of running timers
  osKeys,   \* win32: registered hot keys
  front,    \* GetForegroundWindow(), NoWindow when it is none of ours
  globalHotkeys, \* _HMG_GlobalHotkeys
  error,    \* a runtime error ended the program
  careful,  \* chosen at the start: the program stops a timer before it
            \* releases it alone, and switches BLINK on only when no slot
            \* before the label is free
  focus, since, fired \* for the properties: the last window that got the
            \* focus, ids of hot keys defined after that, and how often a
            \* ONCE timer ran since it was enabled (2 is two or more)

win32  == <<open, osTimers, osKeys, front, globalHotkeys, careful>>
ghosts == <<focus, since, fired>>
vars   == <<ctl, index, win32, error, ghosts>>

Erased == [type |-> "ERASED", name |-> NoName, parent |-> NoWindow, id |-> NoId,
           once |-> FALSE, enabled |-> FALSE, key |-> NoKey, blink |-> FALSE]

Types == {"ERASED", "TIMER", "HOTKEY", "LABEL"}

FreeSlots    == {k \in Slots : ctl[k].type = "ERASED"}
ControlsOf(w, t) == {k \in Slots : ctl[k].type = t /\ ctl[k].parent = w}

(* Faulty: the last erased slot *)
LastControlFree == CHOOSE k \in FreeSlots : \A j \in FreeSlots : k >= j

(* _GetControlFree: the first erased slot; behind them one is appended *)
GetControlFree == CHOOSE k \in FreeSlots : \A j \in FreeSlots : k <= j

(* Faulty: any id *)
AnyId(id) == id \in Ids

(* _GetId: repeats until the number drawn is the id of no control *)
GetId(id) == id \in Ids /\ \A k \in Slots : ctl[k].id # id

IsControlDefined(w, n) ==
  index[<<w, n>>] # 0 /\ ctl[index[<<w, n>>]].type # "ERASED"

-----------------------------------------------------------------------------
(* What the calls of win32 do.                                             *)

(* Faulty: the id is given as the window *)
InitTimerSwapped(w, id) == osTimers \cup {<<id, w>>}

InitTimer(w, id) == osTimers \cup {<<w, id>>}
KillTimer(w, id) == osTimers \ {<<w, id>>}

(* RegisterHotKey fails for a key that any window has registered *)
InitHotKey(keys, w, key, id) ==
  IF \E r \in keys : r.key = key THEN keys
  ELSE keys \cup {[win |-> w, id |-> id, key |-> key]}

(* Faulty: nothing is released *)
KeysKept(S) == osKeys

(* ReleaseHotKey for the hot keys among the controls S *)
ReleaseHotKeys(S) ==
  {r \in osKeys : \A k \in S :
     ctl[k].type = "HOTKEY" => r.win # ctl[k].parent \/ r.id # ctl[k].id}

-----------------------------------------------------------------------------
(* Faulty: a label leaves its timer; the public variable keeps the slot *)
EraseAlone(k) == {k}
IndexKept(S) == index

(* _EraseControl takes the timer of a blinking label with it *)
ErasedWith(k) ==
  IF ctl[k].blink THEN {k, index[<<ctl[k].parent, BlinkTimer(k)>>]} ELSE {k}

(* The arrays and the public variables after _EraseControl of the slots S *)
EraseSlots(S) == [k \in Slots |-> IF k \in S THEN Erased ELSE ctl[k]]
EraseIndex(S) ==
  [x \in Windows \X Names |->
     IF \E k \in S : x = <<ctl[k].parent, ctl[k].name>> THEN 0 ELSE index[x]]

EraseControls(S) ==
  /\ ctl' = EraseSlots(S)
  /\ index' = EraseIndex(S)
  /\ osKeys' = ReleaseHotKeys(S)
  /\ fired' = [k \in Slots |-> IF k \in S THEN 0 ELSE fired[k]]

(* _EraseControl( 0, ... ) reads _HMG_aControlFontHandle [ 0 ] *)
RuntimeError == error' = TRUE /\ UNCHANGED <<ctl, index, win32, ghosts>>

-----------------------------------------------------------------------------
(* The calls of the program                                                *)

(* DEFINE WINDOW *)
OpenWindow(w) ==
  /\ w \notin open
  /\ open' = open \cup {w}
  /\ UNCHANGED <<ctl, index, osTimers, osKeys, front, globalHotkeys, careful, error, ghosts>>

Timer(w, n, id, once) ==
  [Erased EXCEPT !.type = "TIMER", !.name = n, !.parent = w, !.id = id,
                 !.once = once, !.enabled = TRUE]

(* _DefineTimer *)
DefineTimer(w, n, once, id) ==
  LET k == GetControlFree
  IN  /\ w \in open
      /\ ~IsControlDefined(w, n)
      /\ FreeSlots # {}
      /\ GetId(id)
      /\ ctl' = [ctl EXCEPT ![k] = Timer(w, n, id, once)]
      /\ index' = [index EXCEPT ![<<w, n>>] = k]
      /\ osTimers' = InitTimer(w, id)
      /\ UNCHANGED <<open, osKeys, front, globalHotkeys, careful, error, ghosts>>

(* _DefineHotKey: replaces the key of that window, and is entered in the   *)
(* table whether or not win32 accepts it                                   *)
DefineHotKey(w, key, id) ==
  LET same == {k \in ControlsOf(w, "HOTKEY") : ctl[k].key = key}
      first == {k \in same : \A j \in same : k <= j}
      slots == FreeSlots \cup first
      k == CHOOSE k \in slots : \A j \in slots : k <= j
  IN  /\ w \in open
      /\ slots # {}
      /\ id \in Ids
      /\ \A j \in Slots \ first : ctl[j].id # id
      /\ ctl' = [EraseSlots(first) EXCEPT ![k] =
                   [Erased EXCEPT !.type = "HOTKEY", !.parent = w, !.id = id,
                                  !.key = key, !.enabled = TRUE]]
      /\ osKeys' = InitHotKey(ReleaseHotKeys(first), w, key, id)
      /\ since' = (since \ {ctl[j].id : j \in first}) \cup {id}
      /\ UNCHANGED <<index, open, osTimers, front, globalHotkeys, careful, error, focus, fired>>

(* _ReleaseHotKey: the first one of the window with that key *)
ReleaseHotKey(w, key) ==
  \E k \in ControlsOf(w, "HOTKEY") :
    /\ ctl[k].key = key
    /\ \A j \in ControlsOf(w, "HOTKEY") : ctl[j].key = key => k <= j
    /\ EraseControls({k})
    /\ since' = since \ {ctl[k].id}
    /\ UNCHANGED <<open, osTimers, front, globalHotkeys, careful, error, focus>>

(* _DefineLabel, _DefineChkLabel: a label that is defined as blinking has  *)
(* its timer in a slot behind its own                                      *)
DefineLabel(w, n, blink, id) ==
  LET k == GetControlFree
      rest == FreeSlots \ {k}
      t == CHOOSE t \in rest : \A j \in rest : t <= j
      label == [Erased EXCEPT !.type = "LABEL", !.name = n, !.parent = w,
                              !.enabled = TRUE, !.blink = blink]
  IN  /\ w \in open
      /\ ~IsControlDefined(w, n)
      /\ FreeSlots # {}
      /\ \/ /\ ~blink
            /\ ctl' = [ctl EXCEPT ![k] = label]
            /\ index' = [index EXCEPT ![<<w, n>>] = k]
            /\ UNCHANGED osTimers
         \/ /\ blink
            /\ rest # {}
            /\ GetId(id)
            /\ ctl' = [ctl EXCEPT ![k] = label, ![t] = Timer(w, BlinkTimer(k), id, FALSE)]
            /\ index' = [index EXCEPT ![<<w, n>>] = k, ![<<w, BlinkTimer(k)>>] = t]
            /\ osTimers' = InitTimer(w, id)
      /\ UNCHANGED <<open, osKeys, front, globalHotkeys, careful, error, ghosts>>

(* _EnableControl, _DisableControl of the timer in slot k *)
EnableTimer(k) ==
  /\ ctl' = [ctl EXCEPT ![k].enabled = TRUE]
  /\ osTimers' = InitTimer(ctl[k].parent, ctl[k].id)
  /\ fired' = [fired EXCEPT ![k] = 0]
(* Faulty: the timer of win32 goes on *)
DisableOnly(k) ==
  /\ ctl' = [ctl EXCEPT ![k].enabled = FALSE]
  /\ UNCHANGED osTimers
DisableTimer(k) ==
  /\ ctl' = [ctl EXCEPT ![k].enabled = FALSE]
  /\ osTimers' = IF ctl[k].enabled THEN KillTimer(ctl[k].parent, ctl[k].id) ELSE osTimers

Enable(w, n, on) ==
  \E k \in ControlsOf(w, "TIMER") :
    /\ k = index[<<w, n>>]
    /\ \/ on /\ EnableTimer(k)
       \/ ~on /\ DisableTimer(k) /\ UNCHANGED fired
    /\ UNCHANGED <<index, open, osKeys, front, globalHotkeys, careful, error, focus, since>>

(* SetProperty( w, n, "BLINK", on ): the first .T. defines the timer, which *)
(* then is enabled and disabled                                            *)
SetBlink(w, n, on, id) ==
  \E k \in ControlsOf(w, "LABEL") :
    /\ k = index[<<w, n>>]
    /\ \/ ctl[k].blink /\ Enable(w, BlinkTimer(k), on)
       \/ /\ on /\ ~ctl[k].blink
          /\ ~IsControlDefined(w, BlinkTimer(k))
          /\ FreeSlots # {}
          /\ careful => GetControlFree > k
          /\ GetId(id)
          /\ ctl' = [ctl EXCEPT ![k].blink = TRUE,
                       ![GetControlFree] = Timer(w, BlinkTimer(k), id, FALSE)]
          /\ index' = [index EXCEPT ![<<w, BlinkTimer(k)>>] = GetControlFree]
          /\ osTimers' = InitTimer(w, id)
          /\ UNCHANGED <<open, osKeys, front, globalHotkeys, careful, error, ghosts>>

(* Bound: at most one timer of win32 is without a control *)
StaleTimers ==
  {x \in osTimers : \A k \in Slots : ctl[k].parent # x[1] \/ ctl[k].id # x[2]}

(* _ReleaseControl of one control.  No timer of win32 is killed.           *)
ReleaseControl(w, n) ==
  LET k == index[<<w, n>>]
  IN  /\ w \in open
      /\ IsControlDefined(w, n)
      /\ careful \/ StaleTimers # {} =>
           \A j \in ErasedWith(k) \ {0} : ctl[j].type = "TIMER" => ~ctl[j].enabled
      /\ \/ /\ 0 \in ErasedWith(k)
            /\ RuntimeError
         \/ /\ 0 \notin ErasedWith(k)
            /\ EraseControls(ErasedWith(k))
            /\ UNCHANGED <<open, osTimers, front, globalHotkeys, careful, error, focus, since>>

-----------------------------------------------------------------------------
(* Messages                                                                *)

(* Faulty: the hot keys of the window that had the focus stay *)
FocusAdds(w) ==
  osKeys \cup {r \in [win : {w}, id : Ids, key : Keys] :
                 /\ \E k \in ControlsOf(w, "HOTKEY") : ctl[k].id = r.id /\ ctl[k].key = r.key
                 /\ \A q \in osKeys : q.key # r.key}

(* WM_SETFOCUS: releases all hot keys, then registers those of the window  *)
FocusKeys(w) ==
  LET left == ReleaseHotKeys(Slots)
      own == ControlsOf(w, "HOTKEY")
  IN  left \cup {[win |-> w, id |-> ctl[k].id, key |-> ctl[k].key] :
                   k \in {k \in own : /\ \A r \in left : r.key # ctl[k].key
                                      /\ \A j \in own : ctl[j].key = ctl[k].key => k <= j}}

SetFocus(w) ==
  /\ w \in open
  /\ front \in {NoWindow, w}
  /\ front' = w
  /\ osKeys' = FocusKeys(w)
  /\ focus' = w
  /\ since' = {}
  /\ UNCHANGED <<ctl, index, open, osTimers, globalHotkeys, careful, error, fired>>

(* WM_ACTIVATE of a window that goes to the back *)
Deactivate ==
  /\ front # NoWindow
  /\ front' = NoWindow
  /\ \/ /\ ~globalHotkeys
        /\ osKeys' = ReleaseHotKeys(Slots)
        /\ since' = {}
     \/ globalHotkeys /\ UNCHANGED <<osKeys, since>>
  /\ UNCHANGED <<ctl, index, open, osTimers, globalHotkeys, careful, error, focus, fired>>

(* WM_DESTROY: erases the controls of the window in the order of their     *)
(* slots; a label whose timer came before it finds no timer to release.    *)
(* Win32 drops the timers of the window.                                   *)
TimerComesFirst(k) == ctl[k].blink /\ index[<<ctl[k].parent, BlinkTimer(k)>>] < k
DestroyWindow(w) ==
  LET own == {k \in Slots : ctl[k].type # "ERASED" /\ ctl[k].parent = w}
      all == UNION {ErasedWith(k) : k \in own}
  IN  /\ w \in open
      /\ front # w
      /\ \/ /\ \E k \in own : TimerComesFirst(k)
            /\ RuntimeError
         \/ /\ \A k \in own : ~TimerComesFirst(k)
            /\ EraseControls(all)
            /\ open' = open \ {w}
            /\ osTimers' = {x \in osTimers : x[1] # w}
            /\ since' = since \ {ctl[k].id : k \in {k \in all : ctl[k].type = "HOTKEY"}}
            /\ UNCHANGED <<front, globalHotkeys, careful, error, focus>>

(* WM_TIMER: the control is found by its id alone.  In the slot of a hot   *)
(* key or a label the flag of ONCE is a string.  A procedure is code of    *)
(* the program, which makes any of the calls above.                        *)
Tick(w, id) ==
  /\ <<w, id>> \in osTimers
  /\ \E k \in Slots :
       /\ ctl[k].id = id
       /\ \A j \in 1 .. k - 1 : ctl[j].id # id
       /\ \/ /\ ctl[k].type # "TIMER"
             /\ RuntimeError
          \/ /\ ctl[k].type = "TIMER"
             /\ ctl[k].once
             /\ DisableTimer(k)
             /\ fired' = [fired EXCEPT ![k] = IF @ = 0 THEN 1 ELSE 2]
             /\ UNCHANGED <<index, open, osKeys, front, globalHotkeys, careful, error, focus, since>>

-----------------------------------------------------------------------------
Init ==
  /\ ctl = [k \in Slots |-> Erased]
  /\ index = [x \in Windows \X Names |-> 0]
  /\ open = {}
  /\ osTimers = {} /\ osKeys = {}
  /\ front = NoWindow
  /\ globalHotkeys \in BOOLEAN
  /\ careful \in Programs
  /\ error = FALSE
  /\ focus = NoWindow /\ since = {} /\ fired = [k \in Slots |-> 0]

Calls(w) ==
  \/ OpenWindow(w) \/ SetFocus(w) \/ DestroyWindow(w)
  \/ \E n \in UserNames :
       \/ ReleaseControl(w, n)
       \/ \E on \in BOOLEAN : Enable(w, n, on)
       \/ \E on \in BOOLEAN, id \in Ids :
            DefineTimer(w, n, on, id) \/ DefineLabel(w, n, on, id) \/ SetBlink(w, n, on, id)
  \/ \E key \in Keys :
       ReleaseHotKey(w, key) \/ \E id \in Ids : DefineHotKey(w, key, id)
  \/ \E id \in Ids : Tick(w, id)

Next == ~error /\ (Deactivate \/ \E w \in Windows : Calls(w))

Spec == Init /\ [][Next]_vars
=============================================================================
